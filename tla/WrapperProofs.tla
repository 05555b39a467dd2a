----------------------------- MODULE WrapperProofs -----------------------------
(***************************************************************************)
(* Proofs about Wrapper, for every value of its constants: any number of   *)
(* requests, credentials, profiles and calls of the app.                   *)
(***************************************************************************)
EXTENDS Wrapper, SubsequenceProofs, SequenceTheorems

-----------------------------------------------------------------------------
(* Calls one behind the other *)

LEMMA ItemsEmpty ==
  /\ Items(<<>>) = {} /\ InLine(<<>>)
  /\ \A s : AheadOf(<<>>, s) /\ AheadOf(s, <<>>)
BY DEF Items, InLine, AheadOf

LEMMA ItemsAppend ==
  ASSUME NEW s \in Seq(Call), NEW c \in Call
  PROVE  /\ Append(s, c) \in Seq(Call)
         /\ Items(Append(s, c)) = Items(s) \cup {c}
         /\ InLine(s) /\ (\A d \in Items(s) : MayPrecede(d, c)) => InLine(Append(s, c))
<1>. DEFINE t == Append(s, c)
<1>1. /\ t \in Seq(Call) /\ Len(t) = Len(s) + 1 /\ Len(s) \in Nat
      /\ DOMAIN t = 1 .. Len(s) + 1 /\ DOMAIN s = 1 .. Len(s)
      /\ \A i \in 1 .. Len(s) : t[i] = s[i]
      /\ t[Len(s) + 1] = c
  BY AppendProperties
<1>. HIDE DEF t
<1>2. Items(t) = Items(s) \cup {c}
  BY <1>1 DEF Items
<1>3. ASSUME InLine(s), \A d \in Items(s) : MayPrecede(d, c) PROVE InLine(t)
  <2>1. ASSUME NEW i \in DOMAIN t, NEW j \in DOMAIN t, i < j PROVE MayPrecede(t[i], t[j])
    <3>1. i \in DOMAIN s /\ t[i] = s[i] /\ s[i] \in Items(s)
      BY <1>1, <2>1 DEF Items
    <3>2. CASE j = Len(s) + 1
      BY <1>1, <1>3, <3>1, <3>2
    <3>3. CASE j # Len(s) + 1
      <4>1. j \in DOMAIN s /\ t[j] = s[j]
        BY <1>1, <3>3
      <4>. QED BY <1>3, <2>1, <3>1, <4>1 DEF InLine
    <3>. QED BY <3>2, <3>3
  <2>. QED BY <2>1 DEF InLine
<1>. QED BY <1>1, <1>2, <1>3 DEF t

\* A part of a queue.
LEMMA ItemsSubSeq ==
  ASSUME NEW s \in Seq(Call), NEW m \in 1 .. Len(s) + 1, NEW n \in 0 .. Len(s)
  PROVE  /\ SubSeq(s, m, n) \in Seq(Call)
         /\ Len(SubSeq(s, m, n)) = IF m <= n THEN n - m + 1 ELSE 0
         /\ \A i \in 1 .. n - m + 1 : SubSeq(s, m, n)[i] = s[i + m - 1]
         /\ \A d : d \in Items(SubSeq(s, m, n)) <=> \E i \in m .. n : d = s[i]
         /\ Items(SubSeq(s, m, n)) \subseteq Items(s)
         /\ InLine(s) => InLine(SubSeq(s, m, n))
<1>. DEFINE t == SubSeq(s, m, n)
<1>1. /\ t \in Seq(Call) /\ Len(t) = (IF m <= n THEN n - m + 1 ELSE 0) /\ Len(s) \in Nat
      /\ DOMAIN t = 1 .. Len(t) /\ DOMAIN s = 1 .. Len(s)
      /\ \A i \in DOMAIN t : t[i] = s[i + m - 1] /\ i + m - 1 \in m .. n
      /\ m .. n \subseteq DOMAIN s
  OBVIOUS
<1>. HIDE DEF t
<1>2. ASSUME NEW i \in m .. n PROVE \E k \in DOMAIN t : t[k] = s[i]
  <2>1. /\ m \in Int /\ n \in Int /\ i \in Int /\ m <= i /\ i <= n
        /\ Len(t) = n - m + 1
    BY <1>1
  <2>2. i - m + 1 \in DOMAIN t /\ (i - m + 1) + m - 1 = i
    BY <1>1, <2>1
  <2>. QED BY <1>1, <2>2
<1>3. \A d : d \in Items(t) <=> \E i \in m .. n : d = s[i]
  BY <1>1, <1>2 DEF Items
<1>4. Items(t) \subseteq Items(s)
  BY <1>1, <1>3 DEF Items
<1>5. ASSUME InLine(s), NEW i \in DOMAIN t, NEW j \in DOMAIN t, i < j
      PROVE  MayPrecede(t[i], t[j])
  <2>1. i \in Int /\ j \in Int /\ m \in Int
    BY <1>1
  <2>2. i + m - 1 < j + m - 1 /\ i + m - 1 \in DOMAIN s /\ j + m - 1 \in DOMAIN s
    BY <1>1, <1>5, <2>1
  <2>. QED BY <1>1, <1>5, <2>2 DEF InLine
<1>. QED BY <1>1, <1>3, <1>4, <1>5 DEF t, InLine

LEMMA ItemsTail ==
  ASSUME NEW s \in Seq(Call), s # <<>>
  PROVE  /\ Tail(s) \in Seq(Call) /\ s[1] \in Call
         /\ Len(Tail(s)) = Len(s) - 1
         /\ \A i \in DOMAIN Tail(s) : Tail(s)[i] = s[i + 1] /\ i + 1 \in DOMAIN s
         /\ Items(s) = {s[1]} \cup Items(Tail(s))
         /\ InLine(s) => /\ InLine(Tail(s))
                         /\ \A d \in Items(Tail(s)) : MayPrecede(s[1], d)
<1>. DEFINE t == Tail(s)
<1>1. /\ t \in Seq(Call) /\ Len(t) = Len(s) - 1 /\ Len(s) \in Nat /\ Len(s) >= 1
      /\ DOMAIN t = 1 .. Len(s) - 1 /\ DOMAIN s = 1 .. Len(s)
      /\ \A i \in DOMAIN t : t[i] = s[i + 1] /\ i + 1 \in DOMAIN s
      /\ s[1] \in Call
  OBVIOUS
<1>. HIDE DEF t
<1>2. ASSUME NEW i \in DOMAIN s PROVE i = 1 \/ (i - 1 \in DOMAIN t /\ t[i - 1] = s[i])
  BY <1>1
<1>3. Items(s) = {s[1]} \cup Items(t)
  BY <1>1, <1>2 DEF Items
<1>4. ASSUME InLine(s) PROVE InLine(t) /\ \A d \in Items(t) : MayPrecede(s[1], d)
  <2>1. \A i, j \in DOMAIN t : i < j => MayPrecede(t[i], t[j])
    BY <1>1, <1>4 DEF InLine
  <2>2. \A i \in DOMAIN t : MayPrecede(s[1], t[i])
    <3>1. ASSUME NEW i \in DOMAIN t PROVE MayPrecede(s[1], s[i + 1])
      <4>1. 1 \in DOMAIN s /\ i + 1 \in DOMAIN s /\ 1 < i + 1
        BY <1>1
      <4>. QED BY <1>4, <4>1 DEF InLine
    <3>. QED BY <1>1, <3>1
  <2>. QED BY <2>1, <2>2 DEF InLine, Items
<1>. QED BY <1>1, <1>3, <1>4 DEF t

\* A queue without one of its calls.
Without(s, a) == SubSeq(s, 1, a - 1) \o SubSeq(s, a + 1, Len(s))

LEMMA ItemsWithout ==
  ASSUME NEW s \in Seq(Call), NEW a \in 1 .. Len(s)
  PROVE  /\ Without(s, a) \in Seq(Call)
         /\ \A d \in Items(Without(s, a)) : \E i \in DOMAIN s : i # a /\ d = s[i]
         /\ InLine(s) => InLine(Without(s, a))
<1>. DEFINE r == Without(s, a)
            x == SubSeq(s, 1, a - 1)
            y == SubSeq(s, a + 1, Len(s))
<1>1. /\ Len(s) \in Nat /\ a \in 1 .. Len(s) /\ a \in Nat
      /\ DOMAIN s = 1 .. Len(s) /\ a - 1 \in Nat /\ Len(s) - a \in Nat
  OBVIOUS
<1>2. /\ x \in Seq(Call) /\ Len(x) = a - 1 /\ \A i \in 1 .. a - 1 : x[i] = s[i]
      /\ y \in Seq(Call) /\ Len(y) = Len(s) - a /\ \A i \in 1 .. Len(s) - a : y[i] = s[i + a]
  <2>1. x \in Seq(Call) /\ Len(x) = a - 1 /\ \A i \in 1 .. a - 1 : x[i] = s[i]
    BY <1>1
  <2>2. /\ y \in Seq(Call) /\ Len(y) = Len(s) - a
        /\ \A i \in 1 .. Len(s) - a : y[i] = s[i + a]
    <3>. DEFINE m == a + 1
                n == Len(s)
    <3>. HIDE DEF y, n
    <3>0. n \in Nat /\ a \in 1 .. n
      BY <1>1 DEF n
    <3>1. m \in 1 .. n + 1 /\ n \in 0 .. n /\ n - m + 1 = n - a /\ (m <= n \/ n - a = 0)
      BY <3>0
    <3>2. \A i \in 1 .. n - a : i + m - 1 = i + a
      BY <3>0
    <3>. USE DEF n
    <3>. HIDE DEF m
    <3>3. /\ SubSeq(s, m, n) \in Seq(Call)
          /\ Len(SubSeq(s, m, n)) = IF m <= n THEN n - m + 1 ELSE 0
          /\ \A i \in 1 .. n - m + 1 : SubSeq(s, m, n)[i] = s[i + m - 1]
      BY <3>1, ItemsSubSeq
    <3>4. y = SubSeq(s, m, n)
      BY DEF m, y
    <3>5. Len(y) = n - a
      BY <1>1, <3>1, <3>3, <3>4 DEF m
    <3>. HIDE DEF n, y
    <3>. QED BY <3>1, <3>2, <3>3, <3>4, <3>5 DEF n
  <2>. HIDE DEF x, y
  <2>. QED BY <2>1, <2>2
<1>. HIDE DEF x, y, r
<1>3. /\ r \in Seq(Call) /\ Len(r) = Len(s) - 1 /\ DOMAIN r = 1 .. Len(s) - 1
      /\ \A i \in DOMAIN r : r[i] = IF i < a THEN s[i] ELSE s[i + 1]
  <2>1. r = x \o y
    BY DEF x, y, r, Without
  <2>2. /\ x \o y \in Seq(Call) /\ Len(x \o y) = Len(x) + Len(y)
        /\ \A i \in 1 .. Len(x) + Len(y) :
             (x \o y)[i] = IF i <= Len(x) THEN x[i] ELSE y[i - Len(x)]
    BY <1>2, ConcatProperties
  <2>3. ASSUME NEW i \in 1 .. Len(s) - 1
        PROVE  (x \o y)[i] = IF i < a THEN s[i] ELSE s[i + 1]
    <3>1. CASE i < a
      BY <1>1, <1>2, <2>2, <3>1
    <3>2. CASE ~(i < a)
      <4>1. i - (a - 1) \in 1 .. Len(s) - a /\ (i - (a - 1)) + a = i + 1 /\ ~(i <= a - 1)
        <5>1. i \in Int /\ a \in Int /\ i >= a /\ i <= Len(s) - 1
          BY <1>1, <3>2
        <5>. QED BY <1>1, <5>1
      <4>2. (x \o y)[i] = y[i - (a - 1)]
        BY <1>1, <1>2, <2>2, <4>1
      <4>. QED BY <1>2, <3>2, <4>1, <4>2
    <3>. QED BY <3>1, <3>2
  <2>4. r \in Seq(Call) /\ Len(r) = Len(s) - 1
    BY <1>1, <1>2, <2>1, <2>2
  <2>5. DOMAIN r = 1 .. Len(s) - 1
    BY <1>1, <2>4
  <2>. QED BY <2>1, <2>3, <2>4, <2>5, Zenon
<1>4. \A d \in Items(r) : \E i \in DOMAIN s : i # a /\ d = s[i]
  <2>1. ASSUME NEW i \in DOMAIN r PROVE \E k \in DOMAIN s : k # a /\ r[i] = s[k]
    <3>1. i \in Int /\ i \in DOMAIN s /\ i + 1 \in DOMAIN s
      BY <1>1, <1>3
    <3>2. CASE i < a
      BY <1>1, <1>3, <3>1, <3>2
    <3>3. CASE ~(i < a)
      <4>1. i + 1 # a
        BY <1>1, <3>1, <3>3
      <4>. QED BY <1>3, <3>1, <3>3, <4>1
    <3>. QED BY <3>2, <3>3
  <2>. QED BY <2>1 DEF Items
<1>5. ASSUME InLine(s), NEW i \in DOMAIN r, NEW j \in DOMAIN r, i < j
      PROVE  MayPrecede(r[i], r[j])
  <2>. DEFINE p(k) == IF k < a THEN k ELSE k + 1
  <2>1. p(i) \in DOMAIN s /\ p(j) \in DOMAIN s /\ p(i) < p(j)
    <3>1. i \in Int /\ j \in Int /\ i \in 1 .. Len(s) - 1 /\ j \in 1 .. Len(s) - 1
      BY <1>3
    <3>. QED BY <1>1, <1>5, <3>1
  <2>2. r[i] = s[p(i)] /\ r[j] = s[p(j)]
    BY <1>3
  <2>. QED BY <1>5, <2>1, <2>2 DEF InLine
<1>. QED BY <1>3, <1>4, <1>5 DEF InLine, r

-----------------------------------------------------------------------------
(* The inductive invariant, in parts *)

Typed  == TypeOK /\ IdsGenerated /\ CutExplains
Line   == CallsInLine /\ MarkersInStep
Fits   == ToldOnce /\ \A c \in EngineCalls : CallFits(c)
Agreed == StoredIdsMatch /\ ("logout" \notin Overlaps => SessionIsTheOneTold)
IInv   == Typed /\ Line /\ Fits /\ AnswersInStep /\ SwitchesInStep /\ Agreed

LEMMA BusyIs == Busy <=> \E c \in EngineCalls : UnderWay(c)
BY DEF Busy, EngineCalls, Items

LEMMA CallsTyped == ASSUME Typed, NEW c \in EngineCalls PROVE c \in Call
BY DEF Typed, TypeOK, EngineCalls, Items

LEMMA PlainIs ==
  ASSUME NEW op \in {"authenticate", "identities", "attach", "logout", "delete", "marker"}
  PROVE  Plain(op) \in Call /\ Plain(op).op = op /\ Plain(op).ids.anonymous = None
BY WrapperAssumption DEF Plain, Request, Call, Ids, None, Nobody, Itself

LEMMA RequestIs ==
  ASSUME NEW op \in {"authenticate", "identities", "attach", "logout", "delete", "marker"},
         NEW to \in 0 .. Itself, NEW credential \in Credentials \cup {NoCredential},
         NEW ids \in Ids
  PROVE  LET c == Request(op, to, credential, ids)
         IN  c \in Call /\ c.op = op /\ c.to = to /\ c.credential = credential /\ c.ids = ids
BY DEF Request, Call

\* The app appends a call to the queue.
LEMMA LineAppended ==
  ASSUME Typed, Line, NEW c \in Call,
         c.op \in {"authenticate", "identities", "attach", "logout"},
         Busy => c.op \in {"attach", "logout"} \cap Overlaps,
         bundle' = bundle, queue' = Append(queue, c)
  PROVE  /\ Line' /\ queue' \in Seq(Call)
         /\ EngineCalls' = EngineCalls \cup {c}
<1>1. queue \in Seq(Call)
  BY DEF Typed, TypeOK
<1>2. queue' \in Seq(Call) /\ Items(queue') = Items(queue) \cup {c}
  BY <1>1, ItemsAppend
<1>3. EngineCalls' = EngineCalls \cup {c}
  BY <1>2 DEF EngineCalls
<1>4. ASSUME NEW d \in EngineCalls PROVE MayPrecede(d, c)
  <2>1. CASE Busy
    BY <2>1, WrapperAssumption DEF MayPrecede, EndsSession
  <2>2. CASE ~Busy
    <3>1. d.op \notin {"authenticate", "identities", "logout", "delete"}
      BY <2>2, BusyIs DEF UnderWay
    <3>2. ~MarkerWaits
      BY <2>2, BusyIs DEF UnderWay, Line, MarkersInStep, EngineCalls
    <3>3. d.op # "marker"
      BY <3>2 DEF EngineCalls, MarkerWaits, Line, MarkersInStep
    <3>. QED BY <3>1, <3>3 DEF MayPrecede, IsRequest
  <2>. QED BY <2>1, <2>2
<1>5. InLine(queue') /\ AheadOf(bundle', queue') /\ InLine(bundle')
  BY <1>1, <1>2, <1>4, ItemsAppend DEF Line, CallsInLine, AheadOf, EngineCalls
<1>6. MarkersInStep'
  <2>1. MarkerWaits => MarkerWaits'
    BY <1>2 DEF MarkerWaits
  <2>2. MarkerWaits' => MarkerWaits
    BY <1>2 DEF MarkerWaits
  <2>3. MarkerWaits' => \E d \in Items(queue') : d.op = "authenticate"
    BY <1>2, <2>2 DEF Line, MarkersInStep
  <2>4. ASSUME NEW d \in Items(queue'), NEW e \in EngineCalls', EndsSession(d), IsRequest(e)
        PROVE  MarkerWaits'
    <3>1. CASE d \in Items(queue) /\ e \in EngineCalls
      BY <2>1, <2>4, <3>1 DEF Line, MarkersInStep
    <3>2. CASE d = c /\ e \in EngineCalls
      BY <2>4, <3>2, BusyIs, WrapperAssumption DEF UnderWay, IsRequest, EndsSession
    <3>3. CASE e = c /\ d \in Items(queue)
      BY <2>4, <3>3, BusyIs DEF UnderWay, IsRequest, EndsSession, EngineCalls
    <3>4. CASE d = c /\ e = c
      BY <2>4, <3>4 DEF IsRequest, EndsSession
    <3>. QED BY <1>2, <1>3, <3>1, <3>2, <3>3, <3>4
  <2>5. \A d \in Items(bundle') : d.op # "marker"
    BY DEF Line, MarkersInStep
  <2>. QED BY <2>3, <2>4, <2>5 DEF MarkersInStep
<1>. QED BY <1>2, <1>3, <1>5, <1>6 DEF Line, CallsInLine

\* Calls leave the engine, or all of them are forgotten.
LEMMA LineEmpty ==
  ASSUME bundle' = <<>>, queue' = <<>>
  PROVE  Line' /\ EngineCalls' = {} /\ ~Busy'
<1>1. Items(bundle') = {} /\ Items(queue') = {}
  BY ItemsEmpty
<1>2. CallsInLine'
  BY ItemsEmpty DEF CallsInLine
<1>3. EngineCalls' = {} /\ ~MarkerWaits'
  BY <1>1 DEF EngineCalls, MarkerWaits
<1>. QED BY <1>1, <1>2, <1>3, BusyIs DEF Line, MarkersInStep, Busy

-----------------------------------------------------------------------------
(* The engine takes a bundle *)

LEMMA FirstIs ==
  ASSUME NEW S \in SUBSET Nat, S # {}
  PROVE  First(S) \in S /\ \A j \in S : First(S) <= j
BY LeastElement DEF First

\* The authentication goes first and alone: there is nothing that it must not overtake.
LEMMA AuthTaken ==
  ASSUME Typed, Line, TakeBundle, AuthBeforeMarkers # {}, Len(queue) > 1
  PROVE  /\ Line' /\ bundle' \in Seq(Call) /\ queue' \in Seq(Call)
         /\ Len(bundle') <= MaxBundleSize
         /\ Items(bundle') \subseteq Items(queue) /\ Items(queue') \subseteq Items(queue)
<1>. DEFINE a == First(AuthBeforeMarkers)
            auth == queue[a]
<1>1. queue \in Seq(Call) /\ InLine(queue) /\ Len(queue) \in Nat /\ DOMAIN queue = 1 .. Len(queue)
  BY DEF Typed, TypeOK, Line, CallsInLine
<1>2. a \in AuthBeforeMarkers
  <2>1. AuthBeforeMarkers \in SUBSET Nat
    BY <1>1 DEF AuthBeforeMarkers
  <2>. QED BY <2>1, FirstIs
<1>3. /\ a \in 1 .. Len(queue) /\ auth.op = "authenticate" /\ auth \in Call /\ auth \in Items(queue)
      /\ \A j \in Markers : a < j
  <2>1. /\ a \in DOMAIN queue /\ queue[a].op = "authenticate"
        /\ \A j \in Markers : a < j
    BY <1>2 DEF AuthBeforeMarkers
  <2>. HIDE DEF a
  <2>. QED BY <1>1, <2>1 DEF Items
<1>4. bundle' = <<auth>> /\ queue' = Without(queue, a)
  BY DEF TakeBundle, Without
<1>. HIDE DEF a, auth
<1>5. /\ queue' \in Seq(Call) /\ InLine(queue')
      /\ \A d \in Items(queue') : \E i \in DOMAIN queue : i # a /\ d = queue[i]
  BY <1>1, <1>3, <1>4, ItemsWithout
<1>6. ASSUME NEW i \in DOMAIN queue PROVE queue[i].op # "marker"
  <2>. SUFFICES ASSUME queue[i].op = "marker" PROVE FALSE
    OBVIOUS
  <2>1. a < i
    BY <1>3 DEF Markers
  <2>2. MayPrecede(auth, queue[i])
    BY <1>1, <1>3, <2>1 DEF InLine, auth
  <2>. QED BY <1>3, <2>2 DEF MayPrecede, IsRequest
<1>7. ASSUME NEW d \in Items(queue) PROVE ~EndsSession(d)
  <2>1. ~MarkerWaits
    BY <1>6 DEF MarkerWaits, Items
  <2>. QED BY <1>3, <2>1 DEF Line, MarkersInStep, EngineCalls, IsRequest
<1>8. ASSUME NEW d \in Items(queue') PROVE MayPrecede(auth, d) /\ d \in Items(queue)
  <2>1. PICK i \in DOMAIN queue : i # a /\ d = queue[i]
    BY <1>5
  <2>2. CASE a < i
    BY <1>1, <1>3, <2>1, <2>2 DEF InLine, auth, Items
  <2>3. CASE i < a
    <3>1. MayPrecede(d, auth)
      BY <1>1, <1>3, <2>1, <2>3 DEF InLine, auth
    <3>2. ~IsRequest(d) /\ d.op # "marker" /\ ~EndsSession(d) /\ d \in Call /\ d \in Items(queue)
      BY <1>1, <1>3, <1>6, <1>7, <2>1, <3>1 DEF MayPrecede, Items
    <3>. QED BY <1>3, <3>2 DEF MayPrecede, IsRequest, EndsSession, Call
  <2>. QED BY <1>1, <1>3, <2>1, <2>2, <2>3
<1>9. /\ bundle' \in Seq(Call) /\ Len(bundle') = 1 /\ Items(bundle') = {auth} /\ InLine(bundle')
  BY <1>3, <1>4 DEF Items, InLine
<1>10. CallsInLine'
  BY <1>5, <1>8, <1>9 DEF CallsInLine, AheadOf
<1>11. MarkersInStep'
  <2>1. ~MarkerWaits'
    BY <1>6, <1>8 DEF MarkerWaits, Items
  <2>2. \A d \in Items(queue') : ~EndsSession(d)
    BY <1>7, <1>8
  <2>. QED BY <1>3, <1>9, <2>1, <2>2 DEF MarkersInStep
<1>. QED BY <1>3, <1>5, <1>8, <1>9, <1>10, <1>11, WrapperAssumption DEF Line

\* The calls from the front of the queue, up to a marker.
LEMMA FrontTaken ==
  ASSUME Typed, Line, TakeBundle, ~(AuthBeforeMarkers # {} /\ Len(queue) > 1)
  PROVE  /\ Line' /\ bundle' \in Seq(Call) /\ queue' \in Seq(Call)
         /\ Len(bundle') <= MaxBundleSize
         /\ Items(bundle') \subseteq Items(queue) /\ Items(queue') \subseteq Items(queue)
<1>1. /\ queue \in Seq(Call) /\ InLine(queue) /\ Len(queue) \in Nat /\ Len(queue) >= 1
      /\ DOMAIN queue = 1 .. Len(queue)
  BY DEF Typed, TypeOK, Line, CallsInLine, TakeBundle
<1>2. bundle' = SubSeq(queue, Start, Stop - 1) /\ queue' = SubSeq(queue, Rest, Len(queue))
  BY DEF TakeBundle
<1>3. Start \in {1, 2} /\ (Start = 2 <=> queue[1].op = "marker")
  <2>. DEFINE free == (1 .. Len(queue) + 1) \ Markers
  <2>1. free \in SUBSET Nat /\ Len(queue) + 1 \in free
    BY <1>1 DEF Markers
  <2>2. Start = First(free)
    BY DEF Start
  <2>. HIDE DEF free
  <2>3. Start \in free /\ \A j \in free : Start <= j
    BY <2>1, <2>2, FirstIs
  <2>4. CASE queue[1].op # "marker"
    <3>1. 1 \in free /\ \A j \in free : j >= 1 /\ j \in Nat
      BY <1>1, <2>4 DEF Markers, free
    <3>2. Start = 1
      BY <2>3, <3>1
    <3>. QED BY <2>4, <3>2
  <2>5. CASE queue[1].op = "marker"
    <3>1. 1 \notin free /\ \A j \in free : j >= 1 /\ j \in Nat
      BY <1>1, <2>5 DEF Markers, free
    <3>2. 2 \in free
      <4>1. 2 \in DOMAIN queue => MayPrecede(queue[1], queue[2])
        BY <1>1 DEF InLine
      <4>2. 2 \in DOMAIN queue => queue[2].op # "marker"
        BY <2>5, <4>1 DEF MayPrecede
      <4>. QED BY <1>1, <4>2 DEF Markers, free
    <3>3. Start = 2
      BY <2>3, <3>1, <3>2
    <3>. QED BY <2>5, <3>3
  <2>. QED BY <2>4, <2>5
<1>. DEFINE ends == {i \in Markers : i > Start} \cup {Start + MaxBundleSize, Len(queue) + 1}
<1>4. Stop \in ends /\ \A j \in ends : Stop <= j
  <2>1. ends \in SUBSET Nat /\ ends # {}
    BY <1>1, <1>3, WrapperAssumption DEF Markers
  <2>. HIDE DEF ends
  <2>2. Stop = First(ends)
    BY DEF Stop, ends
  <2>. QED BY <2>1, <2>2, FirstIs
<1>5. /\ Stop \in Nat /\ Start <= Stop /\ Stop <= Len(queue) + 1 /\ Stop - Start <= MaxBundleSize
      /\ \A i \in DOMAIN queue : queue[i].op = "marker" /\ i > Start => Stop <= i
  BY <1>1, <1>3, <1>4, WrapperAssumption DEF Markers
<1>6. ASSUME NEW i \in DOMAIN queue, queue[i].op = "marker", i < Stop PROVE i = 1 /\ Start = 2
  <2>1. CASE i = Start
    <3>1. CASE Start = 1
      BY <1>3, <1>6, <2>1, <3>1
    <3>2. CASE Start = 2
      <4>1. MayPrecede(queue[1], queue[2])
        BY <1>1, <2>1, <3>2 DEF InLine
      <4>. QED BY <1>3, <1>6, <2>1, <3>2, <4>1 DEF MayPrecede
    <3>. QED BY <1>3, <3>1, <3>2
  <2>2. CASE i < Start
    BY <1>1, <1>3, <2>2
  <2>. QED BY <1>1, <1>3, <1>5, <1>6, <2>1, <2>2
<1>7. /\ Start \in 1 .. Len(queue) + 1 /\ Stop - 1 \in 0 .. Len(queue)
      /\ Rest \in 1 .. Len(queue) + 1 /\ Len(queue) \in 0 .. Len(queue)
      /\ Stop \in 1 .. Len(queue) + 1
      /\ Rest = Stop \/ (Rest = Stop + 1 /\ Stop \in DOMAIN queue /\ queue[Stop].op = "marker")
  BY <1>1, <1>3, <1>5 DEF Rest, Markers
<1>8. \A lo \in 1 .. Len(queue) + 1, hi \in 0 .. Len(queue) :
         /\ SubSeq(queue, lo, hi) \in Seq(Call)
         /\ Items(SubSeq(queue, lo, hi)) \subseteq Items(queue)
         /\ InLine(SubSeq(queue, lo, hi))
         /\ \A d : d \in Items(SubSeq(queue, lo, hi)) <=> \E i \in lo .. hi : d = queue[i]
         /\ Len(SubSeq(queue, lo, hi)) = IF lo <= hi THEN hi - lo + 1 ELSE 0
  BY <1>1, ItemsSubSeq
<1>9. /\ bundle' \in Seq(Call) /\ Items(bundle') \subseteq Items(queue) /\ InLine(bundle')
      /\ \A d : d \in Items(bundle') <=> \E i \in Start .. Stop - 1 : d = queue[i]
      /\ Len(bundle') = IF Start <= Stop - 1 THEN (Stop - 1) - Start + 1 ELSE 0
  BY <1>2, <1>7, <1>8
<1>10. /\ queue' \in Seq(Call) /\ Items(queue') \subseteq Items(queue) /\ InLine(queue')
      /\ \A d : d \in Items(queue') <=> \E i \in Rest .. Len(queue) : d = queue[i]
  <2>. DEFINE r == Rest
  <2>1. r \in 1 .. Len(queue) + 1 /\ Len(queue) \in 0 .. Len(queue)
    BY <1>7
  <2>2. queue' = SubSeq(queue, r, Len(queue))
    BY <1>2
  <2>. HIDE DEF r
  <2>3. /\ queue' \in Seq(Call) /\ Items(queue') \subseteq Items(queue) /\ InLine(queue')
        /\ \A d : d \in Items(queue') <=> \E i \in r .. Len(queue) : d = queue[i]
    BY <1>8, <2>1, <2>2
  <2>. QED BY <2>3 DEF r
<1>11. AheadOf(bundle', queue')
  <2>1. ASSUME NEW i \in Start .. Stop - 1, NEW j \in Rest .. Len(queue)
        PROVE  MayPrecede(queue[i], queue[j])
    <3>1. i \in DOMAIN queue /\ j \in DOMAIN queue /\ i < j
      BY <1>1, <1>7
    <3>. QED BY <1>1, <3>1 DEF InLine
  <2>. QED BY <1>9, <1>10, <2>1 DEF AheadOf
<1>12. MarkersInStep'
  <2>1. ASSUME NEW d \in Items(bundle') PROVE d.op # "marker"
    <3>1. PICK i \in Start .. Stop - 1 : d = queue[i]
      BY <1>9
    <3>. QED BY <1>1, <1>6, <1>7, <3>1
  <2>2. ASSUME MarkerWaits' PROVE \E d \in Items(queue') : d.op = "authenticate"
    <3>1. PICK m \in Rest .. Len(queue) : queue[m].op = "marker"
      BY <1>10, <2>2 DEF MarkerWaits
    <3>2. MarkerWaits
      BY <1>10, <2>2 DEF MarkerWaits
    <3>3. PICK j \in DOMAIN queue : queue[j].op = "authenticate"
      BY <3>2 DEF Line, MarkersInStep, Items
    <3>4. ~(j < m)
      <4>1. j < m => MayPrecede(queue[j], queue[m])
        BY <1>1, <1>7, <3>1 DEF InLine
      <4>. QED BY <3>1, <3>3, <4>1 DEF MayPrecede, IsRequest
    <3>5. j \in Rest .. Len(queue)
      BY <1>1, <1>7, <3>1, <3>4
    <3>. QED BY <1>10, <3>3, <3>5
  <2>3. ASSUME NEW d \in Items(queue'), NEW e \in EngineCalls', EndsSession(d), IsRequest(e)
        PROVE  MarkerWaits'
    <3>1. d \in Items(queue) /\ e \in Items(queue)
      BY <1>9, <1>10, <2>3 DEF EngineCalls
    <3>0. PICK i \in Rest .. Len(queue) : d = queue[i]
      BY <1>10, <2>3
    <3>2. MarkerWaits
      BY <2>3, <3>1 DEF Line, MarkersInStep, EngineCalls
    <3>3. PICK m \in DOMAIN queue : queue[m].op = "marker"
      BY <3>2 DEF MarkerWaits, Items
    <3>4. CASE m < Rest
      <4>1. m \in DOMAIN queue /\ i \in DOMAIN queue /\ m < i
        BY <1>1, <1>7, <3>0, <3>4
      <4>2. MayPrecede(queue[m], d)
        BY <1>1, <3>0, <4>1 DEF InLine
      <4>. QED BY <2>3, <3>3, <4>2 DEF MayPrecede
    <3>5. CASE ~(m < Rest)
      <4>1. m \in Rest .. Len(queue)
        BY <1>1, <1>7, <3>3, <3>5
      <4>. QED BY <1>10, <3>3, <4>1 DEF MarkerWaits
    <3>. QED BY <3>4, <3>5
  <2>. QED BY <2>1, <2>2, <2>3 DEF MarkersInStep
<1>13. Len(bundle') <= MaxBundleSize
  BY <1>3, <1>5, <1>9, WrapperAssumption
<1>. QED BY <1>9, <1>10, <1>11, <1>12, <1>13 DEF Line, CallsInLine

LEMMA BundleTaken ==
  ASSUME Typed, Line, TakeBundle
  PROVE  /\ Line' /\ bundle' \in Seq(Call) /\ queue' \in Seq(Call)
         /\ Len(bundle') <= MaxBundleSize
         /\ EngineCalls' \subseteq EngineCalls /\ Items(queue') \subseteq Items(queue)
BY AuthTaken, FrontTaken DEF EngineCalls

-----------------------------------------------------------------------------
(* The calls of the app *)

LEMMA AnswersFrame ==
  ASSUME AnswersInStep, UNCHANGED <<bundle, answers, arrived, session, devices, identities>>
  PROVE  AnswersInStep'
BY DEF AnswersInStep, Entered, IsAnonymous

LEMMA StepAuthenticate ==
  ASSUME IInv, "authenticate" \notin Overlaps,
         NEW credential \in Credentials \cup {NoCredential}, Authenticate(credential)
  PROVE  IInv'
<1>0. Typed /\ Line /\ Fits /\ AnswersInStep /\ SwitchesInStep /\ Agreed
  BY DEF IInv
<1>1. /\ ~Busy /\ requests < MaxRequests
      /\ requests' = requests + 1 /\ callback' = requests' /\ current' = None
      /\ UNCHANGED <<authenticated, bundle, answers, arrived, server, told, appCalls, forgotten>>
  BY DEF Authenticate, MayRequest
<1>2. /\ stored' \in Ids /\ service' \in Ids
      /\ generated' \in 0 .. MaxAnonymous /\ generated <= generated'
      /\ stored'.anonymous <= generated' /\ service'.anonymous = stored'.anonymous
      /\ (stored' = stored /\ cut' = cut) \/ (stored'.profile = None /\ cut' = {})
      /\ stored'.anonymous # None
  <2>1. /\ \/ stored' = stored /\ generated' = generated /\ cut' = cut /\ ~NeedsNewIds
           \/ /\ generated < MaxAnonymous /\ generated' = generated + 1
              /\ stored' = [anonymous |-> generated', profile |-> None] /\ cut' = {}
        /\ service' = stored' \/ service' = [stored' EXCEPT !.profile = None]
    BY <1>1 DEF Authenticate, InitializeIdentity
  <2>2. stored \in Ids /\ generated \in 0 .. MaxAnonymous /\ stored.anonymous <= generated
    BY <1>0 DEF Typed, TypeOK, IdsGenerated, CutExplains
  <2>3. /\ stored' \in Ids /\ generated' \in 0 .. MaxAnonymous /\ generated <= generated'
        /\ stored'.anonymous <= generated' /\ stored'.anonymous # None
        /\ (stored' = stored /\ cut' = cut) \/ (stored'.profile = None /\ cut' = {})
    BY <2>1, <2>2, WrapperAssumption DEF Ids, None, NeedsNewIds
  <2>4. service' \in Ids /\ service'.anonymous = stored'.anonymous
    BY <2>1, <2>3, WrapperAssumption DEF Ids, None
  <2>. QED BY <2>3, <2>4
<1>3. PICK c \in Call :
        c.op = "authenticate" /\ c.to = Itself /\ c.ids = service' /\ queue' = Append(queue, c)
  <2>1. Itself \in 0 .. Itself
    BY WrapperAssumption DEF Itself
  <2>2. queue' = Append(queue, Request("authenticate", Itself, credential, service'))
    BY DEF Authenticate
  <2>. DEFINE x == Request("authenticate", Itself, credential, service')
  <2>3. x \in Call /\ x.op = "authenticate" /\ x.to = Itself /\ x.ids = service'
    BY <1>2, <2>1, RequestIs
  <2>. HIDE DEF x
  <2>. QED BY <2>2, <2>3 DEF x
<1>4. Line' /\ queue' \in Seq(Call) /\ EngineCalls' = EngineCalls \cup {c}
  BY <1>0, <1>1, <1>3, LineAppended
<1>5. Typed'
  <2>1. TypeOK /\ IdsGenerated /\ CutExplains
    BY <1>0 DEF Typed
  <2>2. /\ requests' \in 0 .. MaxRequests /\ callback' \in 0 .. requests'
        /\ forgotten' \in 0 .. requests'
        /\ told' \in Seq(1 .. requests')
        /\ devices' \subseteq (1 .. generated') \X profiles'
        /\ current' \in 0 .. created'
    <3>1. 1 .. requests \subseteq 1 .. requests'
      BY <1>1, <2>1 DEF TypeOK
    <3>2. told' \in Seq(1 .. requests')
      BY <1>1, <2>1, <3>1 DEF TypeOK
    <3>3. 1 .. generated \subseteq 1 .. generated'
      BY <1>2, <2>1 DEF TypeOK
    <3>4. devices' \subseteq (1 .. generated') \X profiles'
      BY <1>1, <2>1, <3>3 DEF TypeOK, server
    <3>. QED BY <1>1, <2>1, <3>2, <3>4, WrapperAssumption DEF TypeOK, None, server
  <2>. QED BY <1>1, <1>2, <1>4, <2>1, <2>2 DEF Typed, TypeOK, IdsGenerated, CutExplains, server
<1>6. Fits'
  <2>1. \A i \in DOMAIN told : told[i] # requests'
    BY <1>0, <1>1 DEF Typed, TypeOK
  <2>2. CallFits(c)'
    BY <1>1, <1>2, <1>3, <2>1 DEF CallFits, Owner, IsRequest
  <2>3. ASSUME NEW d \in EngineCalls PROVE CallFits(d)'
    <3>1. d.op \notin {"authenticate", "identities", "delete"}
      BY <1>1, BusyIs DEF UnderWay
    <3>2. d.ids.anonymous \in Nat /\ d.ids.anonymous <= generated
      BY <1>0, CallsTyped, WrapperAssumption DEF Fits, CallFits, Call, Ids
    <3>3. generated \in Nat /\ generated' \in Nat /\ generated <= generated'
      BY <1>0, <1>2 DEF Typed, TypeOK
    <3>. QED BY <3>1, <3>2, <3>3 DEF CallFits, IsRequest
  <2>4. ToldOnce'
    BY <1>0, <1>1 DEF Fits, ToldOnce
  <2>. QED BY <1>4, <2>2, <2>3, <2>4 DEF Fits
<1>7. AnswersInStep'
  BY <1>0, <1>1, AnswersFrame DEF server
<1>8. SwitchesInStep'
  <2>1. Items(queue') = Items(queue) \cup {c}
    BY <1>0, <1>1, <1>3, ItemsAppend DEF Typed, TypeOK
  <2>2. ToBeDeleted' => ToBeDeleted
    BY <1>1, <1>3, <2>1 DEF ToBeDeleted
  <2>. QED BY <1>0, <1>1, <2>2 DEF SwitchesInStep, IsAnonymous, server
<1>9. Agreed'
  BY <1>0, <1>1, <1>2 DEF Agreed, StoredIdsMatch, NeedsNewIds, SessionIsTheOneTold, server
<1>. QED BY <1>4, <1>5, <1>6, <1>7, <1>8, <1>9 DEF IInv

LEMMA ClearIdsGives ==
  ASSUME Typed, ClearIds
  PROVE  /\ stored' = NoIds /\ stored' \in Ids /\ service' \in Ids /\ cut' = {}
         /\ service'.anonymous = service.anonymous /\ service'.profile = None
<1>1. /\ stored' = NoIds /\ service' = [service EXCEPT !.profile = None] /\ cut' = {}
      /\ service \in Ids
  BY DEF Typed, TypeOK, ClearIds
<1>2. None \in 0 .. MaxAnonymous /\ None \in 0 .. MaxProfiles
  BY WrapperAssumption DEF None
<1>. QED BY <1>1, <1>2 DEF NoIds, Ids

LEMMA StepSmartSwitch ==
  ASSUME IInv, "authenticate" \notin Overlaps, NEW credential \in Credentials, SmartSwitch(credential)
  PROVE  IInv'
<1>0. Typed /\ Line /\ Fits /\ AnswersInStep /\ SwitchesInStep /\ Agreed
  BY DEF IInv
<1>1. /\ ~Busy /\ requests < MaxRequests
      /\ requests' = requests + 1 /\ current' = None
      /\ UNCHANGED <<callback, authenticated, bundle, answers, arrived, server, told, appCalls,
                     forgotten, generated>>
  BY DEF SmartSwitch, MayRequest
<1>2. /\ requests' \in 0 .. Itself /\ requests' # Itself /\ requests' # Nobody
      /\ requests' \in 0 .. MaxRequests
  BY <1>0, <1>1, WrapperAssumption DEF Typed, TypeOK, Itself, Nobody
<1>3. PICK c \in Call :
        /\ c.to = requests' /\ queue' = Append(queue, c) /\ c.ids.anonymous <= generated
        /\ \/ c.op = "identities" /\ UNCHANGED <<stored, service, cut>>
           \/ c.op = "authenticate" /\ ClearIds
  <2>1. CASE authenticated
    <3>1. NoIds \in Ids /\ NoIds.anonymous <= generated
      BY <1>0, WrapperAssumption DEF NoIds, Ids, None, Typed, TypeOK
    <3>. DEFINE x == Request("identities", requests', credential, NoIds)
    <3>2. x \in Call /\ x.op = "identities" /\ x.to = requests' /\ x.ids = NoIds
      BY <1>2, <3>1, RequestIs
    <3>3. queue' = Append(queue, x) /\ UNCHANGED <<stored, service, cut>>
      BY <2>1 DEF SmartSwitch
    <3>. HIDE DEF x
    <3>. QED BY <3>1, <3>2, <3>3
  <2>2. CASE ~authenticated
    <3>. DEFINE x == Request("authenticate", requests', credential, service')
    <3>1. ClearIds /\ queue' = queue \o <<x>>
      BY <2>2 DEF SmartSwitch, SwitchTo
    <3>2. service' \in Ids /\ service'.anonymous <= generated
      BY <1>0, <3>1, ClearIdsGives DEF Typed, IdsGenerated
    <3>3. x \in Call /\ x.op = "authenticate" /\ x.to = requests' /\ x.ids = service'
      BY <1>2, <3>2, RequestIs
    <3>. HIDE DEF x
    <3>4. queue' = Append(queue, x)
      BY <1>0, <3>1, <3>3, AppendIsConcat DEF Typed, TypeOK
    <3>. QED BY <3>1, <3>2, <3>3, <3>4
  <2>. QED BY <2>1, <2>2
<1>4. Line' /\ queue' \in Seq(Call) /\ EngineCalls' = EngineCalls \cup {c}
  BY <1>0, <1>1, <1>3, LineAppended
<1>5. /\ stored' \in Ids /\ service' \in Ids
      /\ stored'.anonymous <= generated /\ service'.anonymous <= generated
      /\ (stored' = stored /\ cut' = cut) \/ (stored' = NoIds /\ cut' = {})
  <2>1. CASE UNCHANGED <<stored, service, cut>>
    BY <1>0, <2>1 DEF Typed, TypeOK, IdsGenerated, CutExplains
  <2>2. CASE ClearIds
    <3>1. None <= generated
      BY <1>0 DEF Typed, TypeOK, None
    <3>. QED BY <1>0, <2>2, <3>1, ClearIdsGives DEF Typed, IdsGenerated, NoIds
  <2>. QED BY <1>3, <2>1, <2>2
<1>6. Typed'
  <2>1. TypeOK
    BY <1>0 DEF Typed
  <2>2. 0 .. requests \subseteq 0 .. requests' /\ 1 .. requests \subseteq 1 .. requests'
    BY <1>1, <2>1 DEF TypeOK
  <2>3. /\ told' \in Seq(1 .. requests') /\ callback' \in 0 .. requests'
        /\ current' \in 0 .. created'
        /\ forgotten' \in 0 .. requests'
    BY <1>1, <2>1, <2>2 DEF TypeOK, None, server
  <2>4. CutExplains' /\ cut' \subseteq {"initializeIdentity", "clearIds"}
    <3>1. CutExplains /\ cut \subseteq {"initializeIdentity", "clearIds"}
      BY <1>0 DEF Typed, TypeOK
    <3>2. CASE stored' = stored /\ cut' = cut
      BY <3>1, <3>2 DEF CutExplains
    <3>3. CASE stored' = NoIds /\ cut' = {}
      BY <3>3 DEF CutExplains, NoIds
    <3>. QED BY <1>5, <3>2, <3>3
  <2>. QED BY <1>1, <1>2, <1>4, <1>5, <2>1, <2>3, <2>4 DEF Typed, TypeOK, IdsGenerated, CutExplains, server
<1>7. Fits'
  <2>1. \A i \in DOMAIN told : told[i] # requests'
    BY <1>0, <1>1 DEF Typed, TypeOK
  <2>2. CallFits(c)'
    <3>1. c.op = "authenticate" => stored' = NoIds
      BY <1>0, <1>3, ClearIdsGives
    <3>. QED BY <1>1, <1>2, <1>3, <2>1, <3>1 DEF CallFits, Owner, IsRequest
  <2>3. ASSUME NEW d \in EngineCalls PROVE CallFits(d)'
    <3>1. d.op \notin {"authenticate", "identities", "delete"}
      BY <1>1, BusyIs DEF UnderWay
    <3>. QED BY <1>0, <1>1, <3>1 DEF Fits, CallFits, IsRequest
  <2>4. ToldOnce'
    BY <1>0, <1>1 DEF Fits, ToldOnce
  <2>. QED BY <1>4, <2>2, <2>3, <2>4 DEF Fits
<1>8. AnswersInStep'
  BY <1>0, <1>1, AnswersFrame DEF server
<1>9. SwitchesInStep'
  <2>1. Items(queue') = Items(queue) \cup {c}
    BY <1>0, <1>3, ItemsAppend DEF Typed, TypeOK
  <2>2. ToBeDeleted' => ToBeDeleted
    BY <1>1, <1>3, <2>1 DEF ToBeDeleted
  <2>. QED BY <1>0, <1>1, <2>2 DEF SwitchesInStep, IsAnonymous, server
<1>10. Agreed'
  BY <1>0, <1>1, <1>5
     DEF Agreed, StoredIdsMatch, NeedsNewIds, NoIds, SessionIsTheOneTold, server
<1>. QED BY <1>4, <1>6, <1>7, <1>8, <1>9, <1>10 DEF IInv

\* Attach and logout: one call more, and nobody is told of a session that may end.
LEMMA StepOtherCall ==
  ASSUME IInv, NEW c \in Call, c.op \in {"attach", "logout"}, c.ids.anonymous = None,
         Busy => c.op \in Overlaps,
         appCalls' \in 0 .. MaxAppCalls,
         current' = None \/ (c.op = "attach" /\ current' = current),
         queue' = Append(queue, c),
         UNCHANGED <<device, authenticated, bundle, answers, arrived, server, requests, told,
                     forgotten, generated>>
  PROVE  IInv'
<1>0. Typed /\ Line /\ Fits /\ AnswersInStep /\ SwitchesInStep /\ Agreed
  BY DEF IInv
<1>1. Line' /\ queue' \in Seq(Call) /\ EngineCalls' = EngineCalls \cup {c}
  BY <1>0, LineAppended
<1>2. Typed'
  BY <1>0, <1>1 DEF Typed, TypeOK, IdsGenerated, CutExplains, device, server, None
<1>3. Fits'
  <2>1. CallFits(c)'
    BY <1>0 DEF CallFits, IsRequest, Typed, TypeOK, None
  <2>2. \A d \in EngineCalls : CallFits(d)' <=> CallFits(d)
    BY DEF CallFits, Owner, device
  <2>3. ToldOnce'
    BY <1>0 DEF Fits, ToldOnce
  <2>. QED BY <1>0, <1>1, <2>1, <2>2, <2>3 DEF Fits
<1>4. AnswersInStep'
  BY <1>0, AnswersFrame DEF server
<1>5. SwitchesInStep'
  <2>1. Items(queue') = Items(queue) \cup {c}
    BY <1>0, ItemsAppend DEF Typed, TypeOK
  <2>2. ToBeDeleted' => ToBeDeleted
    BY <2>1 DEF ToBeDeleted
  <2>3. current' # None /\ ~Busy => ~Busy'
    <3>1. Busy' <=> \E d \in EngineCalls' : UnderWay(d)
      BY BusyIs DEF Busy, EngineCalls, Items
    <3>. QED BY <1>1, <3>1, BusyIs DEF UnderWay
  <2>. QED BY <1>0, <2>2, <2>3 DEF SwitchesInStep, IsAnonymous, server
<1>6. Agreed'
  BY <1>0 DEF Agreed, StoredIdsMatch, NeedsNewIds, SessionIsTheOneTold, device, server
<1>. QED BY <1>1, <1>2, <1>3, <1>4, <1>5, <1>6 DEF IInv

LEMMA StepAttach ==
  ASSUME IInv, NEW credential \in Credentials, Attach(credential)
  PROVE  IInv'
<1>1. TypeOK
  BY DEF IInv, Typed
<1>. DEFINE c == Request("attach", Nobody, credential, NoIds)
<1>2. c \in Call /\ c.op = "attach" /\ c.ids = NoIds
  BY RequestIs, WrapperAssumption DEF NoIds, Ids, None, Nobody, Itself
<1>3. appCalls' \in 0 .. MaxAppCalls
  BY <1>1, WrapperAssumption DEF Attach, MayCall, TypeOK
<1>4. queue' = Append(queue, c)
  BY DEF Attach
<1>. HIDE DEF c
<1>. QED BY <1>2, <1>3, <1>4, StepOtherCall DEF Attach, NoIds

LEMMA StepLogout ==
  ASSUME IInv, Logout
  PROVE  IInv'
<1>1. TypeOK
  BY DEF IInv, Typed
<1>2. Plain("logout") \in Call /\ Plain("logout").op = "logout" /\ Plain("logout").ids.anonymous = None
  BY PlainIs
<1>3. appCalls' \in 0 .. MaxAppCalls
  BY <1>1, WrapperAssumption DEF Logout, MayCall, TypeOK
<1>. QED BY <1>2, <1>3, StepOtherCall DEF Logout

\* The calls are dropped, and the app is told of nobody.
LEMMA StepForget ==
  ASSUME IInv, ForgetCalls, appCalls' \in 0 .. MaxAppCalls,
         service' \in {service, NoIds}, callback' \in {callback, Nobody},
         stored' \in Ids, generated' \in 0 .. MaxAnonymous, generated <= generated',
         stored'.anonymous <= generated', cut' \subseteq {"initializeIdentity", "clearIds"},
         CutExplains', StoredIdsMatch',
         UNCHANGED <<server, requests, told>>
  PROVE  IInv'
<1>0. Typed /\ Line /\ Fits /\ AnswersInStep /\ SwitchesInStep /\ Agreed
  BY DEF IInv
<1>1. /\ bundle' = <<>> /\ queue' = <<>> /\ answers' = <<>>
      /\ authenticated' = FALSE /\ arrived' = FALSE /\ current' = None /\ forgotten' = requests
  BY DEF ForgetCalls
<1>2. Line' /\ EngineCalls' = {} /\ ~Busy'
  BY <1>1, LineEmpty
<1>3. Typed'
  <2>1. TypeOK /\ IdsGenerated
    BY <1>0 DEF Typed
  <2>2. service' \in Ids /\ service'.anonymous <= generated'
    <3>1. NoIds \in Ids /\ NoIds.anonymous = 0
      BY WrapperAssumption DEF NoIds, Ids, None
    <3>2. service \in Ids /\ service.anonymous \in Nat /\ service.anonymous <= generated
      BY <2>1 DEF TypeOK, IdsGenerated, Ids
    <3>3. generated \in Nat /\ generated' \in Nat
      BY <2>1 DEF TypeOK
    <3>4. service.anonymous <= generated' /\ NoIds.anonymous <= generated'
      BY <3>1, <3>2, <3>3
    <3>. QED BY <3>1, <3>2, <3>4
  <2>3. callback' \in 0 .. requests' /\ current' \in 0 .. created' /\ forgotten' \in 0 .. requests'
    BY <1>1, <2>1 DEF TypeOK, Nobody, None, server
  <2>4. /\ queue' \in Seq(Call) /\ bundle' \in Seq(Call) /\ Len(bundle') <= MaxBundleSize
        /\ answers' \in Seq([result : Results, profile : 0 .. created']) /\ Len(answers') <= Len(bundle')
        /\ authenticated' \in BOOLEAN /\ arrived' \in BOOLEAN
    <3>1. queue' \in Seq(Call) /\ bundle' \in Seq(Call) /\ Len(bundle') = 0 /\ Len(answers') = 0
      BY <1>1
    <3>2. answers' \in Seq([result : Results, profile : 0 .. created'])
      BY <1>1
    <3>3. Len(bundle') <= MaxBundleSize /\ Len(answers') <= Len(bundle')
      BY <3>1, WrapperAssumption
    <3>. QED BY <1>1, <3>1, <3>2, <3>3
  <2>5. devices' \subseteq (1 .. generated') \X profiles'
    <3>1. 1 .. generated \subseteq 1 .. generated'
      BY <2>1 DEF TypeOK
    <3>. QED BY <2>1, <3>1 DEF TypeOK, server
  <2>6. IdsGenerated'
    BY <2>2 DEF IdsGenerated
  <2>7. TypeOK'
    BY <2>1, <2>2, <2>3, <2>4, <2>5 DEF TypeOK, server
  <2>. QED BY <2>6, <2>7 DEF Typed
<1>4. Fits'
  BY <1>0, <1>2 DEF Fits, ToldOnce
<1>5. AnswersInStep'
  BY <1>1 DEF AnswersInStep
<1>6. SwitchesInStep'
  BY <1>1, ItemsEmpty DEF SwitchesInStep, ToBeDeleted
<1>7. Agreed'
  BY <1>1 DEF Agreed, SessionIsTheOneTold
<1>. QED BY <1>2, <1>3, <1>4, <1>5, <1>6, <1>7 DEF IInv

\* The app ends between two writes to the device.
LEMMA StepHalfway ==
  ASSUME IInv, EndHalfway
  PROVE  IInv'
<1>1. TypeOK /\ IdsGenerated /\ CutExplains /\ StoredIdsMatch
  BY DEF IInv, Typed, Agreed
<1>2. /\ ForgetCalls /\ service' = NoIds /\ callback' = Nobody
      /\ UNCHANGED <<server, requests, told>>
  BY DEF EndHalfway, StartAgain
<1>3. appCalls' \in 0 .. MaxAppCalls
  BY <1>1, WrapperAssumption DEF EndHalfway, StartAgain, MayCall, TypeOK
<1>4. /\ stored \in Ids /\ generated \in Nat /\ generated <= MaxAnonymous
      /\ stored.anonymous \in Nat /\ stored.anonymous <= generated
      /\ MaxAnonymous \in Nat /\ cut \subseteq {"initializeIdentity", "clearIds"}
  BY <1>1, WrapperAssumption DEF TypeOK, IdsGenerated, Ids
<1>5. CASE HalfInitialize
  <2>1. /\ NeedsNewIds /\ generated < MaxAnonymous /\ generated' = generated + 1
        /\ stored' = [stored EXCEPT !.anonymous = generated']
        /\ cut' = cut \cup {"initializeIdentity"}
    BY <1>5 DEF HalfInitialize
  <2>2. /\ stored' \in Ids /\ stored'.anonymous = generated' /\ stored'.profile = stored.profile
        /\ generated' \in 0 .. MaxAnonymous /\ generated' # None /\ generated <= generated'
    BY <1>4, <2>1 DEF Ids, None
  <2>3. CutExplains'
    BY <2>2 DEF CutExplains
  <2>4. StoredIdsMatch'
    <3>1. CASE stored.profile = None
      BY <2>2, <3>1 DEF StoredIdsMatch, NeedsNewIds
    <3>2. CASE stored.profile # None
      <4>1. "clearIds" \in cut
        BY <1>1, <2>1, <3>2 DEF NeedsNewIds, CutExplains
      <4>2. cut' = {"clearIds", "initializeIdentity"}
        BY <1>4, <2>1, <4>1
      <4>. QED BY <4>2 DEF StoredIdsMatch
    <3>. QED BY <3>1, <3>2
  <2>5. cut' \subseteq {"initializeIdentity", "clearIds"} /\ stored'.anonymous <= generated'
    BY <1>4, <2>1, <2>2
  <2>. QED BY <1>2, <1>3, <2>2, <2>3, <2>4, <2>5, StepForget
<1>6. CASE HalfClear
  <2>1. /\ stored' = [stored EXCEPT !.anonymous = None] /\ cut' = {"clearIds"}
        /\ generated' = generated
    BY <1>6 DEF HalfClear
  <2>2. /\ stored' \in Ids /\ stored'.anonymous = None /\ stored'.anonymous <= generated'
        /\ generated' \in 0 .. MaxAnonymous /\ generated <= generated'
    BY <1>4, <2>1 DEF Ids, None
  <2>3. CutExplains' /\ StoredIdsMatch'
    BY <2>1, <2>2 DEF CutExplains, StoredIdsMatch, NeedsNewIds
  <2>4. cut' \subseteq {"initializeIdentity", "clearIds"}
    BY <2>1
  <2>. QED BY <1>2, <1>3, <2>2, <2>3, <2>4, StepForget
<1>. QED BY <1>5, <1>6 DEF EndHalfway

LEMMA StepApp ==
  ASSUME IInv, "authenticate" \notin Overlaps, AppRuns
  PROVE  IInv'
<1>1. CASE \E c \in Credentials \cup {NoCredential} : Authenticate(c)
  BY <1>1, StepAuthenticate
<1>2. CASE \E c \in Credentials : SmartSwitch(c) \/ Attach(c)
  BY <1>2, StepSmartSwitch, StepAttach
<1>3. CASE Logout
  BY <1>3, StepLogout
<1>4. CASE Reset \/ Restart
  <2>1. TypeOK /\ IdsGenerated /\ CutExplains /\ StoredIdsMatch
    BY DEF IInv, Typed, Agreed
  <2>2. /\ ForgetCalls /\ (MayCall("reset") \/ MayCall("restart"))
        /\ service' \in {service, NoIds} /\ callback' \in {callback, Nobody}
        /\ UNCHANGED <<stored, cut, server, requests, told, generated>>
    BY <1>4 DEF Reset, Restart, StartAgain, device
  <2>3. appCalls' \in 0 .. MaxAppCalls
    BY <2>1, <2>2, WrapperAssumption DEF MayCall, TypeOK
  <2>4. CutExplains' /\ StoredIdsMatch'
    BY <2>1, <2>2 DEF CutExplains, StoredIdsMatch, NeedsNewIds, server
  <2>5. /\ stored' \in Ids /\ generated' \in 0 .. MaxAnonymous /\ generated <= generated'
        /\ stored'.anonymous <= generated' /\ cut' \subseteq {"initializeIdentity", "clearIds"}
    BY <2>1, <2>2 DEF TypeOK, IdsGenerated
  <2>. QED BY <2>2, <2>3, <2>4, <2>5, StepForget
<1>5. CASE EndHalfway
  BY <1>5, StepHalfway
<1>. QED BY <1>1, <1>2, <1>3, <1>4, <1>5 DEF AppRuns

-----------------------------------------------------------------------------
(* The engine, the server and the network *)

LEMMA StepTakeBundle ==
  ASSUME IInv, TakeBundle
  PROVE  IInv'
<1>0. Typed /\ Line /\ Fits /\ AnswersInStep /\ SwitchesInStep /\ Agreed
  BY DEF IInv
<1>. DEFINE refused == ~authenticated /\ \A i \in DOMAIN bundle' : bundle'[i].op # "authenticate"
<1>1. /\ bundle = <<>> /\ arrived' = refused
      /\ answers' = IF refused THEN [i \in DOMAIN bundle' |-> Answer("noSession", None)] ELSE <<>>
      /\ UNCHANGED <<device, authenticated, server, app, generated>>
  BY DEF TakeBundle
<1>2. /\ Line' /\ bundle' \in Seq(Call) /\ queue' \in Seq(Call)
      /\ Len(bundle') <= MaxBundleSize
      /\ EngineCalls' \subseteq EngineCalls /\ Items(queue') \subseteq Items(queue)
  BY <1>0, BundleTaken
<1>3. /\ answers' \in Seq([result : Results, profile : 0 .. created'])
      /\ \A i \in DOMAIN answers' : answers'[i].result = "noSession"
      /\ Len(answers') <= Len(bundle') /\ (refused => Len(answers') = Len(bundle'))
      /\ arrived' \in BOOLEAN
  <2>0. arrived' \in BOOLEAN
    BY <1>1
  <2>1. CASE refused
    <3>1. Answer("noSession", None) \in [result : Results, profile : 0 .. created']
      BY <1>0, <1>1 DEF Answer, Results, None, Typed, TypeOK, server
    <3>2. answers' = [i \in 1 .. Len(bundle') |-> Answer("noSession", None)] /\ Len(bundle') \in Nat
      BY <1>1, <1>2, <2>1
    <3>3. answers' \in Seq([result : Results, profile : 0 .. created']) /\ Len(answers') = Len(bundle')
      BY <3>1, <3>2
    <3>4. \A i \in DOMAIN answers' : answers'[i].result = "noSession"
      BY <3>2 DEF Answer
    <3>. HIDE DEF refused
    <3>. QED BY <2>0, <3>2, <3>3, <3>4
  <2>2. CASE ~refused
    <3>. HIDE DEF refused
    <3>1. answers' = <<>> /\ Len(bundle') \in Nat
      BY <1>1, <1>2, <2>2
    <3>2. answers' \in Seq([result : Results, profile : 0 .. created']) /\ Len(answers') = 0
      BY <3>1
    <3>. QED BY <2>0, <2>2, <3>1, <3>2
  <2>. QED BY <2>1, <2>2
<1>4. Typed'
  BY <1>0, <1>1, <1>2, <1>3 DEF Typed, TypeOK, IdsGenerated, CutExplains, device, server, app
<1>5. Fits'
  <2>1. \A d \in EngineCalls : CallFits(d)' <=> CallFits(d)
    BY <1>1 DEF CallFits, Owner, device, app
  <2>2. ToldOnce'
    BY <1>0, <1>1 DEF Fits, ToldOnce, app
  <2>. QED BY <1>0, <1>2, <2>1, <2>2 DEF Fits
<1>6. AnswersInStep'
  BY <1>1, <1>3 DEF AnswersInStep
<1>7. SwitchesInStep'
  <2>1. ToBeDeleted' => ToBeDeleted
    <3>1. CASE \E c \in Items(queue') : c.op = "delete"
      BY <1>2, <3>1 DEF ToBeDeleted
    <3>2. ASSUME NEW i \in DOMAIN bundle', bundle'[i].op = "delete" PROVE ToBeDeleted
      <4>1. bundle'[i] \in EngineCalls
        BY <1>2 DEF EngineCalls, Items
      <4>. QED BY <1>1, <3>2, <4>1 DEF EngineCalls, Items, ToBeDeleted
    <3>. QED BY <3>1, <3>2 DEF ToBeDeleted
  <2>2. ~Busy => ~Busy'
    <3>1. Busy' <=> \E d \in EngineCalls' : UnderWay(d)
      BY BusyIs DEF Busy, EngineCalls, Items
    <3>. QED BY <1>2, <3>1, BusyIs
  <2>3. current # None /\ "logout" \notin Overlaps => ~refused
    BY <1>0 DEF Agreed, SessionIsTheOneTold
  <2>4. IsAnonymous' <=> IsAnonymous
    BY <1>1 DEF IsAnonymous, server
  <2>5. ~refused => answers' = <<>>
    BY <1>1
  <2>6. current' = current
    BY <1>1 DEF app
  <2>. HIDE DEF refused
  <2>. QED BY <1>0, <2>1, <2>2, <2>3, <2>4, <2>5, <2>6 DEF SwitchesInStep
<1>8. Agreed'
  BY <1>0, <1>1 DEF Agreed, StoredIdsMatch, NeedsNewIds, SessionIsTheOneTold, device, server, app
<1>. QED BY <1>2, <1>4, <1>5, <1>6, <1>7, <1>8 DEF IInv

\* What every answer of the server leaves alone, and how the call that is answered
\* stands to the others.
LEMMA ServeKeeps ==
  ASSUME IInv, Serve
  PROVE  /\ Line' /\ Fits' /\ (Busy' <=> Busy)
         /\ ~arrived /\ UNCHANGED <<device, authenticated, queue, bundle, arrived, app, generated>>
         /\ Len(answers) \in Nat /\ Len(answers) + 1 \in DOMAIN bundle
         /\ Next1 \in Call /\ Next1 \in EngineCalls
         /\ \A i \in DOMAIN answers : i \in DOMAIN bundle /\ MayPrecede(bundle[i], Next1)
<1>0. Typed /\ Line /\ Fits
  BY DEF IInv
<1>1. /\ ~arrived /\ Len(answers) < Len(bundle)
      /\ UNCHANGED <<device, authenticated, queue, bundle, arrived, app, generated>>
  BY DEF Serve
<1>2. /\ bundle \in Seq(Call) /\ Len(bundle) \in Nat /\ DOMAIN bundle = 1 .. Len(bundle)
      /\ Len(answers) \in Nat /\ DOMAIN answers = 1 .. Len(answers)
  BY <1>0 DEF Typed, TypeOK
<1>3. /\ Len(answers) + 1 \in DOMAIN bundle
      /\ \A i \in DOMAIN answers : i \in DOMAIN bundle /\ i < Len(answers) + 1
  BY <1>1, <1>2
<1>4. \A i \in DOMAIN answers : MayPrecede(bundle[i], Next1)
  BY <1>0, <1>3 DEF Next1, Line, CallsInLine, InLine
<1>5. Next1 \in Call /\ Next1 \in EngineCalls
  BY <1>2, <1>3 DEF Next1, EngineCalls, Items
<1>6. EngineCalls' = EngineCalls /\ (Busy' <=> Busy)
  BY <1>1 DEF EngineCalls, Busy
<1>7. Line'
  BY <1>0, <1>1, <1>6 DEF Line, CallsInLine, MarkersInStep, MarkerWaits
<1>8. Fits'
  <2>1. \A d \in EngineCalls : CallFits(d)' <=> CallFits(d)
    BY <1>1 DEF CallFits, Owner, device, app
  <2>2. ToldOnce'
    BY <1>0, <1>1 DEF Fits, ToldOnce, app
  <2>. QED BY <1>0, <1>6, <2>1, <2>2 DEF Fits
<1>. QED BY <1>1, <1>2, <1>3, <1>4, <1>5, <1>6, <1>7, <1>8

LEMMA AnswerAdded ==
  ASSUME TypeOK, NEW result \in Results, NEW profile \in 0 .. created',
         created' \in Nat, created <= created', Answers(result, profile)
  PROVE  /\ answers' \in Seq([result : Results, profile : 0 .. created'])
         /\ Len(answers') = Len(answers) + 1 /\ DOMAIN answers' = 1 .. Len(answers) + 1
         /\ \A i \in DOMAIN answers : answers'[i] = answers[i] /\ i # Len(answers) + 1
         /\ answers'[Len(answers) + 1].result = result
         /\ answers'[Len(answers) + 1].profile = profile
         /\ \A i \in DOMAIN answers' : i \in DOMAIN answers \/ i = Len(answers) + 1
<1>. DEFINE S == [result : Results, profile : 0 .. created']
            a == Answer(result, profile)
<1>1. [result : Results, profile : 0 .. created] \subseteq S
  BY DEF TypeOK
<1>2. a \in S /\ a.result = result /\ a.profile = profile
  BY DEF Answer
<1>3. answers \in Seq(S)
  <2>1. answers \in Seq([result : Results, profile : 0 .. created])
    BY DEF TypeOK
  <2>. DEFINE U == [result : Results, profile : 0 .. created]
  <2>. HIDE DEF S, U
  <2>2. answers \in Seq(U) /\ U \subseteq S
    BY <1>1, <2>1 DEF U
  <2>. QED BY <2>2
<1>4. answers' = Append(answers, a)
  BY DEF Answers
<1>. HIDE DEF S, a
<1>5. /\ answers' \in Seq(S) /\ Len(answers') = Len(answers) + 1 /\ Len(answers) \in Nat
      /\ \A i \in 1 .. Len(answers) : answers'[i] = answers[i]
      /\ answers'[Len(answers) + 1] = a
      /\ DOMAIN answers = 1 .. Len(answers) /\ DOMAIN answers' = 1 .. Len(answers) + 1
  BY <1>2, <1>3, <1>4, AppendProperties
<1>. QED BY <1>2, <1>5 DEF S

\* A user who is still to be deleted is so by a call behind the one that is answered.
LEMMA DeletesBehind ==
  ASSUME IInv, Serve, Len(answers') = Len(answers) + 1, ToBeDeleted'
  PROVE  /\ ToBeDeleted
         /\ \E d \in Call : d.op = "delete" /\ MayPrecede(Next1, d)
<1>1. /\ Len(answers) \in Nat /\ Len(answers) + 1 \in DOMAIN bundle
      /\ UNCHANGED <<queue, bundle>> /\ CallsInLine
      /\ bundle \in Seq(Call) /\ queue \in Seq(Call)
      /\ DOMAIN bundle = 1 .. Len(bundle)
  BY ServeKeeps DEF IInv, Line, Typed, TypeOK
<1>2. CASE \E c \in Items(queue) : c.op = "delete"
  <2>1. Next1 \in Items(bundle)
    BY <1>1 DEF Items, Next1
  <2>2. Items(queue) \subseteq Call
    BY <1>1 DEF Items
  <2>. QED BY <1>1, <1>2, <2>1, <2>2 DEF CallsInLine, AheadOf, ToBeDeleted
<1>3. ASSUME NEW i \in DOMAIN bundle, i > Len(answers) + 1, bundle[i].op = "delete"
      PROVE  ToBeDeleted /\ \E d \in Call : d.op = "delete" /\ MayPrecede(Next1, d)
  <2>1. MayPrecede(Next1, bundle[i]) /\ i > Len(answers) /\ bundle[i] \in Call
    BY <1>1, <1>3 DEF CallsInLine, InLine, Next1
  <2>. QED BY <1>3, <2>1 DEF ToBeDeleted
<1>. QED BY <1>1, <1>2, <1>3 DEF ToBeDeleted

\* The server lets a user in: nothing behind the call ends the session again.
LEMMA ServeEnter ==
  ASSUME IInv, Serve, NEW profile \in Nat, Enter(profile), Next1.op = "authenticate",
         profile \in profiles \/ profile = NewProfile,
         identities' \in [Credentials -> profiles' \cup {None}]
  PROVE  IInv'
<1>0. TypeOK /\ IdsGenerated /\ CutExplains /\ Fits /\ AnswersInStep /\ SwitchesInStep /\ Agreed
  BY DEF IInv, Typed
<1>1. /\ Line' /\ Fits' /\ (Busy' <=> Busy) /\ ~arrived
      /\ UNCHANGED <<device, authenticated, queue, bundle, arrived, app, generated>>
      /\ Len(answers) \in Nat /\ Len(answers) + 1 \in DOMAIN bundle
      /\ Next1 \in Call /\ Next1 \in EngineCalls
      /\ \A i \in DOMAIN answers : i \in DOMAIN bundle /\ MayPrecede(bundle[i], Next1)
  BY ServeKeeps
<1>2. /\ session' = profile /\ profiles' = profiles \cup {profile}
      /\ created' = (IF profile > created THEN profile ELSE created) /\ created' <= MaxProfiles
      /\ devices' = devices \cup ({Next1.ids.anonymous} \ {None}) \X {profile}
      /\ Answers("ok", profile)
  BY DEF Enter
<1>3. PICK n \in DOMAIN bundle : n = Len(answers) + 1
  BY <1>1
<1>4. /\ created' \in 0 .. MaxProfiles /\ created <= created' /\ profile \in 1 .. created'
      /\ profiles' \subseteq 1 .. created'
  <2>1. created \in Nat /\ created <= MaxProfiles /\ MaxProfiles \in Nat /\ profiles \subseteq 1 .. created
    BY <1>0, WrapperAssumption DEF TypeOK
  <2>2. profile \in 1 .. created \/ profile = created + 1
    BY <2>1 DEF NewProfile
  <2>3. created' \in Nat /\ created <= created' /\ profile \in 1 .. created'
    BY <1>2, <2>1, <2>2
  <2>. QED BY <1>2, <2>1, <2>3
<1>5. /\ answers' \in Seq([result : Results, profile : 0 .. created'])
      /\ Len(answers') = n /\ DOMAIN answers' = 1 .. n /\ n \in Nat
      /\ \A i \in DOMAIN answers : answers'[i] = answers[i] /\ i # n
      /\ answers'[n].result = "ok" /\ answers'[n].profile = profile
      /\ \A i \in DOMAIN answers' : i \in DOMAIN answers \/ i = n
  <2>1. "ok" \in Results /\ profile \in 0 .. created' /\ created' \in Nat
    BY <1>4 DEF Results
  <2>2. TypeOK /\ created <= created' /\ Answers("ok", profile)
    BY <1>0, <1>2, <1>4
  <2>3. /\ answers' \in Seq([result : Results, profile : 0 .. created'])
        /\ Len(answers') = Len(answers) + 1 /\ DOMAIN answers' = 1 .. Len(answers) + 1
        /\ \A i \in DOMAIN answers : answers'[i] = answers[i] /\ i # Len(answers) + 1
        /\ answers'[Len(answers) + 1].result = "ok"
        /\ answers'[Len(answers) + 1].profile = profile
        /\ \A i \in DOMAIN answers' : i \in DOMAIN answers \/ i = Len(answers) + 1
    BY <2>1, <2>2, AnswerAdded
  <2>4. n \in Nat
    BY <1>1, <1>3
  <2>. QED BY <1>3, <2>3, <2>4
<1>6. Len(answers') <= Len(bundle')
  BY <1>0, <1>1, <1>5, <1>3 DEF TypeOK
<1>7. Typed'
  <2>1. Next1.ids.anonymous \in Nat /\ Next1.ids.anonymous <= generated
    BY <1>0, <1>1 DEF Fits, CallFits, Call, Ids
  <2>2. devices' \subseteq (1 .. generated') \X profiles'
    <3>1. {Next1.ids.anonymous} \ {None} \subseteq 1 .. generated /\ generated' = generated
      BY <1>0, <1>1, <2>1 DEF TypeOK, None
    <3>. QED BY <1>0, <1>2, <3>1 DEF TypeOK
  <2>3. current' \in 0 .. created'
    BY <1>0, <1>1, <1>4 DEF TypeOK, app
  <2>. QED BY <1>0, <1>1, <1>2, <1>4, <1>5, <1>6, <2>2, <2>3
           DEF Typed, TypeOK, IdsGenerated, CutExplains, device, app
<1>8. \A i \in DOMAIN answers : bundle[i].op \notin {"authenticate", "identities"}
  BY <1>1 DEF MayPrecede, IsRequest
<1>9. AnswersInStep'
  <2>1. Entered(n)'
    <3>1. bundle'[n] = Next1
      BY <1>1, <1>3 DEF Next1
    <3>2. Next1.ids.anonymous # None => <<Next1.ids.anonymous, profile>> \in devices'
      BY <1>2
    <3>3. \A k \in DOMAIN answers' : ~(k > n)
      BY <1>1, <1>5
    <3>4. session' = profile /\ profile # None
      BY <1>2, <1>4 DEF None
    <3>. QED BY <1>5, <3>1, <3>2, <3>3, <3>4 DEF Entered
  <2>2. bundle'[n].op = "authenticate"
    BY <1>1, <1>3 DEF Next1
  <2>. QED BY <1>1, <1>5, <1>8, <2>1, <2>2 DEF AnswersInStep
<1>10. SwitchesInStep'
  <2>1. ~ToBeDeleted'
    BY <1>5, <1>3, DeletesBehind DEF MayPrecede, IsRequest
  <2>2. Busy'
    BY <1>1, BusyIs DEF UnderWay
  <2>3. current' = current
    BY <1>1 DEF app
  <2>. QED BY <1>0, <1>1, <2>1, <2>2, <2>3 DEF SwitchesInStep
<1>11. Agreed'
  <2>1. StoredIdsMatch'
    BY <1>0, <1>1, <1>2 DEF Agreed, StoredIdsMatch, NeedsNewIds, device
  <2>2. "logout" \notin Overlaps => current' = None
    BY <1>0, <1>1, BusyIs DEF SwitchesInStep, UnderWay, app
  <2>. QED BY <2>1, <2>2 DEF Agreed, SessionIsTheOneTold
<1>. QED BY <1>1, <1>7, <1>9, <1>10, <1>11 DEF IInv

\* Every other answer.
LEMMA ServeElse ==
  ASSUME IInv, Serve, NEW result \in Results, Answers(result, None), created' = created,
         profiles' \subseteq profiles, session' \in profiles' \cup {None},
         identities' \in [Credentials -> profiles' \cup {None}],
         devices' \subseteq (1 .. generated) \X profiles',
         Next1.op = "authenticate" => result # "ok",
         Next1.op = "identities" /\ result = "anonymous" => IsAnonymous',
         Next1.op # "attach" => (IsAnonymous => IsAnonymous'),
         Next1.op \notin {"logout", "delete"} => session' = session,
         Next1.op # "delete" => devices' = devices,
         result = "noSession" => session = None
  PROVE  IInv'
<1>0. TypeOK /\ IdsGenerated /\ CutExplains /\ Fits /\ AnswersInStep /\ SwitchesInStep /\ Agreed
  BY DEF IInv, Typed
<1>1. /\ Line' /\ Fits' /\ (Busy' <=> Busy) /\ ~arrived
      /\ UNCHANGED <<device, authenticated, queue, bundle, arrived, app, generated>>
      /\ Len(answers) \in Nat /\ Len(answers) + 1 \in DOMAIN bundle
      /\ Next1 \in Call /\ Next1 \in EngineCalls
      /\ \A i \in DOMAIN answers : i \in DOMAIN bundle /\ MayPrecede(bundle[i], Next1)
  BY ServeKeeps
<1>2. PICK n \in DOMAIN bundle : n = Len(answers) + 1
  BY <1>1
<1>3. /\ answers' \in Seq([result : Results, profile : 0 .. created'])
      /\ Len(answers') = n /\ DOMAIN answers' = 1 .. n /\ n \in Nat
      /\ \A i \in DOMAIN answers : answers'[i] = answers[i] /\ i # n
      /\ answers'[n].result = result
      /\ \A i \in DOMAIN answers' : i \in DOMAIN answers \/ i = n
  <2>1. None \in 0 .. created' /\ created' \in Nat /\ created <= created'
    BY <1>0 DEF TypeOK, None
  <2>2. /\ answers' \in Seq([result : Results, profile : 0 .. created'])
        /\ Len(answers') = Len(answers) + 1 /\ DOMAIN answers' = 1 .. Len(answers) + 1
        /\ \A i \in DOMAIN answers : answers'[i] = answers[i] /\ i # Len(answers) + 1
        /\ answers'[Len(answers) + 1].result = result
        /\ \A i \in DOMAIN answers' : i \in DOMAIN answers \/ i = Len(answers) + 1
    BY <1>0, <2>1, AnswerAdded
  <2>3. n \in Nat
    BY <1>1, <1>2
  <2>. QED BY <1>2, <2>2, <2>3
<1>4. Len(answers') <= Len(bundle')
  BY <1>0, <1>1, <1>2, <1>3 DEF TypeOK
<1>5. Typed'
  <2>1. profiles' \subseteq 1 .. created' /\ current' \in 0 .. created'
    BY <1>0, <1>1 DEF TypeOK, app
  <2>. QED BY <1>0, <1>1, <1>3, <1>4, <2>1 DEF Typed, TypeOK, IdsGenerated, CutExplains, device, app
<1>6. bundle[n] = Next1
  BY <1>2 DEF Next1
<1>7. AnswersInStep'
  <2>1. ASSUME NEW i \in DOMAIN answers, bundle[i].op = "authenticate", answers[i].result = "ok"
        PROVE  Entered(i)'
    <3>1. Entered(i)
      BY <1>0, <2>1 DEF AnswersInStep
    <3>2. Next1.op \in {"attach", "logout"} /\ ~EndsSession(Next1)
      BY <1>1, <2>1 DEF MayPrecede, IsRequest
    <3>3. devices' = devices /\ bundle'[i] = bundle[i] /\ answers'[i] = answers[i]
      BY <1>1, <1>3, <3>2
    <3>4. "logout" \notin Overlaps => session' = session /\ (session # None => result # "noSession")
      BY <3>2 DEF EndsSession
    <3>5. \A k \in DOMAIN answers' : (answers'[k] = answers[k] /\ k \in DOMAIN answers) \/ k = n
      BY <1>3
    <3>. QED BY <1>3, <3>1, <3>3, <3>4, <3>5 DEF Entered
  <2>2. ASSUME NEW i \in DOMAIN answers, bundle[i].op = "identities", answers[i].result = "anonymous",
               "attach" \notin Overlaps
        PROVE  IsAnonymous'
    <3>1. IsAnonymous
      BY <1>0, <2>2 DEF AnswersInStep
    <3>2. Next1.op # "attach"
      BY <1>1, <2>2 DEF MayPrecede
    <3>. QED BY <3>1, <3>2
  <2>. QED BY <1>1, <1>3, <1>6, <2>1, <2>2 DEF AnswersInStep
<1>8. SwitchesInStep'
  <2>1. ASSUME ToBeDeleted', "attach" \notin Overlaps PROVE IsAnonymous'
    <3>1. ToBeDeleted /\ Next1.op # "attach"
      BY <1>2, <1>3, <2>1, DeletesBehind DEF MayPrecede
    <3>. QED BY <1>0, <2>1, <3>1 DEF SwitchesInStep
  <2>2. ASSUME current # None, "logout" \notin Overlaps
        PROVE  ~Busy /\ \A k \in DOMAIN answers' : answers'[k].result # "noSession"
    <3>1. ~Busy /\ \A k \in DOMAIN answers : answers[k].result # "noSession"
      BY <1>0, <2>2 DEF SwitchesInStep
    <3>2. session # None
      BY <1>0, <2>2 DEF Agreed, SessionIsTheOneTold
    <3>. QED BY <1>3, <3>1, <3>2
  <2>3. current' = current
    BY <1>1 DEF app
  <2>. QED BY <1>1, <2>1, <2>2, <2>3 DEF SwitchesInStep
<1>9. Agreed'
  <2>1. StoredIdsMatch'
    <3>1. CASE Next1.op = "delete"
      BY <1>0, <1>1, <3>1 DEF Fits, CallFits, StoredIdsMatch, NeedsNewIds, NoIds, device
    <3>2. CASE Next1.op # "delete"
      BY <1>0, <1>1, <3>2 DEF Agreed, StoredIdsMatch, NeedsNewIds, device
    <3>. QED BY <3>1, <3>2
  <2>2. ASSUME current # None, "logout" \notin Overlaps PROVE session' = session
    <3>1. ~UnderWay(Next1)
      BY <1>0, <1>1, <2>2, BusyIs DEF SwitchesInStep
    <3>. QED BY <3>1 DEF UnderWay
  <2>. QED BY <1>0, <1>1, <2>1, <2>2 DEF Agreed, SessionIsTheOneTold, device, app
<1>. QED BY <1>1, <1>5, <1>7, <1>8, <1>9 DEF IInv

LEMMA StepServe ==
  ASSUME IInv, Serve
  PROVE  IInv'
<1>0. TypeOK /\ Fits
  BY DEF IInv, Typed
<1>1. Next1 \in Call /\ Next1 \in EngineCalls
  BY ServeKeeps
<1>2. /\ profiles \subseteq 1 .. created /\ created \in Nat /\ session \in profiles \cup {None}
      /\ identities \in [Credentials -> profiles \cup {None}]
      /\ devices \subseteq (1 .. generated) \X profiles
  BY <1>0 DEF TypeOK
<1>. \A p \in profiles : p \in Nat
  BY <1>2
<1>3. CASE Next1.op = "authenticate" /\ EnterAnonymously
  <2>1. ASSUME <<Next1.ids.anonymous, Next1.ids.profile>> \in devices, Enter(Next1.ids.profile),
               UNCHANGED identities
        PROVE  IInv'
    <3>0. Next1.ids.profile \in profiles
      BY <1>2, <2>1
    <3>1. Next1.ids.profile \in profiles /\ Next1.ids.profile \in Nat
      BY <3>0
    <3>2. identities' \in [Credentials -> profiles' \cup {None}]
      BY <1>2, <2>1 DEF Enter
    <3>. QED BY <1>3, <2>1, <3>1, <3>2, ServeEnter
  <2>2. ASSUME Enter(NewProfile), UNCHANGED identities PROVE IInv'
    <3>1. NewProfile \in Nat
      BY <1>2 DEF NewProfile
    <3>2. identities' \in [Credentials -> profiles' \cup {None}]
      BY <1>2, <2>2 DEF Enter
    <3>. QED BY <1>3, <2>2, <3>1, <3>2, ServeEnter
  <2>. QED BY <1>3, <2>1, <2>2 DEF EnterAnonymously
<1>4. ASSUME Next1.op = "authenticate", NEW credential \in Credentials, EnterWith(credential)
      PROVE  IInv'
  <2>1. ASSUME identities[credential] # None, Enter(identities[credential]), UNCHANGED identities
        PROVE  IInv'
    <3>0. identities[credential] \in profiles
      BY <1>2, <2>1 DEF None
    <3>1. identities[credential] \in profiles /\ identities[credential] \in Nat
      BY <3>0
    <3>2. identities' \in [Credentials -> profiles' \cup {None}]
      BY <1>2, <2>1 DEF Enter
    <3>. QED BY <1>4, <2>1, <3>1, <3>2, ServeEnter
  <2>2. ASSUME Enter(NewProfile), identities' = [identities EXCEPT ![credential] = NewProfile]
        PROVE  IInv'
    <3>1. NewProfile \in Nat
      BY <1>2 DEF NewProfile
    <3>2. identities' \in [Credentials -> profiles' \cup {None}]
      BY <1>2, <2>2 DEF Enter
    <3>. QED BY <1>4, <2>2, <3>1, <3>2, ServeEnter
  <2>. QED BY <1>4, <2>1, <2>2 DEF EnterWith
<1>5. CASE Refuse
  <2>1. PICK result \in {"noSession", "error"} :
          Answers(result, None) /\ (result = "noSession" => session = None)
    BY <1>5 DEF Refuse
  <2>2. UNCHANGED <<session, profiles, devices, identities, created>>
    BY <1>5 DEF Refuse, server
  <2>. QED BY <1>2, <2>1, <2>2, ServeElse DEF Results, IsAnonymous
<1>6. CASE session # None /\ Next1.op = "identities" /\ ~Refuse
  <2>1. /\ Answers(IF \E c \in Credentials : identities[c] = session THEN "ok" ELSE "anonymous", None)
        /\ UNCHANGED server
    BY <1>3, <1>4, <1>6 DEF Serve
  <2>2. PICK result \in {"ok", "anonymous"} :
          /\ Answers(result, None)
          /\ result = "anonymous" => \A c \in Credentials : identities[c] # session
    BY <2>1
  <2>3. UNCHANGED <<session, profiles, devices, identities, created>>
    BY <2>1 DEF server
  <2>4. result = "anonymous" => IsAnonymous'
    BY <2>2, <2>3 DEF IsAnonymous
  <2>. QED BY <1>2, <1>6, <2>2, <2>3, <2>4, ServeElse DEF Results, IsAnonymous
<1>7. CASE session # None /\ Next1.op = "attach" /\ ~Refuse
  <2>1. /\ identities[Next1.credential] = None
        /\ identities' = [identities EXCEPT ![Next1.credential] = session]
        /\ Answers("ok", None)
        /\ UNCHANGED <<session, profiles, devices, created>>
    BY <1>7 DEF Serve
  <2>2. identities' \in [Credentials -> profiles' \cup {None}]
    BY <1>2, <2>1
  <2>. QED BY <1>2, <1>7, <2>1, <2>2, ServeElse DEF Results
<1>8. CASE session # None /\ Next1.op = "logout" /\ ~Refuse
  <2>1. session' = None /\ Answers("ok", None) /\ UNCHANGED <<profiles, devices, identities, created>>
    BY <1>8 DEF Serve
  <2>2. IsAnonymous'
    BY <2>1 DEF IsAnonymous
  <2>. QED BY <1>2, <1>8, <2>1, <2>2, ServeElse DEF Results
<1>9. CASE session # None /\ Next1.op = "delete" /\ ~Refuse
  <2>1. /\ session' = None /\ profiles' = profiles \ {session}
        /\ devices' = {d \in devices : d[2] # session}
        /\ identities' = [c \in Credentials |->
                            IF identities[c] = session THEN None ELSE identities[c]]
        /\ Answers("ok", None) /\ created' = created
    BY <1>9 DEF Serve
  <2>2. IsAnonymous'
    BY <2>1 DEF IsAnonymous
  <2>3. /\ identities' \in [Credentials -> profiles' \cup {None}]
        /\ devices' \subseteq (1 .. generated) \X profiles'
    BY <1>2, <2>1
  <2>. QED BY <1>2, <1>9, <2>1, <2>2, <2>3, ServeElse DEF Results
<1>. QED BY <1>3, <1>4, <1>5, <1>6, <1>7, <1>8, <1>9 DEF Serve

LEMMA StepArrive ==
  ASSUME IInv, Arrive \/ Lose
  PROVE  IInv'
<1>0. Typed /\ Line /\ Fits /\ AnswersInStep /\ SwitchesInStep /\ Agreed
  BY DEF IInv
<1>1. /\ arrived' = TRUE
      /\ UNCHANGED <<device, authenticated, queue, bundle, server, app, generated>>
  BY DEF Arrive, Lose
<1>2. /\ answers' \in Seq([result : Results, profile : 0 .. created'])
      /\ Len(answers') = Len(bundle') /\ DOMAIN answers' = DOMAIN bundle'
      /\ \/ UNCHANGED answers
         \/ \A i \in DOMAIN answers' : answers'[i].result = "timeout"
  <2>1. bundle \in Seq(Call) /\ answers \in Seq([result : Results, profile : 0 .. created])
        /\ created' = created /\ bundle' = bundle
    BY <1>0, <1>1 DEF Typed, TypeOK, server
  <2>2. CASE Arrive
    BY <2>1, <2>2 DEF Arrive
  <2>3. CASE Lose
    <3>1. Answer("timeout", None) \in [result : Results, profile : 0 .. created']
      BY <1>0, <2>1 DEF Answer, Results, None, Typed, TypeOK
    <3>2. answers' = [i \in 1 .. Len(bundle) |-> Answer("timeout", None)] /\ Len(bundle) \in Nat
      BY <2>1, <2>3 DEF Lose
    <3>3. /\ answers' \in Seq([result : Results, profile : 0 .. created'])
          /\ Len(answers') = Len(bundle) /\ DOMAIN answers' = DOMAIN bundle
      BY <2>1, <3>1, <3>2
    <3>4. \A i \in DOMAIN answers' : answers'[i].result = "timeout"
      BY <3>2 DEF Answer
    <3>. QED BY <2>1, <3>3, <3>4
  <2>. QED BY <2>2, <2>3
<1>3. Typed'
  <2>1. Len(answers') <= Len(bundle')
    BY <1>0, <1>1, <1>2 DEF Typed, TypeOK
  <2>. QED BY <1>0, <1>1, <1>2, <2>1 DEF Typed, TypeOK, IdsGenerated, CutExplains, device, server, app
<1>4. EngineCalls' = EngineCalls /\ (Busy' <=> Busy)
  BY <1>1 DEF EngineCalls, Busy
<1>5. Line'
  BY <1>0, <1>1, <1>4 DEF Line, CallsInLine, MarkersInStep, MarkerWaits
<1>6. Fits'
  <2>1. \A d \in EngineCalls : CallFits(d)' <=> CallFits(d)
    BY <1>1 DEF CallFits, Owner, device, app
  <2>2. ToldOnce'
    BY <1>0, <1>1 DEF Fits, ToldOnce, app
  <2>. QED BY <1>0, <1>4, <2>1, <2>2 DEF Fits
<1>7. AnswersInStep'
  <2>1. CASE UNCHANGED answers
    <3>1. \A i \in DOMAIN answers : Entered(i)' <=> Entered(i)
      BY <1>1, <2>1 DEF Entered, server
    <3>2. IsAnonymous' <=> IsAnonymous
      BY <1>1 DEF IsAnonymous, server
    <3>. QED BY <1>0, <1>1, <1>2, <2>1, <3>1, <3>2 DEF AnswersInStep
  <2>2. CASE \A i \in DOMAIN answers' : answers'[i].result = "timeout"
    BY <1>2, <2>2 DEF AnswersInStep
  <2>. QED BY <1>2, <2>1, <2>2
<1>8. SwitchesInStep'
  <2>1. ToBeDeleted' => ToBeDeleted
    <3>1. \A i \in DOMAIN bundle' : ~(i > Len(answers'))
      BY <1>0, <1>1, <1>2 DEF Typed, TypeOK
    <3>. QED BY <1>1, <3>1 DEF ToBeDeleted
  <2>2. IsAnonymous' <=> IsAnonymous
    BY <1>1 DEF IsAnonymous, server
  <2>. QED BY <1>0, <1>1, <1>2, <1>4, <2>1, <2>2 DEF SwitchesInStep, app
<1>9. Agreed'
  BY <1>0, <1>1 DEF Agreed, StoredIdsMatch, NeedsNewIds, SessionIsTheOneTold, device, server, app
<1>. QED BY <1>3, <1>5, <1>6, <1>7, <1>8, <1>9 DEF IInv

-----------------------------------------------------------------------------
(* The client handles the answer to the first call *)

\* What is left in the engine stood behind the call that is answered, and the answers
\* that are left are those to it.
LEMMA HandleKeeps ==
  ASSUME IInv, HandleAnswer
  PROVE  /\ bundle[1] \in Call /\ bundle[1] \in EngineCalls
         /\ answers[1] \in [result : Results, profile : 0 .. created]
         /\ 1 \in DOMAIN answers
         /\ EngineCalls = {bundle[1]} \cup Items(bundle') \cup Items(queue)
         /\ \A d \in Items(bundle') \cup Items(queue) : d \in Call /\ MayPrecede(bundle[1], d)
         /\ InLine(bundle') /\ InLine(queue) /\ AheadOf(bundle', queue)
         /\ bundle' \in Seq(Call) /\ Len(bundle') <= MaxBundleSize /\ arrived' \in BOOLEAN
         /\ answers' \in Seq([result : Results, profile : 0 .. created])
         /\ Len(answers') = Len(bundle')
         /\ \A k \in DOMAIN answers' : answers'[k] = answers[k + 1] /\ k + 1 \in DOMAIN answers
         /\ \A i \in DOMAIN bundle' : ~(i > Len(answers'))
         /\ UNCHANGED <<callback, server, requests, appCalls, forgotten, generated>>
         /\ AnswersInStep'
<1>0. TypeOK /\ CallsInLine /\ AnswersInStep
  BY DEF IInv, Typed, Line
<1>1. /\ arrived /\ bundle # <<>> /\ bundle' = Tail(bundle) /\ answers' = Tail(answers)
      /\ arrived' = (Len(bundle) > 1)
      /\ UNCHANGED <<callback, server, requests, appCalls, forgotten, generated>>
  BY DEF HandleAnswer
<1>. DEFINE S == [result : Results, profile : 0 .. created]
<1>2. /\ bundle \in Seq(Call) /\ queue \in Seq(Call) /\ answers \in Seq(S)
      /\ Len(answers) = Len(bundle) /\ Len(bundle) \in Nat /\ Len(bundle) <= MaxBundleSize
  BY <1>0, <1>1 DEF TypeOK, AnswersInStep
<1>. HIDE DEF S
<1>3. /\ bundle' \in Seq(Call) /\ bundle[1] \in Call /\ Len(bundle') = Len(bundle) - 1
      /\ \A i \in DOMAIN bundle' : bundle'[i] = bundle[i + 1] /\ i + 1 \in DOMAIN bundle
      /\ Items(bundle) = {bundle[1]} \cup Items(bundle')
      /\ InLine(bundle') /\ \A d \in Items(bundle') : MayPrecede(bundle[1], d)
  BY <1>0, <1>1, <1>2, ItemsTail DEF CallsInLine
<1>4. Len(bundle) >= 1
  BY <1>1, <1>2
<1>5. /\ answers' \in Seq(S) /\ Len(answers') = Len(answers) - 1 /\ answers[1] \in S
      /\ 1 \in DOMAIN answers /\ DOMAIN answers = 1 .. Len(answers)
      /\ DOMAIN answers' = 1 .. Len(answers) - 1
      /\ \A k \in 1 .. Len(answers) - 1 : answers'[k] = answers[k + 1]
  <2>1. answers # <<>> /\ Len(answers) >= 1 /\ Len(answers) \in Nat
    BY <1>2, <1>4
  <2>. QED BY <1>1, <1>2, <2>1
<1>6. /\ \A k \in DOMAIN answers' : answers'[k] = answers[k + 1] /\ k + 1 \in DOMAIN answers
      /\ Len(answers') = Len(bundle') /\ Len(bundle') <= MaxBundleSize
      /\ DOMAIN bundle' = 1 .. Len(bundle')
  BY <1>2, <1>3, <1>4, <1>5, WrapperAssumption
<1>7. \A i \in DOMAIN bundle' : ~(i > Len(answers'))
  BY <1>2, <1>3, <1>6
<1>8. EngineCalls = {bundle[1]} \cup Items(bundle') \cup Items(queue)
  BY <1>3 DEF EngineCalls
<1>9. /\ \A d \in Items(bundle') \cup Items(queue) : d \in Call /\ MayPrecede(bundle[1], d)
      /\ AheadOf(bundle', queue) /\ InLine(queue)
  <2>1. Items(bundle') \subseteq Call /\ Items(queue) \subseteq Call
    BY <1>2, <1>3 DEF Items
  <2>. QED BY <1>0, <1>3, <2>1 DEF CallsInLine, AheadOf
<1>10. AnswersInStep'
  <2>1. ASSUME NEW i \in DOMAIN answers', Entered(i + 1) PROVE Entered(i)'
    <3>1. /\ bundle'[i] = bundle[i + 1] /\ answers'[i] = answers[i + 1]
          /\ \A k \in DOMAIN answers' : k > i => k + 1 > i + 1
      BY <1>2, <1>3, <1>5, <1>6
    <3>. QED BY <1>1, <1>6, <2>1, <3>1 DEF Entered, server
  <2>2. IsAnonymous' <=> IsAnonymous
    BY <1>1 DEF IsAnonymous, server
  <2>3. \A i \in DOMAIN answers' : bundle'[i] = bundle[i + 1]
    BY <1>3, <1>5, <1>6
  <2>. QED BY <1>0, <1>6, <2>1, <2>2, <2>3 DEF AnswersInStep
<1>11. bundle[1] \in EngineCalls /\ arrived' \in BOOLEAN
  BY <1>1, <1>8
<1>12. /\ answers' \in Seq([result : Results, profile : 0 .. created])
       /\ answers[1] \in [result : Results, profile : 0 .. created]
  BY <1>5 DEF S
<1>. QED BY <1>1, <1>3, <1>5, <1>6, <1>7, <1>8, <1>9, <1>10, <1>11, <1>12, Zenon

\* As long as the client puts nothing into the queue, the rest stays in line.
LEMMA HandleInLine ==
  ASSUME IInv, HandleAnswer, queue' = queue
  PROVE  Line' /\ EngineCalls' \subseteq EngineCalls
<1>1. /\ EngineCalls = {bundle[1]} \cup Items(bundle') \cup Items(queue)
      /\ InLine(bundle') /\ InLine(queue) /\ AheadOf(bundle', queue)
  BY HandleKeeps
<1>2. EngineCalls' \subseteq EngineCalls
  BY <1>1 DEF EngineCalls
<1>3. MarkersInStep
  BY DEF IInv, Line
<1>4. MarkerWaits' <=> MarkerWaits
  BY DEF MarkerWaits
<1>5. Items(bundle') \subseteq Items(bundle)
  BY ItemsTail DEF HandleAnswer, IInv, Typed, TypeOK
<1>6. MarkersInStep'
  BY <1>2, <1>3, <1>4, <1>5 DEF MarkersInStep
<1>. QED BY <1>1, <1>2, <1>6 DEF Line, CallsInLine

\* Behind a request there are only calls that may wait for it.
LEMMA BehindRequest ==
  ASSUME IInv, HandleAnswer, IsRequest(bundle[1])
  PROVE  \A d \in Items(bundle') \cup Items(queue) :
           /\ d.op \in {"attach", "logout"} /\ ~EndsSession(d) /\ CallFits(d)
           /\ "attach" \notin Overlaps /\ bundle[1].op = "identities" => d.op # "attach"
BY HandleKeeps DEF MayPrecede, IInv, Fits

LEMMA ToldNow ==
  ASSUME Typed, Fits, requests' = requests, \A i \in DOMAIN told : told[i] # requests,
         told' = IF requests = Nobody THEN told ELSE Append(told, requests)
  PROVE  told' \in Seq(1 .. requests') /\ ToldOnce'
<1>1. /\ told \in Seq(1 .. requests) /\ requests \in Nat /\ Len(told) \in Nat
      /\ DOMAIN told = 1 .. Len(told) /\ ToldOnce
  BY DEF Typed, TypeOK, Fits
<1>2. CASE requests = Nobody
  BY <1>1, <1>2 DEF ToldOnce
<1>3. CASE requests # Nobody
  <2>1. requests \in 1 .. requests
    BY <1>1, <1>3 DEF Nobody
  <2>. DEFINE S == 1 .. requests
  <2>2. told \in Seq(S) /\ requests \in S /\ told' = Append(told, requests)
    BY <1>1, <1>3, <2>1
  <2>. HIDE DEF S
  <2>3. /\ told' \in Seq(S) /\ DOMAIN told' = 1 .. Len(told) + 1
        /\ \A i \in 1 .. Len(told) : told'[i] = told[i]
        /\ told'[Len(told) + 1] = requests
    BY <2>2, AppendProperties
  <2>4. \A i \in DOMAIN told' : (i \in DOMAIN told /\ told'[i] = told[i] /\ told'[i] # requests)
                                \/ (i = Len(told) + 1 /\ told'[i] = requests)
    BY <1>1, <2>3
  <2>5. ToldOnce'
    BY <1>1, <2>4 DEF ToldOnce
  <2>. QED BY <2>3, <2>5 DEF S
<1>. QED BY <1>2, <1>3

\* A request that ends here: the app is told.
LEMMA HandleRequest ==
  ASSUME IInv, HandleAnswer, IsRequest(bundle[1]), queue' = queue,
         NEW profile \in 0 .. created, CallBack(Owner(bundle[1]), profile),
         stored' \in Ids, stored'.anonymous = stored.anonymous,
         cut' \subseteq {"initializeIdentity", "clearIds"}, CutExplains',
         service' \in Ids, service'.anonymous = service.anonymous,
         authenticated' \in BOOLEAN,
         profile # None /\ "logout" \notin Overlaps =>
           \A k \in DOMAIN answers : k > 1 => answers[k].result # "noSession",
         Agreed'
  PROVE  IInv'
<1>0. TypeOK /\ IdsGenerated /\ CutExplains /\ Typed /\ Fits
  BY DEF IInv, Typed
<1>1. /\ bundle[1] \in Call /\ bundle[1] \in EngineCalls
      /\ bundle' \in Seq(Call) /\ Len(bundle') <= MaxBundleSize /\ arrived' \in BOOLEAN
      /\ answers' \in Seq([result : Results, profile : 0 .. created])
      /\ Len(answers') = Len(bundle')
      /\ \A k \in DOMAIN answers' : answers'[k] = answers[k + 1] /\ k + 1 \in DOMAIN answers
      /\ \A i \in DOMAIN bundle' : ~(i > Len(answers'))
      /\ UNCHANGED <<callback, server, requests, appCalls, forgotten, generated>>
      /\ AnswersInStep'
  BY HandleKeeps
<1>2. \A d \in Items(bundle') \cup Items(queue) :
        d.op \in {"attach", "logout"} /\ ~EndsSession(d) /\ CallFits(d)
  BY BehindRequest
<1>3. Line'
  BY HandleInLine
<1>4. Owner(bundle[1]) = requests /\ \A i \in DOMAIN told : told[i] # requests
  BY <1>0, <1>1 DEF Fits, CallFits
<1>5. told' = (IF requests = Nobody THEN told ELSE Append(told, requests)) /\ current' = profile
  BY <1>4 DEF CallBack
<1>6. told' \in Seq(1 .. requests') /\ ToldOnce'
  BY <1>0, <1>1, <1>4, <1>5, ToldNow
<1>7. Typed'
  <2>1. Len(answers') <= Len(bundle')
    BY <1>1
  <2>. QED BY <1>0, <1>1, <1>5, <1>6, <2>1 DEF Typed, TypeOK, IdsGenerated, CutExplains, server
<1>8. EngineCalls' = Items(bundle') \cup Items(queue)
  BY DEF EngineCalls
<1>9. Fits'
  <2>1. \A d \in EngineCalls' : CallFits(d)'
    BY <1>1, <1>2, <1>8 DEF CallFits, IsRequest
  <2>. QED BY <1>6, <2>1 DEF Fits
<1>10. SwitchesInStep'
  <2>1. ~ToBeDeleted'
    BY <1>1, <1>2 DEF ToBeDeleted
  <2>2. ASSUME profile # None, "logout" \notin Overlaps
        PROVE  ~Busy' /\ \A k \in DOMAIN answers' : answers'[k].result # "noSession"
    <3>1. Busy' <=> \E d \in EngineCalls' : UnderWay(d)
      BY BusyIs DEF Busy, EngineCalls, Items
    <3>2. ~Busy'
      BY <1>2, <1>8, <2>2, <3>1 DEF UnderWay, EndsSession
    <3>3. \A k \in DOMAIN answers' : k + 1 > 1
      BY <1>1
    <3>. QED BY <1>1, <2>2, <3>2, <3>3
  <2>. QED BY <1>5, <2>1, <2>2 DEF SwitchesInStep
<1>. QED BY <1>1, <1>3, <1>7, <1>9, <1>10 DEF IInv

LEMMA StepAuthenticated ==
  ASSUME IInv, HandleAnswer, Authenticated(bundle[1], answers[1])
  PROVE  IInv'
<1>0. TypeOK /\ IdsGenerated /\ CutExplains /\ Fits /\ AnswersInStep /\ Agreed
  BY DEF IInv, Typed
<1>1. /\ bundle[1] \in Call /\ bundle[1] \in EngineCalls
      /\ answers[1] \in [result : Results, profile : 0 .. created] /\ 1 \in DOMAIN answers
      /\ UNCHANGED <<callback, server, requests, appCalls, forgotten, generated>>
  BY HandleKeeps
<1>2. PICK profile \in 0 .. created : profile = answers[1].profile
  BY <1>1
<1>3. /\ bundle[1].op = "authenticate" /\ answers[1].result = "ok"
      /\ authenticated' = TRUE /\ queue' = queue
      /\ service' = [service EXCEPT !.profile = profile]
      /\ CallBack(Owner(bundle[1]), profile)
      /\ IF bundle[1].to = Itself THEN stored' = [stored EXCEPT !.profile = profile] /\ cut' = {}
                                  ELSE stored' = stored /\ cut' = cut
  BY <1>2 DEF Authenticated, Owner
<1>4. /\ service' \in Ids /\ service'.anonymous = service.anonymous /\ service'.profile = profile
      /\ stored' \in Ids /\ stored'.anonymous = stored.anonymous
      /\ bundle[1].to = Itself => stored'.profile = profile
  <2>1. profile \in 0 .. MaxProfiles /\ service \in Ids /\ stored \in Ids
    BY <1>0, WrapperAssumption DEF TypeOK
  <2>. QED BY <1>3, <2>1 DEF Ids
<1>5. /\ bundle[1].ids.anonymous # None => <<bundle[1].ids.anonymous, profile>> \in devices
      /\ "logout" \notin Overlaps =>
           /\ session = profile
           /\ \A k \in DOMAIN answers : k > 1 => answers[k].result # "noSession"
  <2>1. Entered(1)
    BY <1>0, <1>1, <1>3 DEF AnswersInStep
  <2>. QED BY <1>2, <2>1 DEF Entered
<1>6. IF bundle[1].to = Itself
      THEN bundle[1].ids.anonymous = stored.anonymous /\ stored.anonymous # None
      ELSE stored = NoIds
  BY <1>0, <1>1, <1>3 DEF Fits, CallFits
<1>7. Agreed'
  <2>1. StoredIdsMatch'
    BY <1>1, <1>3, <1>4, <1>5, <1>6 DEF StoredIdsMatch, NeedsNewIds, NoIds, server
  <2>2. ASSUME "logout" \notin Overlaps PROVE SessionIsTheOneTold'
    <3>1. current' = profile /\ session' = profile
      BY <1>1, <1>3, <1>5, <2>2 DEF CallBack, server
    <3>2. stored'.profile \in {None, profile}
      BY <1>3, <1>4, <1>6 DEF NoIds
    <3>. QED BY <1>3, <1>4, <3>1, <3>2 DEF SessionIsTheOneTold
  <2>. QED BY <2>1, <2>2 DEF Agreed
<1>8. CutExplains' /\ cut' \subseteq {"initializeIdentity", "clearIds"}
  BY <1>0, <1>3, <1>4, <1>6 DEF TypeOK, CutExplains, NoIds
<1>. QED BY <1>3, <1>4, <1>5, <1>7, <1>8, HandleRequest DEF IsRequest

LEMMA StepNotAuthenticated ==
  ASSUME IInv, HandleAnswer, NotAuthenticated(bundle[1], answers[1])
  PROVE  IInv'
<1>0. TypeOK /\ CutExplains /\ Fits /\ Agreed
  BY DEF IInv, Typed
<1>1. bundle[1] \in EngineCalls /\ UNCHANGED <<callback, server, requests, appCalls, forgotten, generated>>
  BY HandleKeeps
<1>2. /\ bundle[1].op \in {"authenticate", "identities"}
      /\ authenticated' \in BOOLEAN
      /\ CallBack(Owner(bundle[1]), None)
      /\ UNCHANGED <<stored, cut, service, queue>>
  BY DEF NotAuthenticated, Owner
<1>3. Agreed'
  BY <1>0, <1>1, <1>2
     DEF Agreed, StoredIdsMatch, NeedsNewIds, SessionIsTheOneTold, CallBack, server
<1>4. None \in 0 .. created
  BY <1>0 DEF TypeOK, None
<1>5. CutExplains' /\ cut' \subseteq {"initializeIdentity", "clearIds"} /\ stored' \in Ids
      /\ service' \in Ids
  BY <1>0, <1>2 DEF TypeOK, CutExplains
<1>. QED BY <1>2, <1>3, <1>4, <1>5, HandleRequest DEF IsRequest

\* The smart switch goes on: the session is left, then the next one is entered.
LEMMA StepIdentified ==
  ASSUME IInv, HandleAnswer, Identified(bundle[1], answers[1])
  PROVE  IInv'
<1>0. TypeOK /\ IdsGenerated /\ CutExplains /\ Typed /\ Fits /\ AnswersInStep /\ SwitchesInStep /\ Agreed
  BY DEF IInv, Typed
<1>1. /\ bundle[1] \in Call /\ bundle[1] \in EngineCalls /\ 1 \in DOMAIN answers
      /\ \A d \in Items(bundle') \cup Items(queue) : d \in Call
      /\ InLine(bundle') /\ InLine(queue) /\ AheadOf(bundle', queue)
      /\ bundle' \in Seq(Call) /\ Len(bundle') <= MaxBundleSize /\ arrived' \in BOOLEAN
      /\ answers' \in Seq([result : Results, profile : 0 .. created])
      /\ Len(answers') = Len(bundle')
      /\ \A i \in DOMAIN bundle' : ~(i > Len(answers'))
      /\ UNCHANGED <<callback, server, requests, appCalls, forgotten, generated>>
      /\ AnswersInStep'
  BY HandleKeeps
<1>2. /\ bundle[1].op = "identities" /\ ClearIds
      /\ UNCHANGED <<authenticated, told, current>>
  BY DEF Identified, SwitchTo
<1>3. \A d \in Items(bundle') \cup Items(queue) :
        /\ d.op \in {"attach", "logout"} /\ ~EndsSession(d) /\ CallFits(d)
        /\ "attach" \notin Overlaps => d.op # "attach"
  BY <1>2, BehindRequest DEF IsRequest
<1>4. /\ stored' = NoIds /\ stored' \in Ids /\ service' \in Ids /\ cut' = {}
      /\ service'.anonymous <= generated /\ stored'.anonymous <= generated
  <2>1. None <= generated
    BY <1>0 DEF TypeOK, None
  <2>. QED BY <1>0, <1>2, <2>1, ClearIdsGives DEF IdsGenerated, NoIds
<1>. DEFINE P == Plain(IF answers[1].result = "anonymous" THEN "delete" ELSE "logout")
            M == Marker
            A == Request("authenticate", bundle[1].to, bundle[1].credential, service')
<1>5. PICK leave \in Call, marker \in Call, enter \in Call :
        /\ leave.op \in {"logout", "delete"} /\ leave.ids.anonymous = None
        /\ leave.op = "delete" => answers[1].result = "anonymous"
        /\ marker.op = "marker" /\ marker.ids.anonymous = None
        /\ enter.op = "authenticate" /\ enter.to = bundle[1].to /\ enter.ids = service'
        /\ queue' = Append(Append(Append(queue, leave), marker), enter)
  <2>1. /\ P \in Call /\ P.op \in {"logout", "delete"} /\ P.ids.anonymous = None
        /\ P.op = "delete" => answers[1].result = "anonymous"
    BY PlainIs
  <2>2. M \in Call /\ M.op = "marker" /\ M.ids.anonymous = None
    BY PlainIs DEF Marker
  <2>3. A \in Call /\ A.op = "authenticate" /\ A.to = bundle[1].to /\ A.ids = service'
    <3>1. bundle[1].to \in 0 .. Itself /\ bundle[1].credential \in Credentials \cup {NoCredential}
      BY <1>1 DEF Call
    <3>2. service' \in Ids
      BY <1>4
    <3>. QED BY <3>1, <3>2 DEF Request, Call
  <2>4. queue' = (queue \o <<P, M>>) \o <<A>>
    BY DEF Identified, SwitchTo, Leave
  <2>5. queue \in Seq(Call)
    BY <1>0 DEF TypeOK
  <2>. HIDE DEF P, M, A
  <2>6. queue' = Append(Append(Append(queue, P), M), A)
    BY <2>1, <2>2, <2>3, <2>4, <2>5
  <2>. QED BY <2>1, <2>2, <2>3, <2>6
<1>. HIDE DEF P, M, A
<1>. DEFINE one == Append(queue, leave)
            two == Append(one, marker)
<1>6. /\ MayPrecede(leave, marker) /\ MayPrecede(leave, enter) /\ MayPrecede(marker, enter)
      /\ \A d \in Items(bundle') \cup Items(queue) :
           MayPrecede(d, leave) /\ MayPrecede(d, marker) /\ MayPrecede(d, enter)
  BY <1>3, <1>5 DEF MayPrecede, IsRequest, EndsSession
<1>7. /\ queue' \in Seq(Call) /\ Items(queue') = Items(queue) \cup {leave, marker, enter}
      /\ InLine(queue')
  <2>0. queue \in Seq(Call)
    BY <1>0 DEF TypeOK
  <2>1. one \in Seq(Call) /\ Items(one) = Items(queue) \cup {leave} /\ InLine(one)
    BY <1>1, <1>6, <2>0, ItemsAppend
  <2>. HIDE DEF one
  <2>2. two \in Seq(Call) /\ Items(two) = Items(one) \cup {marker} /\ InLine(two)
    BY <1>6, <2>1, ItemsAppend
  <2>. HIDE DEF two
  <2>3. queue' = Append(two, enter)
    BY <1>5 DEF one, two
  <2>4. \A d \in Items(two) : MayPrecede(d, enter)
    BY <1>6, <2>1, <2>2
  <2>. QED BY <2>1, <2>2, <2>3, <2>4, ItemsAppend
<1>8. EngineCalls' = Items(bundle') \cup Items(queue) \cup {leave, marker, enter}
  BY <1>7 DEF EngineCalls
<1>9. Line'
  <2>1. AheadOf(bundle', queue')
    BY <1>1, <1>6, <1>7 DEF AheadOf
  <2>2. MarkersInStep'
    BY <1>3, <1>5, <1>7 DEF MarkersInStep, MarkerWaits
  <2>. QED BY <1>1, <1>7, <2>1, <2>2 DEF Line, CallsInLine
<1>10. Typed'
  <2>1. Len(answers') <= Len(bundle')
    BY <1>1
  <2>2. CutExplains' /\ cut' \subseteq {"initializeIdentity", "clearIds"}
    BY <1>4 DEF CutExplains, NoIds
  <2>. QED BY <1>0, <1>1, <1>2, <1>4, <1>7, <2>1, <2>2 DEF Typed, TypeOK, IdsGenerated, server
<1>11. Fits'
  <2>1. generated \in Nat /\ None <= generated
    BY <1>0 DEF TypeOK, None
  <2>2. CallFits(leave)' /\ CallFits(marker)'
    BY <1>1, <1>4, <1>5, <2>1 DEF CallFits, IsRequest
  <2>3. CallFits(enter)'
    <3>1. /\ bundle[1].to # Itself /\ Owner(bundle[1]) = requests
          /\ \A i \in DOMAIN told : told[i] # requests
      BY <1>0, <1>1, <1>2 DEF Fits, CallFits, IsRequest
    <3>. QED BY <1>1, <1>2, <1>4, <1>5, <3>1 DEF CallFits, IsRequest, Owner
  <2>4. ASSUME NEW d \in Items(bundle') \cup Items(queue) PROVE CallFits(d)'
    BY <1>1, <1>3 DEF CallFits, IsRequest
  <2>5. ToldOnce'
    BY <1>0, <1>2 DEF Fits, ToldOnce
  <2>. QED BY <1>8, <2>2, <2>3, <2>4, <2>5 DEF Fits
<1>12. SwitchesInStep'
  <2>1. ASSUME ToBeDeleted', "attach" \notin Overlaps PROVE IsAnonymous'
    <3>1. leave.op = "delete"
      BY <1>1, <1>3, <1>5, <1>7, <2>1 DEF ToBeDeleted
    <3>2. IsAnonymous
      BY <1>0, <1>1, <1>2, <1>5, <2>1, <3>1 DEF AnswersInStep
    <3>. QED BY <1>1, <3>2 DEF IsAnonymous, server
  <2>2. "logout" \notin Overlaps => current = None
    BY <1>0, <1>1, <1>2, BusyIs DEF SwitchesInStep, UnderWay
  <2>. QED BY <1>2, <2>1, <2>2 DEF SwitchesInStep
<1>13. Agreed'
  <2>1. "logout" \notin Overlaps => current = None
    BY <1>0, <1>1, <1>2, BusyIs DEF SwitchesInStep, UnderWay
  <2>. QED BY <1>2, <1>4, <2>1
           DEF Agreed, StoredIdsMatch, NeedsNewIds, NoIds, SessionIsTheOneTold
<1>. QED BY <1>1, <1>9, <1>10, <1>11, <1>12, <1>13 DEF IInv

LEMMA StepLeft ==
  ASSUME IInv, HandleAnswer, Left(bundle[1], answers[1])
  PROVE  IInv'
<1>0. TypeOK /\ IdsGenerated /\ CutExplains /\ Fits /\ SwitchesInStep /\ Agreed
  BY DEF IInv, Typed
<1>1. /\ bundle[1] \in EngineCalls /\ 1 \in DOMAIN answers
      /\ bundle' \in Seq(Call) /\ Len(bundle') <= MaxBundleSize /\ arrived' \in BOOLEAN
      /\ answers' \in Seq([result : Results, profile : 0 .. created])
      /\ Len(answers') = Len(bundle')
      /\ \A k \in DOMAIN answers' : answers'[k] = answers[k + 1] /\ k + 1 \in DOMAIN answers
      /\ \A i \in DOMAIN bundle' : ~(i > Len(answers'))
      /\ UNCHANGED <<callback, server, requests, appCalls, forgotten, generated>>
      /\ AnswersInStep'
  BY HandleKeeps
<1>. DEFINE left == \/ bundle[1].op # "attach" /\ answers[1].result = "ok"
                    \/ bundle[1].op = "logout" /\ answers[1].result = "timeout"
<1>2. /\ bundle[1].op \in {"logout", "delete", "attach"}
      /\ authenticated' = (authenticated /\ ~left /\ answers[1].result # "noSession")
      /\ service' = IF bundle[1].op # "attach" /\ answers[1].result = "ok"
                    THEN [service EXCEPT !.profile = None] ELSE service
      /\ UNCHANGED <<stored, cut, queue, told, current>>
  BY DEF Left
<1>3. Line' /\ EngineCalls' \subseteq EngineCalls
  BY <1>2, HandleInLine
<1>4. service' \in Ids /\ service'.anonymous = service.anonymous
  <2>1. service \in Ids /\ None \in 0 .. MaxProfiles
    BY <1>0, WrapperAssumption DEF TypeOK, None
  <2>. QED BY <1>2, <2>1 DEF Ids
<1>5. authenticated' \in BOOLEAN
  BY <1>2
<1>6. Typed'
  <2>1. Len(answers') <= Len(bundle')
    BY <1>1
  <2>. QED BY <1>0, <1>1, <1>2, <1>3, <1>4, <1>5, <2>1 DEF Typed, TypeOK, IdsGenerated, CutExplains, server
<1>7. Fits'
  <2>1. \A d \in EngineCalls' : CallFits(d)'
    BY <1>0, <1>1, <1>2, <1>3 DEF Fits, CallFits, Owner
  <2>. QED BY <1>0, <1>2, <2>1 DEF Fits, ToldOnce
<1>8. SwitchesInStep'
  <2>1. ToBeDeleted' => ToBeDeleted
    BY <1>1, <1>2 DEF ToBeDeleted
  <2>2. ~Busy => ~Busy'
    <3>1. Busy' <=> \E d \in EngineCalls' : UnderWay(d)
      BY BusyIs DEF Busy, EngineCalls, Items
    <3>. QED BY <1>3, <3>1, BusyIs
  <2>3. IsAnonymous' <=> IsAnonymous
    BY <1>1 DEF IsAnonymous, server
  <2>. QED BY <1>0, <1>1, <1>2, <2>1, <2>2, <2>3 DEF SwitchesInStep
<1>9. Agreed'
  <2>1. ASSUME current # None, "logout" \notin Overlaps
        PROVE  service' = service /\ (authenticated => authenticated')
    <3>1. bundle[1].op = "attach" /\ answers[1].result # "noSession"
      BY <1>0, <1>1, <1>2, <2>1, BusyIs DEF SwitchesInStep, UnderWay
    <3>. QED BY <1>2, <3>1
  <2>. QED BY <1>0, <1>1, <1>2, <2>1
           DEF Agreed, StoredIdsMatch, NeedsNewIds, SessionIsTheOneTold, server
<1>. QED BY <1>1, <1>3, <1>6, <1>7, <1>8, <1>9 DEF IInv

LEMMA StepHandle ==
  ASSUME IInv, HandleAnswer
  PROVE  IInv'
BY StepAuthenticated, StepNotAuthenticated, StepIdentified, StepLeft DEF HandleAnswer

-----------------------------------------------------------------------------
(* The theorems *)

LEMMA InitInvariant == Init => IInv
<1>. SUFFICES ASSUME Init PROVE IInv
  OBVIOUS
<1>1. /\ stored = NoIds /\ service = NoIds /\ callback = Nobody
      /\ authenticated = FALSE /\ queue = <<>> /\ bundle = <<>> /\ answers = <<>> /\ arrived = FALSE
      /\ session = None /\ profiles = {} /\ devices = {} /\ created = 0
      /\ identities = [c \in Credentials |-> None]
      /\ requests = 0 /\ told = <<>> /\ current = None /\ appCalls = 0 /\ generated = 0
      /\ forgotten = 0 /\ cut = {}
  BY DEF Init
<1>2. Typed
  <2>1. NoIds \in Ids /\ NoIds.anonymous = 0
    BY WrapperAssumption DEF NoIds, Ids, None
  <2>2. /\ queue \in Seq(Call) /\ bundle \in Seq(Call) /\ told \in Seq(1 .. requests)
        /\ answers \in Seq([result : Results, profile : 0 .. created])
        /\ Len(bundle) <= MaxBundleSize /\ Len(answers) <= Len(bundle)
    BY <1>1, WrapperAssumption
  <2>3. /\ requests \in 0 .. MaxRequests /\ appCalls \in 0 .. MaxAppCalls
        /\ generated \in 0 .. MaxAnonymous /\ created \in 0 .. MaxProfiles
        /\ callback \in 0 .. requests /\ current \in 0 .. created
        /\ forgotten \in 0 .. requests /\ cut \subseteq {"initializeIdentity", "clearIds"}
    BY <1>1, WrapperAssumption DEF None, Nobody
  <2>4. /\ profiles \subseteq 1 .. created /\ session \in profiles \cup {None}
        /\ devices \subseteq (1 .. generated) \X profiles
        /\ identities \in [Credentials -> profiles \cup {None}]
        /\ authenticated \in BOOLEAN /\ arrived \in BOOLEAN
    BY <1>1
  <2>5. stored \in Ids /\ service \in Ids /\ stored.anonymous <= generated /\ service.anonymous <= generated
    BY <1>1, <2>1
  <2>6. CutExplains
    BY <1>1 DEF CutExplains, NoIds
  <2>. QED BY <2>2, <2>3, <2>4, <2>5, <2>6 DEF Typed, TypeOK, IdsGenerated
<1>3. EngineCalls = {} /\ ~MarkerWaits /\ Items(bundle) = {}
  BY <1>1, ItemsEmpty DEF EngineCalls, MarkerWaits
<1>4. Line
  BY <1>1, <1>3, ItemsEmpty DEF Line, CallsInLine, MarkersInStep
<1>5. Fits
  BY <1>1, <1>3 DEF Fits, ToldOnce
<1>6. AnswersInStep /\ SwitchesInStep
  BY <1>1, ItemsEmpty DEF AnswersInStep, SwitchesInStep, ToBeDeleted
<1>7. Agreed
  BY <1>1 DEF Agreed, StoredIdsMatch, NeedsNewIds, NoIds, SessionIsTheOneTold
<1>. QED BY <1>2, <1>4, <1>5, <1>6, <1>7 DEF IInv

LEMMA StepInvariant ==
  ASSUME "authenticate" \notin Overlaps, IInv, [Next]_vars
  PROVE  IInv'
<1>1. CASE AppRuns
  BY <1>1, StepApp
<1>2. CASE TakeBundle
  BY <1>2, StepTakeBundle
<1>3. CASE Serve
  BY <1>3, StepServe
<1>4. CASE Arrive \/ Lose
  BY <1>4, StepArrive
<1>5. CASE HandleAnswer
  BY <1>5, StepHandle
<1>6. CASE UNCHANGED vars
  <2>1. UNCHANGED <<device, engine, server, app, generated>>
    BY <1>6 DEF vars
  <2>2. EngineCalls' = EngineCalls /\ (Busy' <=> Busy) /\ (MarkerWaits' <=> MarkerWaits)
        /\ (ToBeDeleted' <=> ToBeDeleted) /\ (IsAnonymous' <=> IsAnonymous)
    BY <2>1 DEF EngineCalls, Busy, MarkerWaits, ToBeDeleted, IsAnonymous, engine, server
  <2>3. Typed'
    BY <2>1 DEF IInv, Typed, TypeOK, IdsGenerated, CutExplains, device, engine, server, app
  <2>4. Line'
    BY <2>1, <2>2 DEF IInv, Line, CallsInLine, MarkersInStep, engine
  <2>5. \A c \in EngineCalls : CallFits(c)' <=> CallFits(c)
    BY <2>1 DEF CallFits, Owner, device, app
  <2>6. Fits'
    BY <2>1, <2>2, <2>5 DEF IInv, Fits, ToldOnce, app
  <2>7. AnswersInStep'
    BY <2>1, AnswersFrame DEF IInv, engine, server
  <2>8. SwitchesInStep'
    BY <2>1, <2>2 DEF IInv, SwitchesInStep, engine, app
  <2>9. Agreed'
    BY <2>1 DEF IInv, Agreed, StoredIdsMatch, NeedsNewIds, SessionIsTheOneTold,
                device, engine, server, app
  <2>. QED BY <2>3, <2>4, <2>6, <2>7, <2>8, <2>9 DEF IInv
<1>. QED BY <1>1, <1>2, <1>3, <1>4, <1>5, <1>6 DEF Next

LEMMA Invariant == "authenticate" \notin Overlaps => (Spec => []IInv)
<1>. SUFFICES ASSUME "authenticate" \notin Overlaps PROVE Spec => []IInv
  OBVIOUS
<1>1. IInv /\ [Next]_vars => IInv'
  BY StepInvariant
<1>. QED BY <1>1, InitInvariant, PTL DEF Spec

\* An app that waits for the answer of one authentication or switch before it starts the
\* next keeps the wrapper, the engine and the server in step: the calls stay in an order
\* in which no marker, logout or deletion is behind the authentication it belongs before,
\* every call has the ids and the callback of the request it was made for, every request
\* is called back at most once, and a user is up for deletion only while there is
\* nothing to sign in with (BrainCloudWrapper's authenticate methods and smart switches,
\* createAndSendBundle, filterIncomingMessages).
THEOREM RequestsStayInStep ==
  "authenticate" \notin Overlaps => (Spec => []RequestsInStep)
<1>. SUFFICES ASSUME "authenticate" \notin Overlaps PROVE Spec => []RequestsInStep
  OBVIOUS
<1>1. IInv => RequestsInStep
  BY DEF IInv, Typed, Line, Fits, RequestsInStep
<1>. QED BY <1>1, Invariant, PTL

\* For such an app, whatever answers are lost and wherever the app ends, between the two
\* writes of initializeIdentity or of clearIds too, the ids on the device lead back to a
\* profile or are given up; only an end inside clearIds followed by one inside the next
\* initializeIdentity leaves others (BrainCloudWrapper's initializeIdentity,
\* serverCallback and clearIds).
THEOREM StoredIdsStayMatched ==
  "authenticate" \notin Overlaps => (Spec => []StoredIdsMatch)
<1>. SUFFICES ASSUME "authenticate" \notin Overlaps PROVE Spec => []StoredIdsMatch
  OBVIOUS
<1>1. IInv => StoredIdsMatch
  BY DEF IInv, Agreed
<1>. QED BY <1>1, Invariant, PTL

\* If such an app does not log out under an authentication either, the profile it has
\* last been told of is the session's, the client's and the device's.
THEOREM SessionStaysTheOneTold ==
  Overlaps \cap {"authenticate", "logout"} = {} => (Spec => []SessionIsTheOneTold)
<1>. SUFFICES ASSUME "authenticate" \notin Overlaps, "logout" \notin Overlaps
              PROVE  Spec => []SessionIsTheOneTold
  OBVIOUS
<1>1. IInv => SessionIsTheOneTold
  BY DEF IInv, Agreed
<1>. QED BY <1>1, Invariant, PTL

\* If instead it attaches no identity under an authentication or a switch, the smart
\* switches delete nobody who could sign in with a credential (the identity callback of
\* BrainCloudWrapper's smart switches).
THEOREM DeletesAreOfAnonymous ==
  Overlaps \cap {"authenticate", "attach"} = {} => (Spec => DeletesOnlyAnonymous)
<1>. SUFFICES ASSUME "authenticate" \notin Overlaps, "attach" \notin Overlaps
              PROVE  Spec => DeletesOnlyAnonymous
  OBVIOUS
<1>. DEFINE D == \A p \in profiles \ profiles' : \A c \in Credentials : identities[c] # p
<1>1. ASSUME IInv, Next PROVE D
  <2>1. CASE profiles \subseteq profiles'
    BY <2>1
  <2>2. CASE ~(profiles \subseteq profiles')
    <3>1. Serve
      BY <1>1, <2>2 DEF Next, AppRuns, Authenticate, SmartSwitch, Attach, Logout, Reset, Restart,
                        EndHalfway, StartAgain,
                        TakeBundle, Arrive, Lose, HandleAnswer, server
    <3>2. Next1.op = "delete" /\ profiles' = profiles \ {session} /\ session # None
      BY <2>2, <3>1 DEF Serve, EnterAnonymously, EnterWith, Enter, Refuse, server
    <3>3. ToBeDeleted
      <4>1. Len(answers) \in Nat /\ Len(answers) + 1 \in DOMAIN bundle
        BY <1>1, <3>1, ServeKeeps
      <4>. QED BY <3>2, <4>1 DEF ToBeDeleted, Next1
    <3>4. IsAnonymous
      BY <1>1, <3>3 DEF IInv, SwitchesInStep
    <3>. QED BY <3>2, <3>4 DEF IsAnonymous
  <2>. QED BY <2>1, <2>2
<1>2. IInv /\ [Next]_vars => [D]_vars
  BY <1>1
<1>. QED BY <1>2, Invariant, PTL DEF Spec, DeletesOnlyAnonymous

=============================================================================
