--------------------------- MODULE TCPSocketProofs ----------------------------
(***************************************************************************)
(* Proofs about TCPSocket, for every value of its constants: that recv     *)
(* stays in step with the byte stream, that the bytes of send go out in    *)
(* order, and that it implements Socket, for texts that are not empty.     *)
(***************************************************************************)
EXTENDS TCPSocket, SequenceTheorems, TLAPS

-----------------------------------------------------------------------------
(* Pieces of the stream *)

LEMMA StreamIsSeq ==
  ASSUME NEW fs, NEW s \in Streams(fs)
  PROVE  /\ s \in Seq(BytesOf(fs)) /\ Len(s) \in Nat
         /\ (s = <<>> <=> Len(s) = 0)
<1>. DEFINE B == BytesOf(fs)
<1>1. s \in Seq(B)
  BY DEF Streams
<1>. HIDE DEF B
<1>2. Len(s) \in Nat /\ (s = <<>> <=> Len(s) = 0)
  BY <1>1, EmptySeq
<1>. QED BY <1>1, <1>2 DEF B

\* A piece of an unbroken stream is one.
LEMMA PieceIsStream ==
  ASSUME NEW fs, NEW s \in Streams(fs), NEW a \in 1 .. Len(s) + 1, NEW b \in Nat, b <= Len(s)
  PROVE  SubSeq(s, a, b) \in Streams(fs)
<1>. DEFINE B == BytesOf(fs)
            t == SubSeq(s, a, b)
<1>0. s \in Seq(B) /\ Unbroken(s, fs)
  BY DEF Streams
<1>. HIDE DEF B
<1>1. /\ t \in Seq(B) /\ Len(t) = (IF a <= b THEN b - a + 1 ELSE 0)
      /\ \A i \in 1 .. Len(t) : t[i] = s[i + a - 1]
  BY <1>0
<1>. HIDE DEF t
<1>2. ASSUME NEW i \in 1 .. Len(t), NEW d \in 0 .. Len(t) - i
      PROVE  /\ t[i][2] + d <= 4 + fs[t[i][1]] => t[i + d] = <<t[i][1], t[i][2] + d>>
             /\ t[i][2] + d = 5 + fs[t[i][1]] => t[i + d] = <<t[i][1] + 1, 1>>
  <2>. DEFINE k == i + a - 1
  <2>1. /\ k \in 1 .. Len(s) /\ d \in 0 .. Len(s) - k
        /\ i + d \in 1 .. Len(t) /\ (i + d) + a - 1 = k + d
    <3>1. /\ Len(s) \in Nat /\ Len(t) \in Nat /\ a \in Nat \ {0} /\ b \in Nat /\ b <= Len(s)
          /\ Len(t) = IF a <= b THEN b - a + 1 ELSE 0
      BY <1>0, <1>1
    <3>. QED BY <3>1
  <2>2. t[i] = s[k] /\ t[i + d] = s[k + d]
    BY <1>1, <2>1
  <2>. HIDE DEF k
  <2>3. /\ s[k][2] + d <= 4 + fs[s[k][1]] => s[k + d] = <<s[k][1], s[k][2] + d>>
        /\ s[k][2] + d = 5 + fs[s[k][1]] => s[k + d] = <<s[k][1] + 1, 1>>
    BY <1>0, <2>1 DEF Unbroken
  <2>. QED BY <2>2, <2>3
<1>3. Unbroken(t, fs)
  BY <1>2 DEF Unbroken
<1>. QED BY <1>1, <1>3 DEF B, t, Streams

\* What follows a byte of the stream, up to the first byte of the next frame.
LEMMA WhatFollows ==
  ASSUME NEW fs, NEW s \in Streams(fs),
         NEW f \in Nat, NEW p \in Nat, s # <<>>, s[1] = <<f, p>>, fs[f] \in Nat
  PROVE  /\ f \in DOMAIN fs /\ p \in 1 .. 4 + fs[f]
         /\ \A d \in 0 .. Len(s) - 1 :
              /\ p + d <= 4 + fs[f] => s[1 + d] = <<f, p + d>>
              /\ p + d = 5 + fs[f] => s[1 + d] = <<f + 1, 1>>
<1>. DEFINE B == BytesOf(fs)
<1>0. s \in Seq(B) /\ Unbroken(s, fs)
  BY DEF Streams
<1>1. \A x \in B : x[1] \in DOMAIN fs /\ x[2] \in 1 .. 4 + fs[x[1]]
  BY DEF BytesOf
<1>. HIDE DEF B
<1>2. 1 \in 1 .. Len(s) /\ s[1] \in B /\ Len(s) \in Nat
  BY <1>0
<1>3. f \in DOMAIN fs /\ p \in 1 .. 4 + fs[f]
  BY <1>1, <1>2
<1>4. s[1][1] = f /\ s[1][2] = p
  OBVIOUS
<1>5. ASSUME NEW d \in 0 .. Len(s) - 1
      PROVE  /\ s[1][2] + d <= 4 + fs[s[1][1]] => s[1 + d] = <<s[1][1], s[1][2] + d>>
             /\ s[1][2] + d = 5 + fs[s[1][1]] => s[1 + d] = <<s[1][1] + 1, 1>>
  BY <1>0, <1>2 DEF Unbroken
<1>. QED BY <1>3, <1>4, <1>5

FollowsOn(fs, s, f, p) ==
  \A d \in 0 .. Len(s) - 1 :
    /\ p + d <= 4 + fs[f] => s[1 + d] = <<f, p + d>>
    /\ p + d = 5 + fs[f] => s[1 + d] = <<f + 1, 1>>

LEMMA ByteFollows ==
  ASSUME NEW fs, NEW s \in Streams(fs),
         NEW f \in Nat, NEW p \in Nat, s # <<>>, s[1] = <<f, p>>, fs[f] \in Nat
  PROVE  FollowsOn(fs, s, f, p)
BY WhatFollows DEF FollowsOn

\* The place in its frame of a byte that is d further on.
LEMMA FrameEnds ==
  ASSUME NEW p \in Nat, NEW i \in Nat, NEW d \in Nat, NEW m \in Nat, NEW e \in Nat,
         i <= m, i + d > m, p + (m - i) <= e => p + (m - i) = e
  PROVE  ~(p + d <= e) /\ (p + d = e + 1 => i + d = m + 1)
OBVIOUS

\* t is s, a stream of N frames of the lengths fs, and one more frame of length n.
Joins(fs, gs, s, t, m, n, N) ==
  /\ m \in Nat /\ n \in Nat /\ N \in Nat
  /\ Len(s) = m /\ Len(t) = m + 4 + n /\ Unbroken(s, fs)
  /\ \A i \in 1 .. m : s[i][1] \in 1 .. N /\ s[i][2] \in 1 .. 4 + fs[s[i][1]]
  /\ \A f \in 1 .. N : fs[f] \in Nat /\ gs[f] = fs[f]
  /\ m > 0 => s[m] = <<N, 4 + fs[N]>>
  /\ gs[N + 1] = n
  /\ \A i \in 1 .. m : t[i] = s[i]
  /\ \A i \in m + 1 .. m + 4 + n : t[i] = <<N + 1, i - m>>

\* A frame that begins where an unbroken stream stops goes on with it.
LEMMA JoinIsUnbroken ==
  ASSUME NEW fs, NEW gs, NEW s, NEW t, NEW m, NEW n, NEW N, Joins(fs, gs, s, t, m, n, N)
  PROVE  Unbroken(t, gs)
<1>0. m \in Nat /\ n \in Nat /\ N \in Nat /\ Len(t) = m + 4 + n
  BY DEF Joins
<1>1. ASSUME NEW i \in 1 .. Len(t), NEW d \in 0 .. Len(t) - i
      PROVE  /\ t[i][2] + d <= 4 + gs[t[i][1]] => t[i + d] = <<t[i][1], t[i][2] + d>>
             /\ t[i][2] + d = 5 + gs[t[i][1]] => t[i + d] = <<t[i][1] + 1, 1>>
  <2>1. /\ i \in Nat /\ d \in Nat /\ 1 <= i /\ i + d <= m + 4 + n
        /\ i \in 1 .. m + 4 + n /\ i + d \in 1 .. m + 4 + n
    BY <1>0
  <2>n. \A k \in m + 1 .. m + 4 + n : t[k] = <<N + 1, k - m>>
    BY DEF Joins
  <2>2. CASE i > m
    <3>0. i \in m + 1 .. m + 4 + n /\ i + d \in m + 1 .. m + 4 + n
      BY <1>0, <2>1, <2>2
    <3>1. t[i] = <<N + 1, i - m>> /\ t[i + d] = <<N + 1, i + d - m>>
      BY <1>0, <2>n, <3>0
    <3>2. t[i][1] = N + 1 /\ t[i][2] = i - m
      BY <3>1
    <3>3. (i - m) + d = i + d - m /\ (i - m) + d <= 4 + n /\ (i - m) + d # 5 + n
      BY <1>0, <2>1
    <3>4. gs[N + 1] = n
      BY DEF Joins
    <3>. QED BY <3>1, <3>2, <3>3, <3>4
  <2>3. CASE i <= m
    <3>. DEFINE f == s[i][1]
                p == s[i][2]
    <3>0. i \in 1 .. m /\ m > 0 /\ m - i \in 0 .. m - i
      BY <1>0, <2>1, <2>3
    <3>1. t[i] = s[i] /\ s[m] = <<N, 4 + fs[N]>>
      BY <3>0 DEF Joins
    <3>2. f \in 1 .. N /\ p \in 1 .. 4 + fs[f]
      BY <3>0 DEF Joins
    <3>3. \A c \in 0 .. m - i : /\ p + c <= 4 + fs[f] => s[i + c] = <<f, p + c>>
                                /\ p + c = 5 + fs[f] => s[i + c] = <<f + 1, 1>>
      <4>1. Len(s) = m /\ Unbroken(s, fs)
        BY DEF Joins
      <4>. QED BY <3>0, <4>1 DEF Unbroken
    <3>t. t[i][1] = f /\ t[i][2] = p
      BY <3>1
    <3>. HIDE DEF f, p
    <3>f. fs[f] \in Nat /\ gs[f] = fs[f]
      BY <3>2 DEF Joins
    <3>4. p + (m - i) <= 4 + fs[f] => f = N /\ p + (m - i) = 4 + fs[f]
      <4>1. p + (m - i) <= 4 + fs[f] => s[i + (m - i)] = <<f, p + (m - i)>>
        BY <3>0, <3>3
      <4>2. i + (m - i) = m
        BY <1>0, <2>1
      <4>. QED BY <3>1, <4>1, <4>2
    <3>5. CASE i + d <= m
      <4>1. d \in 0 .. m - i /\ i + d \in 1 .. m
        BY <1>0, <2>1, <3>5
      <4>2. t[i + d] = s[i + d]
        BY <4>1 DEF Joins
      <4>. QED BY <3>3, <3>f, <3>t, <4>1, <4>2
    <3>6. CASE i + d > m
      <4>1. /\ ~(p + d <= 4 + fs[f])
            /\ p + d = (4 + fs[f]) + 1 => i + d = m + 1
        <5>1. p \in Nat /\ 4 + fs[f] \in Nat
          BY <3>2, <3>f
        <5>. QED BY <1>0, <2>1, <2>3, <3>4, <3>6, <5>1, FrameEnds
      <4>2. p + d = 5 + fs[f] => p + (m - i) <= 4 + fs[f] /\ i + d = m + 1
        BY <1>0, <2>1, <3>2, <3>f, <4>1
      <4>3. t[m + 1] = <<N + 1, 1>>
        BY <1>0, <2>n
      <4>. QED BY <3>4, <3>f, <3>t, <4>1, <4>2, <4>3
    <3>. QED BY <1>0, <2>1, <3>5, <3>6
  <2>. QED BY <1>0, <2>1, <2>2, <2>3
<1>. QED BY <1>1 DEF Unbroken

\* t is a stream that ends with the last frame, and begins where s does if there is one.
GoesOn(s, t, gs) ==
  /\ t \in Streams(gs)
  /\ t # <<>> /\ t[Len(t)] = <<Len(gs), 4 + gs[Len(gs)]>>
  /\ t[1] = IF s = <<>> THEN <<Len(gs), 1>> ELSE s[1]

\* A frame sent after an unbroken stream that ends with a frame goes on with it.
LEMMA FrameGoesOn ==
  ASSUME NEW fs \in Seq(Nat), NEW n \in Nat, NEW gs, gs = Append(fs, n),
         NEW s \in Streams(fs),
         s # <<>> => s[Len(s)] = <<Len(fs), 4 + fs[Len(fs)]>>,
         NEW t, t = s \o Bytes(Len(gs), n)
  PROVE  GoesOn(s, t, gs)
<1>. DEFINE B == BytesOf(fs)
            C == BytesOf(gs)
            N == Len(fs)
            m == Len(s)
            d == Bytes(N + 1, n)
<1>1. /\ Len(gs) = N + 1 /\ N \in Nat /\ gs[N + 1] = n /\ DOMAIN gs = 1 .. N + 1
      /\ DOMAIN fs = 1 .. N /\ \A f \in 1 .. N : gs[f] = fs[f] /\ fs[f] \in Nat
  OBVIOUS
<1>2. \A x \in B : x \in Nat \X Nat /\ x[1] \in 1 .. N /\ x[2] \in 1 .. 4 + fs[x[1]]
  BY <1>1 DEF BytesOf
<1>3. B \subseteq C
  <2>. SUFFICES ASSUME NEW x \in B PROVE x \in C
    OBVIOUS
  <2>1. x \in Nat \X Nat /\ x[1] \in 1 .. N /\ x[2] \in 1 .. 4 + fs[x[1]]
    BY <1>2
  <2>2. x[1] \in DOMAIN gs /\ gs[x[1]] = fs[x[1]]
    BY <1>1, <2>1
  <2>. QED BY <2>1, <2>2 DEF BytesOf
<1>4. /\ d = [i \in 1 .. 4 + n |-> <<N + 1, i>>] /\ Len(d) = 4 + n
      /\ \A i \in 1 .. 4 + n : d[i] = <<N + 1, i>>
  BY <1>1 DEF Bytes
<1>5. \A i \in 1 .. 4 + n : <<N + 1, i>> \in C
  BY <1>1 DEF BytesOf
<1>6. d \in Seq(C)
  BY <1>4, <1>5
<1>7. s \in Seq(B) /\ t = s \o d /\ m \in Nat /\ m = Len(s) /\ DOMAIN s = 1 .. m
  BY <1>1 DEF Streams
<1>. HIDE DEF B, C, d, N, m
<1>8. s \in Seq(C) /\ \A i \in 1 .. m : s[i] \in B
  BY <1>3, <1>7
<1>9. /\ t \in Seq(C) /\ Len(t) = m + 4 + n /\ DOMAIN t = 1 .. m + 4 + n
      /\ \A i \in 1 .. m : t[i] = s[i]
      /\ \A i \in 1 .. 4 + n : t[m + i] = <<N + 1, i>>
  BY <1>4, <1>6, <1>7, <1>8, ConcatProperties
<1>10. \A i \in m + 1 .. m + 4 + n : t[i] = <<N + 1, i - m>>
  <2>. SUFFICES ASSUME NEW i \in m + 1 .. m + 4 + n PROVE t[i] = <<N + 1, i - m>>
    OBVIOUS
  <2>1. i - m \in 1 .. 4 + n /\ m + (i - m) = i
    BY <1>7
  <2>. QED BY <1>9, <2>1
<1>11. m > 0 => s[m] = <<N, 4 + fs[N]>>
  BY <1>7 DEF N, m
<1>12. Unbroken(t, gs)
  <2>1. \A i \in 1 .. m : s[i][1] \in 1 .. N /\ s[i][2] \in 1 .. 4 + fs[s[i][1]]
    BY <1>2, <1>8
  <2>2. Len(s) = m /\ Len(t) = m + 4 + n
    BY <1>7, <1>9
  <2>3. \A f \in 1 .. N : fs[f] \in Nat /\ gs[f] = fs[f]
    BY <1>1
  <2>4. gs[N + 1] = n /\ N \in Nat /\ m \in Nat
    BY <1>1, <1>7
  <2>5. (\A i \in 1 .. m : t[i] = s[i]) /\ \A i \in m + 1 .. m + 4 + n : t[i] = <<N + 1, i - m>>
    BY <1>9, <1>10
  <2>u. Unbroken(s, fs)
    BY DEF Streams
  <2>6. Joins(fs, gs, s, t, m, n, N)
    BY <2>u, <1>11, <2>1, <2>2, <2>3, <2>4, <2>5 DEF Joins
  <2>. QED BY <2>6, JoinIsUnbroken
<1>13. t # <<>> /\ t[Len(t)] = <<N + 1, 4 + gs[N + 1]>>
  <2>1. m + 4 + n \in m + 1 .. m + 4 + n /\ (m + 4 + n) - m = 4 + n
    BY <1>7
  <2>2. t[m + 4 + n] = <<N + 1, 4 + n>>
    BY <1>10, <2>1
  <2>3. t # <<>>
    BY <1>7, <1>9
  <2>. QED BY <1>1, <1>9, <2>2, <2>3
<1>14. t[1] = IF s = <<>> THEN <<N + 1, 1>> ELSE s[1]
  <2>1. CASE s = <<>>
    BY <1>7, <1>9, <2>1
  <2>2. CASE s # <<>>
    BY <1>7, <1>9, <2>2
  <2>. QED BY <2>1, <2>2
<1>. QED BY <1>1, <1>9, <1>12, <1>13, <1>14 DEF C, N, Streams, GoesOn

\* t is what is left of s, a stream that began in frame f, from place q of that frame on.
LeftAt(fs, s, t, f, q) ==
  /\ t \in Streams(fs)
  /\ t # <<>> => /\ t[1] = IF q = 5 + fs[f] THEN <<f + 1, 1>> ELSE <<f, q>>
                 /\ t[Len(t)] = s[Len(s)]
  /\ t = <<>> /\ s # <<>> =>
       \A N : s[Len(s)] = <<N, 4 + fs[N]>> => f = N /\ q = 5 + fs[f]

\* What is left of an unbroken stream once a message's bytes, or some, are taken off.
LEMMA TakenOff ==
  ASSUME NEW fs \in Seq(Nat), NEW s \in Streams(fs),
         NEW f \in DOMAIN fs, NEW p \in Nat, s # <<>> => s[1] = <<f, p>>,
         NEW c \in 0 .. Len(s), p + c <= 5 + fs[f],
         NEW t, t = SubSeq(s, c + 1, Len(s))
  PROVE  LeftAt(fs, s, t, f, p + c)
<1>1. Len(s) \in Nat /\ c + 1 \in 1 .. Len(s) + 1 /\ fs[f] \in Nat /\ f \in Nat
  BY StreamIsSeq
<1>2. /\ t \in Streams(fs)
      /\ Len(t) = (IF c + 1 <= Len(s) THEN Len(s) - (c + 1) + 1 ELSE 0)
      /\ \A i \in 1 .. Len(t) : t[i] = s[i + (c + 1) - 1]
  <2>. DEFINE B == BytesOf(fs)
  <2>1. t \in Streams(fs)
    <3>1. Len(s) <= Len(s)
      BY <1>1
    <3>. QED BY <1>1, <3>1, PieceIsStream, Zenon
  <2>2. s \in Seq(B)
    BY StreamIsSeq
  <2>. HIDE DEF B
  <2>. QED BY <1>1, <2>1, <2>2
<1>3. s # <<>> => \A d \in 0 .. Len(s) - 1 :
                    /\ p + d <= 4 + fs[f] => s[1 + d] = <<f, p + d>>
                    /\ p + d = 5 + fs[f] => s[1 + d] = <<f + 1, 1>>
  BY <1>1, WhatFollows
<1>4. Len(t) = Len(s) - c /\ (t = <<>> <=> c = Len(s)) /\ (s = <<>> <=> Len(s) = 0)
  <2>2. (t = <<>> <=> Len(t) = 0) /\ (s = <<>> <=> Len(s) = 0)
    BY <1>2, StreamIsSeq
  <2>. QED BY <1>1, <1>2, <2>2
<1>5. ASSUME t # <<>>
      PROVE  /\ t[1] = IF p + c = 5 + fs[f] THEN <<f + 1, 1>> ELSE <<f, p + c>>
             /\ t[Len(t)] = s[Len(s)]
  <2>1. c \in 0 .. Len(s) - 1 /\ s # <<>> /\ 1 \in 1 .. Len(t) /\ Len(t) \in 1 .. Len(t)
    BY <1>1, <1>4, <1>5
  <2>2. t[1] = s[1 + (c + 1) - 1] /\ t[Len(t)] = s[Len(t) + (c + 1) - 1]
    BY <1>2, <2>1
  <2>3. 1 + (c + 1) - 1 = 1 + c /\ Len(t) + (c + 1) - 1 = Len(s)
    BY <1>1, <1>4
  <2>4. p + c <= 4 + fs[f] \/ p + c = 5 + fs[f]
    BY <1>1
  <2>5. /\ p + c <= 4 + fs[f] => s[1 + c] = <<f, p + c>>
        /\ p + c = 5 + fs[f] => s[1 + c] = <<f + 1, 1>>
    BY <1>3, <2>1
  <2>6. ~(p + c <= 4 + fs[f] /\ p + c = 5 + fs[f])
    BY <1>1
  <2>. QED BY <2>2, <2>3, <2>4, <2>5, <2>6
<1>6. ASSUME t = <<>>, s # <<>>, NEW N, s[Len(s)] = <<N, 4 + fs[N]>>
      PROVE  f = N /\ p + c = 5 + fs[f]
  <2>1. c = Len(s) /\ c - 1 \in 0 .. Len(s) - 1 /\ 1 + (c - 1) = Len(s) /\ p + (c - 1) <= 4 + fs[f]
    <3>1. c = Len(s) /\ Len(s) \in Nat /\ Len(s) # 0 /\ fs[f] \in Nat
      BY <1>1, <1>4, <1>6
    <3>. QED BY <3>1
  <2>2. s[1 + (c - 1)] = <<f, p + (c - 1)>>
    BY <1>3, <1>6, <2>1
  <2>3. f = N /\ p + (c - 1) = 4 + fs[N]
    BY <1>6, <2>1, <2>2
  <2>. QED BY <1>1, <2>1, <2>3
<1>. QED BY <1>2, <1>5, <1>6 DEF LeftAt

\* Dropping the front of the buffer drops the front of what is ahead.
LEMMA FrontOfAhead ==
  ASSUME NEW S, NEW u \in Seq(S), NEW v \in Seq(S), NEW c \in 0 .. Len(u)
  PROVE  SubSeq(u, c + 1, Len(u)) \o v = SubSeq(u \o v, c + 1, Len(u \o v))
<1>. DEFINE w == u \o v
            x == SubSeq(u, c + 1, Len(u))
<1>1. /\ w \in Seq(S) /\ Len(w) = Len(u) + Len(v)
      /\ \A i \in 1 .. Len(u) : w[i] = u[i]
      /\ \A i \in 1 .. Len(v) : w[Len(u) + i] = v[i]
  BY ConcatProperties
<1>2. x \in Seq(S) /\ Len(x) = Len(u) - c /\ \A i \in 1 .. Len(u) - c : x[i] = u[i + c]
  OBVIOUS
<1>. HIDE DEF w, x
<1>3. /\ x \o v \in Seq(S) /\ Len(x \o v) = Len(u) - c + Len(v)
      /\ \A i \in 1 .. Len(u) - c : (x \o v)[i] = u[i + c]
      /\ \A i \in 1 .. Len(v) : (x \o v)[Len(u) - c + i] = v[i]
  <2>1. /\ x \o v \in Seq(S) /\ Len(x \o v) = Len(x) + Len(v)
        /\ \A i \in 1 .. Len(x) : (x \o v)[i] = x[i]
        /\ \A i \in 1 .. Len(v) : (x \o v)[Len(x) + i] = v[i]
    <3>1. x \in Seq(S) /\ v \in Seq(S)
      BY <1>2
    <3>. QED BY <3>1, ConcatProperties, SMT
  <2>. QED BY <1>2, <2>1
<1>. DEFINE y == SubSeq(w, c + 1, Len(w))
            z == x \o v
<1>4. y \in Seq(S) /\ Len(y) = Len(w) - c /\ \A i \in 1 .. Len(w) - c : y[i] = w[i + c]
  BY <1>1
<1>5. z \in Seq(S) /\ Len(z) = Len(y)
  BY <1>1, <1>3, <1>4
<1>6. ASSUME NEW i \in 1 .. Len(z) PROVE z[i] = y[i]
  <2>0. Len(u) \in Nat /\ Len(v) \in Nat /\ i \in 1 .. Len(w) - c /\ y[i] = w[i + c]
    BY <1>4, <1>5
  <2>1. CASE i <= Len(u) - c
    BY <1>1, <1>3, <1>4, <2>0, <2>1
  <2>2. CASE i > Len(u) - c
    <3>. DEFINE k == i - (Len(u) - c)
    <3>1. k \in 1 .. Len(v) /\ Len(u) - c + k = i /\ Len(u) + k = i + c
      BY <1>1, <2>0, <2>2
    <3>. HIDE DEF k, z
    <3>2. z[i] = v[k] /\ w[i + c] = v[k]
      BY <1>1, <1>3, <3>1 DEF z
    <3>. QED BY <2>0, <3>2
  <2>. QED BY <2>0, <2>1, <2>2
<1>. HIDE DEF y, z
<1>7. z = y
  BY <1>4, <1>5, <1>6, SeqEqual
<1>. QED BY <1>7 DEF w, x, y, z

-----------------------------------------------------------------------------
(* The receiver stays in step with the stream *)

\* No text is empty: recv takes a length of 0 for none, and the frame leaves no trace.
FramesHaveText == TCPSocketAssumption /\ 0 \notin Lengths

LEMMA InitInStep == ASSUME FramesHaveText, Init PROVE ReceiveInStep
<1>. USE DEF Init
<1>0. /\ <<>> \in Seq(Lengths) /\ <<>> \in Seq(SendSizes) /\ <<>> \in Seq(Nat \X Nat)
      /\ <<>> \in Seq(Seq(Nat \X Nat)) /\ BufSize \in Nat /\ Len(<<>>) = 0
  BY DEF FramesHaveText, TCPSocketAssumption
<1>1. TypeOK
  BY <1>0 DEF TypeOK, NoWrite
<1>2. NothingHeldBack /\ MessageInPlace
  BY DEF NothingHeldBack, MessageInPlace, InMessage, InRecv
<1>3. ReceivedWhole
  BY DEF ReceivedWhole
<1>4. Ahead = <<>>
  BY DEF Ahead
<1>5. <<>> \in Streams(<<>>)
  <2>1. Unbroken(<<>>, <<>>)
    BY DEF Unbroken
  <2>. QED BY <2>1 DEF Streams
<1>6. StreamInPlace
  BY <1>0, <1>4, <1>5 DEF StreamInPlace, InMessage, InRecv
<1>. QED BY <1>1, <1>2, <1>3, <1>6 DEF ReceiveInStep

\* The steps that cut what is ahead, or leave it, and the place of the receiver in it.
LEMMA CutStaysInPlace ==
  ASSUME StreamInPlace, receiver # "ended", UNCHANGED <<frames, NextByte>>,
         NEW n \in 0 .. Len(Ahead), Ahead' = SubSeq(Ahead, 1, n),
         peer' # "up" \/ socket' = "none"
  PROVE  StreamInPlace'
<1>. DEFINE a == Ahead
            S == Streams(frames)
<1>1. a \in S /\ (a # <<>> => a[1] = NextByte)
  BY DEF StreamInPlace
<1>2. SubSeq(a, 1, n) \in S
  <2>1. \A fs : \A s \in Streams(fs) : \A b \in 0 .. Len(s) : SubSeq(s, 1, b) \in Streams(fs)
    BY StreamIsSeq, PieceIsStream
  <2>. QED BY <1>1, <2>1
<1>3. SubSeq(a, 1, n) # <<>> => SubSeq(a, 1, n)[1] = a[1] /\ a # <<>>
  <2>1. \A fs : \A s \in Streams(fs) : \A b \in 0 .. Len(s) :
          SubSeq(s, 1, b) # <<>> => SubSeq(s, 1, b)[1] = s[1] /\ s # <<>>
    <3>. SUFFICES ASSUME NEW fs, NEW s \in Streams(fs), NEW b \in 0 .. Len(s),
                         SubSeq(s, 1, b) # <<>>
                  PROVE  SubSeq(s, 1, b)[1] = s[1] /\ s # <<>>
      OBVIOUS
    <3>. DEFINE B == BytesOf(fs)
    <3>1. s \in Seq(B)
      BY StreamIsSeq
    <3>. HIDE DEF B
    <3>. QED BY <3>1
  <2>. QED BY <1>1, <2>1
<1>. QED BY <1>1, <1>2, <1>3 DEF StreamInPlace

\* l is what is left of frame f, of a text of length n, when k bytes are unsent.
IsRest(l, f, n, k) ==
  /\ l \in Seq(Nat \X Nat) /\ Len(l) = k
  /\ \A i \in 1 .. k : l[i][1] = f /\ l[i][2] = (n + 4) - k + i

LEMMA BytesLeft ==
  ASSUME NEW f \in Nat, NEW n \in Nat, NEW k \in 1 .. n + 4,
         NEW l, l = SubSeq(Bytes(f, n), (n + 4) - k + 1, n + 4)
  PROVE  IsRest(l, f, n, k)
<1>. DEFINE b == Bytes(f, n)
<1>1. b = [i \in 1 .. 4 + n |-> <<f, i>>]
  BY DEF Bytes
<1>. HIDE DEF b
<1>2. \A i \in 1 .. 4 + n : <<f, i>> \in Nat \X Nat
  OBVIOUS
<1>3. b \in Seq(Nat \X Nat) /\ Len(b) = 4 + n /\ \A i \in 1 .. 4 + n : b[i] = <<f, i>>
  BY <1>1, <1>2
<1>. DEFINE a == (n + 4) - k
<1>4. a \in Nat /\ a + k = n + 4 /\ k \in Nat \ {0}
  OBVIOUS
<1>. HIDE DEF a
<1>5. l = SubSeq(b, a + 1, a + k)
  BY <1>4 DEF a, b
<1>6. l \in Seq(Nat \X Nat) /\ Len(l) = k /\ \A i \in 1 .. k : l[i] = b[a + i]
  <2>1. a + 1 \in 1 .. Len(b) + 1 /\ a + k \in 0 .. Len(b) /\ a + 1 <= a + k
    BY <1>3, <1>4
  <2>2. l \in Seq(Nat \X Nat)
    <3>1. \A i \in a + 1 .. a + k : b[i] \in Nat \X Nat
      <4>. SUFFICES ASSUME NEW i \in a + 1 .. a + k PROVE b[i] \in Nat \X Nat
        OBVIOUS
      <4>1. i \in 1 .. 4 + n
        BY <1>4
      <4>. QED BY <1>2, <1>3, <4>1
    <3>2. a + 1 \in Int /\ a + k \in Int
      BY <1>4
    <3>3. SubSeq(b, a + 1, a + k) \in Seq(Nat \X Nat)
      BY <3>1, <3>2, SubSeqProperties
    <3>. QED BY <1>5, <3>3
  <2>3. Len(l) = k
    BY <1>3, <1>4, <1>5, <2>1
  <2>4. ASSUME NEW i \in 1 .. k PROVE l[i] = b[a + i]
    BY <1>3, <1>4, <1>5, <2>1
  <2>. QED BY <2>2, <2>3, <2>4
<1>7. ASSUME NEW i \in 1 .. k PROVE l[i] = <<f, a + i>>
  <2>1. a + i \in 1 .. 4 + n
    BY <1>4
  <2>. QED BY <1>3, <1>6, <2>1
<1>8. \A i \in 1 .. k : l[i][1] = f /\ l[i][2] = a + i
  BY <1>7
<1>. QED BY <1>6, <1>8 DEF a, IsRest

\* The bytes still to be written are the last of the message.
LEMMA LeftIsTheRest ==
  ASSUME SendSizes \subseteq Nat, sends \in Seq(SendSizes), WireSoFar, Sending,
         NEW f, f = Len(sends)
  PROVE  /\ f \in DOMAIN sends /\ f \in Nat /\ sends[f] \in Nat /\ unsent.size \in 1 .. sends[f] + 4
         /\ IsRest(Left, f, sends[f], unsent.size)
<1>1. sends # <<>> /\ unsent.size \in 1 .. sends[f] + 4
  BY DEF WireSoFar
<1>2. f \in 1 .. Len(sends) /\ DOMAIN sends = 1 .. Len(sends) /\ Len(sends) \in Nat
  BY <1>1
<1>3. sends[f] \in SendSizes /\ sends[f] \in Nat
  <2>1. \A i \in 1 .. Len(sends) : sends[i] \in SendSizes
    OBVIOUS
  <2>. QED BY <1>2, <2>1, Zenon
<1>4. ASSUME NEW n \in Nat, n = sends[f], NEW k \in 1 .. n + 4, k = unsent.size,
             NEW l, l = Left
      PROVE  IsRest(l, f, n, k)
  <2>1. l = SubSeq(Bytes(f, n), (n + 4) - k + 1, n + 4)
    BY <1>4 DEF Left
  <2>2. f \in Nat
    BY <1>2
  <2>. QED BY <1>4, <2>1, <2>2, BytesLeft, Zenon
<1>. QED BY <1>1, <1>2, <1>3, <1>4

\* What send works on: the texts, the rest of the one under way and the bytes written.
OutboundTyped ==
  sends \in Seq(SendSizes) /\ wire \in Seq(Nat \X Nat) /\ unsent \in [size : Nat, ret : Nat]

LEMMA SendKeepsTypes ==
  ASSUME TCPSocketAssumption, OutboundTyped, WireSoFar, SendMessage \/ Write
  PROVE  OutboundTyped'
<1>0. /\ sends \in Seq(SendSizes) /\ wire \in Seq(Nat \X Nat)
      /\ unsent \in [size : Nat, ret : Nat] /\ SendSizes \subseteq Nat
  BY DEF OutboundTyped, TCPSocketAssumption
<1>. USE DEF OutboundTyped
<1>1. CASE SendMessage
  <2>1. PICK n \in SendSizes : sends' = Append(sends, n) /\ unsent' = [size |-> n + 4, ret |-> 0]
    BY <1>1 DEF SendMessage
  <2>2. UNCHANGED wire
    BY <1>1 DEF SendMessage
  <2>. QED BY <1>0, <2>1, <2>2
<1>2. CASE Write
  <2>1. UNCHANGED sends /\ Sending
    BY <1>2 DEF Write
  <2>2. unsent' \in [size : Nat, ret : Nat]
    BY <1>0, <1>2 DEF Write, NoWrite
  <2>3. CASE UNCHANGED wire
    BY <1>0, <2>1, <2>2, <2>3
  <2>4. CASE ~UNCHANGED wire
    <3>1. PICK n \in 1 .. unsent.size : wire' = wire \o SubSeq(Left, 1, n)
      BY <1>2, <2>4 DEF Write
    <3>4. Left \in Seq(Nat \X Nat) /\ Len(Left) = unsent.size
      BY <1>0, <2>1, LeftIsTheRest DEF IsRest
    <3>5. wire' \in Seq(Nat \X Nat)
      BY <1>0, <3>1, <3>4
    <3>. QED BY <1>0, <2>1, <2>2, <3>5
  <2>. QED BY <2>3, <2>4
<1>. QED BY <1>1, <1>2

\* The steps of send leave the receiver alone.
LEMMA SendKeepsInStep ==
  ASSUME FramesHaveText, ReceiveInStep, WireSoFar, SendMessage \/ Write
  PROVE  ReceiveInStep'
<1>1. /\ UNCHANGED <<socket, peer, frames, stream, receiver, readBuf, length, message,
                     received>>
  BY DEF SendMessage, Write, inbound
<1>2. sends' \in Seq(SendSizes) /\ wire' \in Seq(Nat \X Nat) /\ unsent' \in [size : Nat, ret : Nat]
  BY SendKeepsTypes DEF OutboundTyped, ReceiveInStep, TypeOK, FramesHaveText
<1>3. TypeOK'
  BY <1>1, <1>2 DEF ReceiveInStep, TypeOK
<1>4. NothingHeldBack' /\ MessageInPlace' /\ StreamInPlace' /\ ReceivedWhole'
  BY <1>1 DEF ReceiveInStep, NothingHeldBack, MessageInPlace, StreamInPlace,
     ReceivedWhole, InMessage, InRecv, Ahead, NextByte
<1>. QED BY <1>3, <1>4 DEF ReceiveInStep

\* The parts of ReceiveInStep that do not look at the stream, in the steps of the server
\* and of close, which leave the receiver alone.
LEMMA OthersKeepReceiver ==
  ASSUME FramesHaveText, ReceiveInStep,
         UNCHANGED <<receiver, readBuf, length, message, received, unsent, wire, sends>>,
         socket' \in {"open", "shut", "none"}, peer' \in {"up", "ended", "reset"},
         stream' \in Seq(Nat \X Nat),
         frames' = frames \/ \E n \in Lengths : frames' = Append(frames, n)
  PROVE  /\ TypeOK' /\ NothingHeldBack' /\ MessageInPlace' /\ ReceivedWhole'
         /\ NextByte' = NextByte
<1>1. /\ frames \in Seq(Lengths) /\ frames' \in Seq(Lengths)
      /\ Len(frames) \in Nat /\ Len(frames') \in Nat /\ Len(frames) <= Len(frames')
      /\ \A f \in 1 .. Len(frames) : frames'[f] = frames[f]
  <2>1. frames \in Seq(Lengths)
    BY DEF ReceiveInStep, TypeOK
  <2>2. CASE frames' = frames
    BY <2>1, <2>2
  <2>3. CASE \E n \in Lengths : frames' = Append(frames, n)
    BY <2>1, <2>3
  <2>. QED BY <2>2, <2>3
<1>2. TypeOK'
  BY <1>1 DEF ReceiveInStep, TypeOK
<1>3. NothingHeldBack'
  BY DEF ReceiveInStep, NothingHeldBack
<1>4. MessageInPlace'
  <2>1. Len(received) \in Nat
    BY DEF ReceiveInStep, TypeOK
  <2>2. InRecv' = InRecv /\ InMessage' = InMessage
    BY DEF InRecv, InMessage
  <2>3. CASE ~InMessage
    BY <2>2, <2>3 DEF ReceiveInStep, MessageInPlace
  <2>4. CASE InMessage
    <3>1. /\ Len(received) < Len(frames) /\ length = frames[Len(received) + 1]
          /\ Len(message) < length /\ message = Text(Len(received) + 1, Len(message))
      BY <2>4 DEF ReceiveInStep, MessageInPlace
    <3>2. Len(received) < Len(frames') /\ length = frames'[Len(received) + 1]
      <4>1. Len(received) + 1 \in 1 .. Len(frames)
        BY <1>1, <2>1, <3>1
      <4>. QED BY <1>1, <2>1, <3>1, <4>1
    <3>3. InRecv /\ length > 0
      BY <2>4 DEF InMessage
    <3>4. (InRecv /\ length = 0 => message = <<>>)
      BY DEF ReceiveInStep, MessageInPlace
    <3>. QED BY <2>2, <3>1, <3>2, <3>4 DEF MessageInPlace, Text
  <2>. QED BY <2>3, <2>4
<1>5. ReceivedWhole'
  <2>1. DOMAIN frames = 1 .. Len(frames) /\ DOMAIN frames' = 1 .. Len(frames')
    BY <1>1
  <2>2. \A i \in DOMAIN received : i \in DOMAIN frames' /\ frames'[i] = frames[i]
    <3>1. \A i \in DOMAIN received : i \in 1 .. Len(frames)
      BY <2>1 DEF ReceiveInStep, ReceivedWhole
    <3>2. \A i \in 1 .. Len(frames) : i \in 1 .. Len(frames')
      BY <1>1
    <3>. QED BY <1>1, <2>1, <3>1, <3>2
  <2>. QED BY <2>2 DEF ReceiveInStep, ReceivedWhole
<1>6. NextByte' = NextByte
  BY DEF NextByte, InMessage, InRecv
<1>. QED BY <1>2, <1>3, <1>4, <1>5, <1>6

\* A frame more leaves the streams of the others what they are.
LEMMA StreamGrows ==
  ASSUME NEW fs \in Seq(Nat), NEW n \in Nat, NEW gs, gs = Append(fs, n), NEW s \in Streams(fs)
  PROVE  s \in Streams(gs)
<1>. DEFINE B == BytesOf(fs)
            C == BytesOf(gs)
<1>1. /\ DOMAIN gs = 1 .. Len(fs) + 1 /\ DOMAIN fs = 1 .. Len(fs) /\ Len(fs) \in Nat
      /\ \A f \in 1 .. Len(fs) : gs[f] = fs[f]
  OBVIOUS
<1>2. \A x \in B : x \in Nat \X Nat /\ x[1] \in 1 .. Len(fs) /\ x[2] \in 1 .. 4 + fs[x[1]]
  BY <1>1 DEF BytesOf
<1>3. B \subseteq C
  <2>. SUFFICES ASSUME NEW x \in B PROVE x \in C
    OBVIOUS
  <2>1. x \in Nat \X Nat /\ x[1] \in 1 .. Len(fs) /\ x[2] \in 1 .. 4 + fs[x[1]]
    BY <1>2
  <2>2. x[1] \in DOMAIN gs /\ gs[x[1]] = fs[x[1]]
    BY <1>1, <2>1
  <2>. QED BY <2>1, <2>2 DEF BytesOf
<1>4. s \in Seq(B) /\ Unbroken(s, fs)
  BY DEF Streams
<1>. HIDE DEF B, C
<1>5. s \in Seq(C) /\ \A i \in 1 .. Len(s) : s[i] \in B
  BY <1>3, <1>4
<1>6. \A i \in 1 .. Len(s) : gs[s[i][1]] = fs[s[i][1]]
  BY <1>1, <1>2, <1>5
<1>7. ASSUME NEW i \in 1 .. Len(s), NEW d \in 0 .. Len(s) - i
      PROVE  /\ s[i][2] + d <= 4 + gs[s[i][1]] => s[i + d] = <<s[i][1], s[i][2] + d>>
             /\ s[i][2] + d = 5 + gs[s[i][1]] => s[i + d] = <<s[i][1] + 1, 1>>
  <2>1. /\ s[i][2] + d <= 4 + fs[s[i][1]] => s[i + d] = <<s[i][1], s[i][2] + d>>
        /\ s[i][2] + d = 5 + fs[s[i][1]] => s[i + d] = <<s[i][1] + 1, 1>>
    BY <1>4 DEF Unbroken
  <2>. QED BY <1>6, <2>1
<1>8. Unbroken(s, gs)
  BY <1>7 DEF Unbroken
<1>. QED BY <1>5, <1>8 DEF C, Streams

LEMMA ServerSendsKeepsInStep ==
  ASSUME FramesHaveText, ReceiveInStep, ServerSends
  PROVE  ReceiveInStep'
<1>0. /\ frames \in Seq(Lengths) /\ Lengths \subseteq Nat /\ Len(frames) \in Nat
      /\ stream \in Seq(Nat \X Nat) /\ readBuf \in Seq(Nat \X Nat)
      /\ Len(received) \in Nat
  BY DEF FramesHaveText, TCPSocketAssumption, ReceiveInStep, TypeOK
<1>1. PICK n \in Lengths : /\ frames' = Append(frames, n)
                           /\ stream' = stream \o Bytes(Len(frames'), n)
  BY DEF ServerSends
<1>2. /\ UNCHANGED <<socket, peer, receiver, readBuf, length, message, received,
                     unsent, wire, sends>>
      /\ peer = "up"
  BY DEF ServerSends, outbound
<1>. DEFINE N == Len(frames')
            b == Bytes(N, n)
<1>3. n \in Nat /\ N = Len(frames) + 1 /\ N \in Nat /\ frames \in Seq(Nat)
  <2>1. n \in Nat
    BY <1>0
  <2>2. Len(frames') = Len(frames) + 1
    BY <1>0, <1>1
  <2>3. frames \in Seq(Nat)
    BY <1>0, SeqMonotonic
  <2>. QED BY <1>0, <2>1, <2>2, <2>3
<1>4. b \in Seq(Nat \X Nat)
  <2>1. b = [i \in 1 .. 4 + n |-> <<N, i>>]
    BY DEF Bytes
  <2>. HIDE DEF b, N
  <2>2. \A i \in 1 .. 4 + n : <<N, i>> \in Nat \X Nat
    BY <1>3
  <2>. QED BY <1>3, <2>1, <2>2
<1>. HIDE DEF b
<1>5. stream' \in Seq(Nat \X Nat)
  BY <1>0, <1>1, <1>4 DEF b
<1>6. /\ TypeOK' /\ NothingHeldBack' /\ MessageInPlace' /\ ReceivedWhole'
      /\ NextByte' = NextByte
  <2>1. socket' \in {"open", "shut", "none"} /\ peer' \in {"up", "ended", "reset"}
    BY <1>2 DEF ReceiveInStep, TypeOK
  <2>. QED BY <1>1, <1>2, <1>5, <2>1, OthersKeepReceiver
<1>7. ASSUME receiver # "ended", socket = "none"
      PROVE  StreamInPlace'
  <2>1. Ahead' = Ahead
    BY <1>2, <1>7 DEF Ahead
  <2>2. Ahead \in Streams(frames) /\ (Ahead # <<>> => Ahead[1] = NextByte)
    BY <1>7 DEF ReceiveInStep, StreamInPlace
  <2>3. ASSUME NEW fs, fs = frames, NEW gs, gs = frames', NEW a, a = Ahead
        PROVE  a \in Streams(gs)
    BY <1>1, <1>3, <2>2, <2>3, StreamGrows
  <2>. QED BY <1>2, <1>6, <1>7, <2>1, <2>2, <2>3 DEF StreamInPlace
<1>8. ASSUME receiver # "ended", socket # "none"
      PROVE  StreamInPlace'
  <2>1. Ahead' = Ahead \o b
    <3>1. (readBuf \o stream) \o b = readBuf \o (stream \o b)
      <4>. DEFINE D == Nat \X Nat
      <4>1. readBuf \in Seq(D) /\ stream \in Seq(D) /\ b \in Seq(D)
        BY <1>0, <1>4
      <4>. HIDE DEF D
      <4>. QED BY <4>1, ConcatAssociative
    <3>. QED BY <1>1, <1>2, <1>8, <3>1 DEF Ahead, b
  <2>2. /\ Ahead \in Streams(frames) /\ (Ahead # <<>> => Ahead[1] = NextByte)
        /\ IF Ahead = <<>> THEN ~InMessage /\ Len(received) = Len(frames)
           ELSE Ahead[Len(Ahead)] = <<Len(frames), 4 + frames[Len(frames)]>>
    BY <1>2, <1>8 DEF ReceiveInStep, StreamInPlace
  <2>3. ASSUME NEW fs, fs = frames, NEW gs, gs = frames', NEW a, a = Ahead,
               NEW t, t = Ahead'
        PROVE  GoesOn(a, t, gs)
    <3>1. /\ fs \in Seq(Nat) /\ gs = Append(fs, n) /\ a \in Streams(fs)
          /\ a # <<>> => a[Len(a)] = <<Len(fs), 4 + fs[Len(fs)]>>
      BY <1>1, <1>3, <2>2, <2>3
    <3>2. t = a \o Bytes(Len(gs), n)
      BY <2>1, <2>3 DEF b
    <3>. QED BY <1>3, <3>1, <3>2, FrameGoesOn
  <2>4. Ahead = <<>> => NextByte = <<N, 1>>
    BY <1>3, <2>2 DEF NextByte
  <2>5. GoesOn(Ahead, Ahead', frames')
    BY <2>3
  <2>6. Ahead'[1] = NextByte'
    BY <1>6, <2>2, <2>5, <2>4 DEF GoesOn
  <2>. QED BY <2>5, <2>6 DEF StreamInPlace, GoesOn
<1>9. CASE receiver = "ended"
  BY <1>2, <1>6, <1>9 DEF ReceiveInStep, StreamInPlace
<1>. QED BY <1>6, <1>7, <1>8, <1>9 DEF ReceiveInStep

\* Cutting the tail of the network cuts the tail of what is ahead.
LEMMA TailOfAhead ==
  ASSUME NEW D, NEW u \in Seq(D), NEW v \in Seq(D), NEW n \in 0 .. Len(v)
  PROVE  /\ u \o SubSeq(v, 1, n) = SubSeq(u \o v, 1, Len(u) + n)
         /\ u = SubSeq(u \o v, 1, Len(u))
         /\ Len(u) + n \in 0 .. Len(u \o v) /\ Len(u) \in 0 .. Len(u \o v)
<1>. DEFINE w == u \o v
            x == SubSeq(v, 1, n)
            y == SubSeq(w, 1, Len(u) + n)
            z == SubSeq(w, 1, Len(u))
            t == u \o x
<1>1. /\ w \in Seq(D) /\ Len(w) = Len(u) + Len(v) /\ Len(u) \in Nat /\ Len(v) \in Nat
      /\ \A i \in 1 .. Len(u) + Len(v) : w[i] = IF i <= Len(u) THEN u[i] ELSE v[i - Len(u)]
  BY ConcatProperties
<1>2. x \in Seq(D) /\ Len(x) = n /\ \A i \in 1 .. n : x[i] = v[i]
  OBVIOUS
<1>. HIDE DEF w, x
<1>3. /\ t \in Seq(D) /\ Len(t) = Len(u) + n
      /\ \A i \in 1 .. Len(u) + n : t[i] = IF i <= Len(u) THEN u[i] ELSE x[i - Len(u)]
  <2>1. /\ t \in Seq(D) /\ Len(t) = Len(u) + Len(x)
        /\ \A i \in 1 .. Len(u) + Len(x) : t[i] = IF i <= Len(u) THEN u[i] ELSE x[i - Len(u)]
    BY <1>2, ConcatProperties
  <2>. QED BY <1>2, <2>1
<1>4. /\ y \in Seq(D) /\ Len(y) = Len(u) + n /\ \A i \in 1 .. Len(u) + n : y[i] = w[i]
      /\ z \in Seq(D) /\ Len(z) = Len(u) /\ \A i \in 1 .. Len(u) : z[i] = w[i]
  BY <1>1
<1>. HIDE DEF y, z, t
<1>5. t = y
  <2>1. ASSUME NEW i \in 1 .. Len(t) PROVE t[i] = y[i]
    <3>1. i \in 1 .. Len(u) + n /\ i \in 1 .. Len(u) + Len(v) /\ y[i] = w[i]
      BY <1>1, <1>3, <1>4
    <3>2. i > Len(u) => i - Len(u) \in 1 .. n
      BY <1>1, <3>1
    <3>3. w[i] = (IF i <= Len(u) THEN u[i] ELSE v[i - Len(u)])
      BY <1>1, <3>1
    <3>4. t[i] = (IF i <= Len(u) THEN u[i] ELSE x[i - Len(u)])
      BY <1>3, <3>1
    <3>5. i > Len(u) => x[i - Len(u)] = v[i - Len(u)]
      BY <1>2, <3>2
    <3>6. i <= Len(u) \/ i > Len(u)
      BY <1>1, <3>1
    <3>. QED BY <3>1, <3>3, <3>4, <3>5, <3>6
  <2>. QED BY <1>3, <1>4, <2>1, SeqEqual
<1>6. u = z
  <2>1. ASSUME NEW i \in 1 .. Len(u) PROVE u[i] = z[i]
    BY <1>1, <1>4
  <2>. QED BY <1>4, <2>1, SeqEqual
<1>. QED BY <1>1, <1>5, <1>6 DEF t, y, z, w, x

LEMMA TypesInStep ==
  ASSUME FramesHaveText, ReceiveInStep
  PROVE  /\ frames \in Seq(Lengths) /\ frames \in Seq(Nat) /\ Len(frames) \in Nat
         /\ Lengths \subseteq Nat \ {0}
         /\ stream \in Seq(Nat \X Nat) /\ readBuf \in Seq(Nat \X Nat)
         /\ message \in Seq(Nat \X Nat) /\ received \in Seq(Seq(Nat \X Nat))
         /\ Len(received) \in Nat /\ Len(readBuf) \in Nat /\ Len(message) \in Nat
         /\ Len(stream) \in Nat /\ length \in Nat
         /\ DOMAIN frames = 1 .. Len(frames) /\ \A f \in 1 .. Len(frames) : frames[f] \in Lengths
         /\ BufSize \in Nat /\ Len(readBuf) <= BufSize
<1>1. /\ frames \in Seq(Lengths) /\ Lengths \subseteq Nat \ {0}
      /\ stream \in Seq(Nat \X Nat) /\ readBuf \in Seq(Nat \X Nat)
      /\ message \in Seq(Nat \X Nat) /\ received \in Seq(Seq(Nat \X Nat))
      /\ length \in Lengths \cup {0} /\ BufSize \in Nat /\ Len(readBuf) <= BufSize
  BY DEF FramesHaveText, TCPSocketAssumption, ReceiveInStep, TypeOK
<1>2. frames \in Seq(Nat)
  BY <1>1, SeqMonotonic
<1>. QED BY <1>1, <1>2

LEMMA ConnectionEndsKeepsInStep ==
  ASSUME FramesHaveText, ReceiveInStep,
         ServerEnds \/ Shutdown \/ CloseDescriptor
  PROVE  ReceiveInStep'
<1>. DEFINE D == Nat \X Nat
<1>0. stream \in Seq(D) /\ readBuf \in Seq(D) /\ Len(stream) \in Nat
  BY TypesInStep
<1>1. /\ UNCHANGED <<receiver, readBuf, length, message, received, unsent, wire, sends,
                     frames>>
      /\ socket' \in {"open", "shut", "none"} /\ peer' \in {"up", "ended", "reset"}
  BY DEF ServerEnds, Shutdown, CloseDescriptor, inbound, outbound,
     ReceiveInStep, TypeOK
<1>. HIDE DEF D
<1>2. \/ stream' = stream
      \/ ServerEnds /\ \E n \in 0 .. Len(stream) : stream' = SubSeq(stream, 1, n)
  BY DEF ServerEnds, Shutdown, CloseDescriptor, inbound
<1>3. stream' \in Seq(D)
  BY <1>0, <1>2
<1>4. /\ TypeOK' /\ NothingHeldBack' /\ MessageInPlace' /\ ReceivedWhole'
      /\ NextByte' = NextByte
  BY <1>1, <1>3, OthersKeepReceiver DEF D
<1>5. StreamInPlace'
  <2>1. CASE receiver = "ended"
    BY <1>1, <2>1 DEF StreamInPlace
  <2>2. CASE receiver # "ended" /\ Shutdown
    <3>1. Ahead' = Ahead /\ socket # "none" /\ socket' # "none" /\ UNCHANGED peer
      BY <1>1, <2>2 DEF Shutdown, Ahead, inbound
    <3>. QED BY <1>1, <1>4, <2>2, <3>1 DEF ReceiveInStep, StreamInPlace, InMessage,
            InRecv
  <2>3. CASE receiver # "ended" /\ CloseDescriptor
    <3>1. Ahead = readBuf \o stream /\ Ahead' = readBuf /\ socket' = "none"
      BY <1>1, <2>3 DEF CloseDescriptor, Ahead
    <3>2. Len(readBuf) \in 0 .. Len(Ahead) /\ readBuf = SubSeq(Ahead, 1, Len(readBuf))
      <4>1. 0 \in 0 .. Len(stream)
        BY <1>0
      <4>. QED BY <1>0, <3>1, <4>1, TailOfAhead
    <3>. QED BY <1>1, <1>4, <2>3, <3>1, <3>2, CutStaysInPlace DEF ReceiveInStep
  <2>4. CASE receiver # "ended" /\ ServerEnds
    <3>0. peer' # "up" /\ UNCHANGED socket
      BY <2>4 DEF ServerEnds
    <3>1. PICK n \in 0 .. Len(stream) : stream' = SubSeq(stream, 1, n)
      BY <2>4 DEF ServerEnds
    <3>2. \E m \in 0 .. Len(Ahead) : Ahead' = SubSeq(Ahead, 1, m)
      <4>1. CASE socket = "none"
        <5>1. Ahead = readBuf /\ Ahead' = readBuf
          BY <1>1, <3>0, <4>1 DEF Ahead
        <5>2. Len(readBuf) \in 0 .. Len(readBuf) /\ SubSeq(readBuf, 1, Len(readBuf)) = readBuf
          BY <1>0
        <5>. QED BY <5>1, <5>2, Zenon
      <4>2. CASE socket # "none"
        <5>1. Ahead = readBuf \o stream /\ Ahead' = readBuf \o SubSeq(stream, 1, n)
          BY <1>1, <3>0, <3>1, <4>2 DEF Ahead
        <5>2. /\ readBuf \o SubSeq(stream, 1, n) = SubSeq(readBuf \o stream, 1, Len(readBuf) + n)
              /\ Len(readBuf) + n \in 0 .. Len(readBuf \o stream)
          BY <1>0, TailOfAhead
        <5>. QED BY <5>1, <5>2, Zenon
      <4>. QED BY <4>1, <4>2
    <3>. QED BY <1>1, <1>4, <2>4, <3>0, <3>2, CutStaysInPlace DEF ReceiveInStep
  <2>. QED BY <2>1, <2>2, <2>3, <2>4
<1>. QED BY <1>4, <1>5 DEF ReceiveInStep

LEMMA EnterRecvKeepsInStep ==
  ASSUME FramesHaveText, ReceiveInStep, EnterRecv
  PROVE  ReceiveInStep'
<1>1. /\ UNCHANGED <<socket, peer, frames, stream, readBuf, received, unsent, wire, sends>>
      /\ receiver = "idle"
      /\ \/ receiver' = "ended" /\ UNCHANGED <<length, message>>
         \/ receiver' = "parse" /\ length' = 0 /\ message' = <<>>
  BY DEF EnterRecv, outbound
<1>2. TypeOK'
  <2>1. <<>> \in Seq(Nat \X Nat) /\ Len(<<>>) = 0
    OBVIOUS
  <2>2. /\ length' \in Lengths \cup {0} /\ message' \in Seq(Nat \X Nat) /\ Len(message') <= length'
    <3>1. /\ length \in Lengths \cup {0} /\ message \in Seq(Nat \X Nat) /\ Len(message) <= length
      BY DEF ReceiveInStep, TypeOK
    <3>2. CASE UNCHANGED <<length, message>>
      BY <3>1, <3>2
    <3>3. CASE length' = 0 /\ message' = <<>>
      BY <2>1, <3>3
    <3>. QED BY <1>1, <3>2, <3>3
  <2>. QED BY <1>1, <2>2 DEF ReceiveInStep, TypeOK
<1>3. NothingHeldBack' /\ ReceivedWhole'
  BY <1>1 DEF ReceiveInStep, NothingHeldBack, ReceivedWhole
<1>4. MessageInPlace' /\ ~InMessage /\ ~InMessage'
  BY <1>1 DEF MessageInPlace, InMessage, InRecv
<1>5. Ahead' = Ahead /\ NextByte' = NextByte
  BY <1>1, <1>4 DEF Ahead, NextByte
<1>6. StreamInPlace'
  BY <1>1, <1>4, <1>5 DEF ReceiveInStep, StreamInPlace
<1>. QED BY <1>2, <1>3, <1>4, <1>6 DEF ReceiveInStep

\* The receiver goes from ::recv to the top of its loop, with all that was ahead.
LEMMA BackToParse ==
  ASSUME ReceiveInStep, receiver = "read", receiver' = "parse",
         UNCHANGED <<frames, length, message, received, socket, peer>>, Ahead' = Ahead
  PROVE  NothingHeldBack' /\ MessageInPlace' /\ StreamInPlace' /\ ReceivedWhole'
BY DEF ReceiveInStep, NothingHeldBack, MessageInPlace, StreamInPlace,
   ReceivedWhole, InMessage, InRecv, NextByte

LEMMA ReadBytesKeepsInStep ==
  ASSUME FramesHaveText, ReceiveInStep, ReadBytes
  PROVE  ReceiveInStep'
<1>. DEFINE D == Nat \X Nat
<1>0. /\ stream \in Seq(D) /\ readBuf \in Seq(D) /\ Len(stream) \in Nat /\ Len(readBuf) \in Nat
      /\ BufSize \in Nat
  BY TypesInStep
<1>. HIDE DEF D
<1>1. /\ UNCHANGED <<socket, peer, frames, length, message, received, unsent, wire, sends>>
      /\ receiver = "read" /\ receiver' = "parse" /\ socket # "none"
  BY DEF ReadBytes, outbound
<1>2. PICK n \in 1 .. BufSize - Len(readBuf) :
        /\ n <= Len(stream)
        /\ readBuf' = readBuf \o SubSeq(stream, 1, n)
        /\ stream' = SubSeq(stream, n + 1, Len(stream))
  BY DEF ReadBytes
<1>. DEFINE x == SubSeq(stream, 1, n)
            y == SubSeq(stream, n + 1, Len(stream))
<1>3. n \in 1 .. Len(stream)
  BY <1>0, <1>2
<1>4. x \in Seq(D) /\ Len(x) = n /\ y \in Seq(D) /\ x \o y = stream
  <2>1. x \in Seq(D) /\ Len(x) = n /\ \A i \in 1 .. n : x[i] = stream[i]
    BY <1>0, <1>3
  <2>2. /\ y \in Seq(D) /\ Len(y) = Len(stream) - n
        /\ \A i \in 1 .. Len(stream) - n : y[i] = stream[n + i]
    BY <1>0, <1>3
  <2>. DEFINE z == x \o y
  <2>. HIDE DEF x, y
  <2>3. /\ z \in Seq(D) /\ Len(z) = Len(x) + Len(y)
        /\ \A i \in 1 .. Len(x) + Len(y) : z[i] = IF i <= Len(x) THEN x[i] ELSE y[i - Len(x)]
    BY <2>1, <2>2, ConcatProperties
  <2>. HIDE DEF z
  <2>4. ASSUME NEW i \in 1 .. Len(z) PROVE z[i] = stream[i]
    <3>1. i \in Nat /\ i \in 1 .. Len(stream) /\ i \in 1 .. Len(x) + Len(y) /\ Len(x) = n
      BY <1>0, <1>3, <2>1, <2>2, <2>3
    <3>2. CASE i <= n
      <4>1. i \in 1 .. n /\ z[i] = x[i]
        BY <2>3, <3>1, <3>2
      <4>. QED BY <2>1, <4>1
    <3>3. CASE i > n
      <4>1. i - n \in 1 .. Len(stream) - n /\ n + (i - n) = i /\ z[i] = y[i - n]
        BY <1>3, <2>3, <3>1, <3>3
      <4>. QED BY <2>2, <4>1
    <3>. QED BY <1>3, <3>1, <3>2, <3>3
  <2>5. Len(z) = Len(stream)
    BY <1>0, <1>3, <2>1, <2>2, <2>3
  <2>6. z = stream
    BY <1>0, <2>3, <2>4, <2>5, SeqEqual
  <2>. QED BY <2>1, <2>2, <2>6 DEF z
<1>. HIDE DEF x, y
<1>5. readBuf' \in Seq(D) /\ Len(readBuf') = Len(readBuf) + n /\ stream' \in Seq(D)
  BY <1>0, <1>2, <1>4 DEF x, y
<1>6. TypeOK'
  <2>1. Len(readBuf') <= BufSize
    BY <1>0, <1>2, <1>5
  <2>. QED BY <1>1, <1>5, <2>1 DEF ReceiveInStep, TypeOK, D
<1>7. Ahead' = Ahead
  <2>1. (readBuf \o x) \o y = readBuf \o (x \o y)
    <3>1. readBuf \in Seq(D) /\ x \in Seq(D) /\ y \in Seq(D)
      BY <1>0, <1>4
    <3>. QED BY <3>1, ConcatAssociative
  <2>. QED BY <1>1, <1>2, <1>4, <2>1 DEF Ahead, x, y
<1>8. NothingHeldBack' /\ MessageInPlace' /\ StreamInPlace' /\ ReceivedWhole'
  BY <1>1, <1>7, BackToParse
<1>. QED BY <1>6, <1>8 DEF ReceiveInStep

LEMMA ReadEndKeepsInStep ==
  ASSUME FramesHaveText, ReceiveInStep, ReadEnd
  PROVE  ReceiveInStep'
<1>1. /\ UNCHANGED <<socket, peer, frames, stream, readBuf, length, message, received,
                     unsent, wire, sends>>
      /\ receiver = "read" /\ receiver' \in {"ended", "parse"}
  BY DEF ReadEnd, outbound
<1>2. TypeOK'
  BY <1>1 DEF ReceiveInStep, TypeOK
<1>3. CASE receiver' = "parse"
  BY <1>1, <1>2, <1>3, BackToParse DEF ReceiveInStep, Ahead
<1>4. CASE receiver' = "ended"
  BY <1>1, <1>2, <1>4 DEF ReceiveInStep, NothingHeldBack, MessageInPlace,
     StreamInPlace, ReceivedWhole, InMessage, InRecv
<1>. QED BY <1>1, <1>3, <1>4

\* A failed ::recv takes a byte off the buffer, which then is all that is ahead.
LEMMA ReadErrorKeepsInStep ==
  ASSUME FramesHaveText, ReceiveInStep, ReadError
  PROVE  ReceiveInStep'
<1>. DEFINE D == Nat \X Nat
<1>0. stream \in Seq(D) /\ readBuf \in Seq(D) /\ Len(readBuf) \in Nat
  BY TypesInStep
<1>. HIDE DEF D
<1>1. /\ UNCHANGED <<frames, stream, length, message, received, unsent, wire, sends>>
      /\ receiver = "read" /\ receiver' \in {"ended", "parse"}
      /\ \/ peer = "reset" /\ stream = <<>> /\ peer' = "ended"
         \/ socket = "none" /\ UNCHANGED peer
      /\ socket' \in {"none", socket}
      /\ \/ readBuf' = readBuf
         \/ readBuf' = SubSeq(readBuf, 1, Len(readBuf) - 1) /\ readBuf # <<>>
      /\ receiver' = "parse" =>
           /\ readBuf # <<>> /\ readBuf' = SubSeq(readBuf, 1, Len(readBuf) - 1)
           /\ UNCHANGED socket
  BY DEF ReadError, outbound
<1>2. readBuf' \in Seq(D) /\ Len(readBuf') <= Len(readBuf) /\ Len(readBuf') \in Nat
  BY <1>0, <1>1
<1>3. TypeOK'
  <2>1. socket' \in {"open", "shut", "none"} /\ peer' \in {"up", "ended", "reset"}
    BY <1>1 DEF ReceiveInStep, TypeOK
  <2>2. Len(readBuf') <= BufSize
    BY <1>0, <1>2, TypesInStep
  <2>. QED BY <1>1, <1>2, <2>1, <2>2 DEF ReceiveInStep, TypeOK, D
<1>4. CASE receiver' = "ended"
  BY <1>1, <1>3, <1>4 DEF ReceiveInStep, NothingHeldBack, MessageInPlace,
     StreamInPlace, ReceivedWhole, InMessage, InRecv
<1>5. CASE receiver' = "parse"
  <2>1. NothingHeldBack' /\ MessageInPlace' /\ ReceivedWhole'
        /\ UNCHANGED NextByte
    BY <1>1, <1>5 DEF ReceiveInStep, NothingHeldBack, MessageInPlace,
       ReceivedWhole, InMessage, InRecv, NextByte
  <2>2. Ahead = readBuf /\ Ahead' = readBuf'
    <3>1. CASE socket = "none"
      BY <1>1, <1>5, <3>1 DEF Ahead
    <3>2. CASE stream = <<>>
      <4>1. readBuf \o <<>> = readBuf /\ readBuf' \o <<>> = readBuf'
        BY <1>0, <1>2
      <4>. QED BY <1>1, <3>2, <4>1 DEF Ahead
    <3>. QED BY <1>1, <3>1, <3>2
  <2>3. Len(readBuf) - 1 \in 0 .. Len(Ahead)
        /\ Ahead' = SubSeq(Ahead, 1, Len(readBuf) - 1)
    BY <1>0, <1>1, <1>5, <2>2
  <2>4. peer' # "up" \/ socket' = "none"
    BY <1>1, <1>5
  <2>5. StreamInPlace'
    BY <1>1, <2>1, <2>3, <2>4, CutStaysInPlace DEF ReceiveInStep
  <2>. QED BY <1>3, <2>1, <2>5 DEF ReceiveInStep
<1>. QED BY <1>1, <1>4, <1>5

-----------------------------------------------------------------------------
(* One turn of recv's loop *)

\* b goes on with h bytes of a stream a taken, k of them the text of frame f from its
\* m-th byte on; p is the place of the first byte of a.
HoldsText(fs, a, f, p, h, m, b, k) ==
  /\ fs \in Seq(Nat) /\ a \in Streams(fs) /\ f \in DOMAIN fs
  /\ p \in Nat /\ h \in Nat /\ m \in Nat /\ k \in Nat /\ Len(b) \in Nat
  /\ p + h = 5 + m /\ h + k <= Len(a) /\ m + k <= fs[f] /\ k <= Len(b)
  /\ a # <<>> => a[1] = <<f, p>>
  /\ \A i \in 1 .. k : b[i] = a[h + i]

TextGoesOn(f, m, b, k) ==
  /\ Text(f, m) \o SubSeq(b, 1, k) = Text(f, m + k)
  /\ Text(f, m + k) \in Seq(Nat \X Nat) /\ Len(Text(f, m + k)) = m + k

LEMMA TakenIsText ==
  ASSUME NEW fs, NEW a, NEW f, NEW p, NEW h, NEW m, NEW b, NEW k,
         HoldsText(fs, a, f, p, h, m, b, k)
  PROVE  TextGoesOn(f, m, b, k)
<1>h. /\ fs \in Seq(Nat) /\ a \in Streams(fs) /\ f \in DOMAIN fs
      /\ p \in Nat /\ h \in Nat /\ m \in Nat /\ k \in Nat /\ Len(b) \in Nat
      /\ p + h = 5 + m /\ h + k <= Len(a) /\ m + k <= fs[f] /\ k <= Len(b)
  BY DEF HoldsText
<1>ab. (a # <<>> => a[1] = <<f, p>>) /\ \A i \in 1 .. k : b[i] = a[h + i]
  BY DEF HoldsText
<1>. DEFINE D == Nat \X Nat
            u == Text(f, m)
            v == SubSeq(b, 1, k)
            w == Text(f, m + k)
            z == u \o v
<1>0. Len(a) \in Nat /\ (a = <<>> <=> Len(a) = 0) /\ f \in Nat /\ fs[f] \in Nat
  BY <1>h, StreamIsSeq
<1>q. a # <<>> => \A d \in 0 .. Len(a) - 1 :
                    /\ p + d <= 4 + fs[f] => a[1 + d] = <<f, p + d>>
                    /\ p + d = 5 + fs[f] => a[1 + d] = <<f + 1, 1>>
  <2>1. a # <<>> => FollowsOn(fs, a, f, p)
    BY <1>0, <1>h, <1>ab, ByteFollows, Zenon
  <2>. QED BY <2>1 DEF FollowsOn
<1>1. ASSUME NEW i \in 1 .. k PROVE b[i] = <<f, m + i + 4>>
  <2>1. a # <<>> /\ h + i - 1 \in 0 .. Len(a) - 1
    BY <1>0, <1>h
  <2>3. p + (h + i - 1) = m + i + 4 /\ m + i + 4 <= 4 + fs[f] /\ 1 + (h + i - 1) = h + i
    BY <1>0, <1>h
  <2>4. p + (h + i - 1) <= 4 + fs[f] => a[1 + (h + i - 1)] = <<f, p + (h + i - 1)>>
    BY <1>q, <2>1
  <2>. QED BY <1>ab, <2>3, <2>4
<1>2. u = [i \in 1 .. m |-> <<f, i + 4>>] /\ w = [i \in 1 .. m + k |-> <<f, i + 4>>]
  BY DEF Text
<1>4. \A i \in 1 .. m + k : <<f, i + 4>> \in D
  BY <1>0, <1>h
<1>b. \A i \in 1 .. k : b[i] \in D
  <2>. SUFFICES ASSUME NEW i \in 1 .. k PROVE b[i] \in D
    OBVIOUS
  <2>1. m + i \in 1 .. m + k /\ (m + i) + 4 = m + i + 4
    BY <1>h
  <2>2. <<f, (m + i) + 4>> \in D
    BY <1>4, <2>1
  <2>. HIDE DEF D
  <2>. QED BY <1>1, <2>1, <2>2
<1>. HIDE DEF D
<1>v. v \in Seq(D) /\ Len(v) = k /\ \A i \in 1 .. k : v[i] = b[i]
  <2>0. k \in Nat
    BY <1>h
  <2>1. 1 \in Int /\ k \in Int /\ \A i \in 1 .. k : b[i] \in D
    BY <1>b, <2>0
  <2>2. /\ v \in Seq(D)
        /\ 1 <= k => (Len(v) = k - 1 + 1 /\ \A i \in 1 .. k - 1 + 1 : v[i] = b[1 + i - 1])
        /\ 1 > k => v = <<>>
    BY <2>1, SubSeqProperties
  <2>3. CASE k >= 1
    <3>1. Len(v) = k
      BY <2>0, <2>2, <2>3
    <3>2. ASSUME NEW i \in 1 .. k PROVE v[i] = b[i]
      <4>1. i \in 1 .. k - 1 + 1 /\ 1 + i - 1 = i
        BY <2>0
      <4>. HIDE DEF v
      <4>. QED BY <2>2, <2>3, <4>1
    <3>. QED BY <2>2, <3>1, <3>2
  <2>4. CASE k = 0
    <3>1. v = <<>>
      BY <2>2, <2>4
    <3>. HIDE DEF v
    <3>. QED BY <2>2, <2>4, <3>1
  <2>. QED BY <2>0, <2>3, <2>4
<1>. HIDE DEF u, v, w
<1>n. m \in Nat /\ k \in Nat
  BY <1>h
<1>5. /\ u \in Seq(D) /\ Len(u) = m /\ w \in Seq(D) /\ Len(w) = m + k
      /\ \A i \in 1 .. m : u[i] = <<f, i + 4>>
      /\ \A i \in 1 .. m + k : w[i] = <<f, i + 4>>
  BY <1>n, <1>2, <1>4
<1>6. \A i \in 1 .. k : v[i] = <<f, m + i + 4>>
  BY <1>1, <1>v
<1>uv. u \in Seq(D) /\ v \in Seq(D)
  BY <1>5, <1>v
<1>7. /\ z \in Seq(D) /\ Len(z) = Len(u) + Len(v)
      /\ \A i \in 1 .. Len(u) + Len(v) : z[i] = IF i <= Len(u) THEN u[i] ELSE v[i - Len(u)]
  BY <1>uv, ConcatProperties
<1>. HIDE DEF z
<1>8. Len(z) = m + k
  BY <1>5, <1>v, <1>7
<1>l. \A i \in 1 .. m + k : z[i] = IF i <= m THEN u[i] ELSE v[i - m]
  BY <1>5, <1>v, <1>7
<1>9. ASSUME NEW i \in 1 .. Len(z) PROVE z[i] = w[i]
  <2>1. i \in 1 .. m + k /\ i \in Nat
    BY <1>n, <1>8
  <2>w. w[i] = <<f, i + 4>>
    BY <1>5, <2>1
  <2>2. CASE i <= m
    <3>1. z[i] = u[i] /\ i \in 1 .. m
      BY <1>n, <1>l, <2>1, <2>2
    <3>2. u[i] = <<f, i + 4>>
      BY <1>5, <3>1
    <3>. QED BY <2>w, <3>1, <3>2
  <2>3. CASE i > m
    <3>0. ~(i <= m) /\ i - m \in 1 .. k /\ m + (i - m) + 4 = i + 4
      BY <1>n, <2>1, <2>3
    <3>1. z[i] = v[i - m]
      BY <1>l, <2>1, <3>0
    <3>2. v[i - m] = <<f, m + (i - m) + 4>>
      BY <1>6, <3>0
    <3>. QED BY <2>w, <3>0, <3>1, <3>2
  <2>. QED BY <1>n, <2>1, <2>2, <2>3
<1>10. z = w
  BY <1>5, <1>7, <1>8, <1>9, SeqEqual
<1>. QED BY <1>5, <1>10 DEF z, u, v, w, D, TextGoesOn

\* b is u without its first h elements.
IsShifted(D, u, h, b) ==
  b \in Seq(D) /\ Len(b) = Len(u) - h /\ \A i \in 1 .. Len(u) - h : b[i] = u[h + i]

LEMMA ShiftedOnce ==
  ASSUME NEW D, NEW u \in Seq(D), NEW h \in 0 .. Len(u)
  PROVE  IsShifted(D, u, h, SubSeq(u, h + 1, Len(u)))
BY DEF IsShifted

\* Taking h bytes off the front and then k is taking h + k.
SameRest(b, k, u, n) == SubSeq(b, k + 1, Len(b)) = SubSeq(u, n + 1, Len(u))

LEMMA ShiftedTwice ==
  ASSUME NEW D, NEW u \in Seq(D), NEW h \in 0 .. Len(u), NEW k \in 0 .. Len(u) - h,
         NEW b, IsShifted(D, u, h, b)
  PROVE  SameRest(b, k, u, h + k)
<1>. DEFINE x == SubSeq(b, k + 1, Len(b))
            y == SubSeq(u, (h + k) + 1, Len(u))
<1>0. Len(u) \in Nat /\ h \in Nat /\ k \in Nat /\ h + k <= Len(u)
  OBVIOUS
<1>1. /\ b \in Seq(D) /\ Len(b) = Len(u) - h /\ \A i \in 1 .. Len(u) - h : b[i] = u[h + i]
  BY DEF IsShifted
<1>2. x \in Seq(D) /\ Len(x) = Len(u) - (h + k) /\ \A i \in 1 .. Len(u) - (h + k) : x[i] = b[k + i]
  <2>1. k \in 0 .. Len(b) /\ Len(b) - k = Len(u) - (h + k)
    BY <1>0, <1>1
  <2>2. IsShifted(D, b, k, x)
    BY <1>1, <2>1, ShiftedOnce
  <2>. QED BY <2>1, <2>2 DEF IsShifted
<1>3. y \in Seq(D) /\ Len(y) = Len(u) - (h + k) /\ \A i \in 1 .. Len(u) - (h + k) : y[i] = u[(h + k) + i]
  BY <1>0
<1>. HIDE DEF x, y
<1>4. ASSUME NEW i \in 1 .. Len(x) PROVE x[i] = y[i]
  <2>1. i \in 1 .. Len(u) - (h + k) /\ k + i \in 1 .. Len(u) - h /\ h + (k + i) = (h + k) + i
    BY <1>0, <1>2
  <2>. QED BY <1>1, <1>2, <1>3, <2>1
<1>5. x = y
  BY <1>2, <1>3, <1>4, SeqEqual
<1>. QED BY <1>5 DEF x, y, SameRest

\* The front of the buffer is the front of what is ahead.
LEMMA BufferIsAhead ==
  ASSUME FramesHaveText, ReceiveInStep
  PROVE  /\ Len(Ahead) \in Nat /\ Len(readBuf) <= Len(Ahead)
         /\ \A i \in 1 .. Len(readBuf) : Ahead[i] = readBuf[i]
         /\ readBuf # <<>> => Ahead # <<>>
<1>. DEFINE D == Nat \X Nat
<1>0. readBuf \in Seq(D) /\ stream \in Seq(D) /\ Len(readBuf) \in Nat /\ Len(stream) \in Nat
  BY TypesInStep
<1>. HIDE DEF D
<1>1. CASE socket = "none"
  BY <1>0, <1>1 DEF Ahead
<1>2. CASE socket # "none"
  <2>1. Ahead = readBuf \o stream
    BY <1>2 DEF Ahead
  <2>2. \A u \in Seq(D) : \A v \in Seq(D) :
          /\ Len(u \o v) = Len(u) + Len(v)
          /\ \A i \in 1 .. Len(u) : (u \o v)[i] = u[i]
          /\ u # <<>> => u \o v # <<>>
    OBVIOUS
  <2>. QED BY <1>0, <2>1, <2>2
<1>. QED BY <1>1, <1>2

\* A length that is in front of the buffer is that of the frame after those returned.
LEMMA LengthIsOfNextFrame ==
  ASSUME FramesHaveText, ReceiveInStep, receiver = "parse", HasLength,
         NEW F, F = Len(received) + 1
  PROVE  /\ F \in 1 .. Len(frames) /\ LengthInBuf = frames[F] /\ frames[F] \in Nat \ {0}
         /\ message = <<>> /\ readBuf # <<>> /\ Ahead # <<>> /\ Ahead[1] = <<F, 1>>
<1>1. length = 0 /\ Len(readBuf) >= 4 /\ Len(readBuf) \in Nat /\ readBuf \in Seq(Nat \X Nat)
  BY TypesInStep DEF HasLength
<1>2. readBuf # <<>> /\ 1 \in 1 .. Len(readBuf)
  BY <1>1
<1>3. Ahead # <<>> /\ Ahead[1] = readBuf[1]
  BY <1>2, BufferIsAhead
<1>4. message = <<>> /\ NextByte = <<F, 1>>
  BY <1>1 DEF ReceiveInStep, MessageInPlace, InRecv, InMessage, NextByte
<1>5. Ahead \in Streams(frames) /\ Ahead[1] = <<F, 1>>
  BY <1>3, <1>4 DEF ReceiveInStep, StreamInPlace
<1>6. ASSUME NEW fs, fs = frames, NEW a, a = Ahead
      PROVE  F \in DOMAIN fs
  <2>1. a \in Seq(BytesOf(fs)) /\ a # <<>> /\ a[1] = <<F, 1>>
    BY <1>3, <1>5, <1>6, StreamIsSeq
  <2>2. a[1] \in BytesOf(fs)
    <3>. DEFINE B == BytesOf(fs)
    <3>1. a \in Seq(B) /\ a # <<>>
      BY <2>1
    <3>. HIDE DEF B
    <3>2. a[1] \in B
      BY <3>1
    <3>. QED BY <3>2 DEF B
  <2>. QED BY <2>1, <2>2 DEF BytesOf
<1>7. F \in 1 .. Len(frames) /\ frames[F] \in Lengths /\ frames[F] \in Nat \ {0}
  BY <1>6, TypesInStep
<1>8. LengthInBuf = frames[F]
  BY <1>3, <1>5 DEF LengthInBuf
<1>. QED BY <1>2, <1>3, <1>4, <1>5, <1>7, <1>8

\* Where a turn of the loop begins: in front of it are h bytes of the length of frame F,
\* then its text from the m-th byte on; p is the place in its frame of the byte ahead.
TurnAt(F, m, h, p) ==
  /\ F \in 1 .. Len(frames) /\ LengthNow = frames[F] /\ frames[F] \in Nat
  /\ m \in Nat /\ m < frames[F] /\ message = Text(F, m)
  /\ h \in Nat /\ h <= Len(readBuf) /\ p \in Nat /\ p + h = 5 + m
  /\ Ahead # <<>> => Ahead[1] = <<F, p>>
  /\ BufNow = SubSeq(readBuf, h + 1, Len(readBuf))
  /\ InMessage \/ Ahead # <<>>

LEMMA TurnBegins ==
  ASSUME FramesHaveText, ReceiveInStep, receiver = "parse", LengthNow # 0,
         NEW F, F = Len(received) + 1, NEW m, m = Len(message),
         NEW h, h = IF HasLength THEN 4 ELSE 0, NEW p, p = IF length > 0 THEN 5 + m ELSE 1
  PROVE  TurnAt(F, m, h, p)
<1>0. Len(readBuf) \in Nat /\ length \in Nat /\ readBuf \in Seq(Nat \X Nat)
  BY TypesInStep
<1>1. CASE HasLength
  <2>1. /\ F \in 1 .. Len(frames) /\ LengthInBuf = frames[F] /\ frames[F] \in Nat \ {0}
        /\ message = <<>> /\ Ahead # <<>> /\ Ahead[1] = <<F, 1>>
    BY <1>1, LengthIsOfNextFrame
  <2>2. length = 0 /\ Len(readBuf) >= 4 /\ h = 4 /\ p = 1 /\ m = 0
    BY <1>1, <2>1 DEF HasLength
  <2>3. Text(F, 0) = <<>>
    BY DEF Text
  <2>4. LengthNow = frames[F] /\ BufNow = SubSeq(readBuf, h + 1, Len(readBuf))
    BY <1>1, <2>1, <2>2 DEF LengthNow, BufNow
  <2>5. /\ m \in Nat /\ m < frames[F] /\ message = Text(F, m)
        /\ h \in Nat /\ h <= Len(readBuf) /\ p \in Nat /\ p + h = 5 + m
    BY <1>0, <2>1, <2>2, <2>3
  <2>. QED BY <2>1, <2>2, <2>4, <2>5 DEF TurnAt
<1>2. CASE ~HasLength
  <2>1. length > 0 /\ LengthNow = length /\ h = 0 /\ p = 5 + m
    BY <1>0, <1>2 DEF LengthNow
  <2>2. InMessage
    BY <2>1 DEF InMessage, InRecv
  <2>3. /\ F - 1 < Len(frames) /\ length = frames[F] /\ m < length /\ message = Text(F, m)
    BY <2>2, TypesInStep DEF ReceiveInStep, MessageInPlace
  <2>4. Ahead # <<>> => Ahead[1] = <<F, p>>
    BY <2>1, <2>2 DEF ReceiveInStep, StreamInPlace, NextByte
  <2>5. F \in 1 .. Len(frames) /\ m \in Nat
    BY <2>3, TypesInStep
  <2>6. BufNow = SubSeq(readBuf, h + 1, Len(readBuf))
    BY <1>0, <1>2, <2>1 DEF BufNow
  <2>7. frames[F] \in Nat /\ h \in Nat /\ h <= Len(readBuf) /\ p \in Nat /\ p + h = 5 + m
    <3>1. Len(readBuf) \in Nat /\ length \in Nat
      BY <1>0
    <3>2. frames[F] \in Nat
      BY <2>3, <3>1
    <3>3. h \in Nat /\ h <= Len(readBuf)
      BY <2>1, <3>1
    <3>4. p \in Nat /\ p + h = 5 + m
      BY <2>1, <2>5
    <3>. QED BY <3>2, <3>3, <3>4
  <2>. QED BY <2>1, <2>2, <2>3, <2>4, <2>5, <2>6, <2>7 DEF TurnAt
<1>. QED BY <1>1, <1>2

\* What one turn of the loop takes: h + k bytes off the front of what is ahead, k of them
\* text, all that the buffer has or all that the message lacks.
LEMMA TurnTakes ==
  ASSUME FramesHaveText, ReceiveInStep, Parse, LengthNow # 0,
         NEW F, F = Len(received) + 1, NEW m, m = Len(message),
         NEW h, h = IF HasLength THEN 4 ELSE 0,
         NEW k, k = Taken(BufNow, LengthNow - Len(message))
  PROVE  /\ k \in Nat /\ h + k <= Len(readBuf) /\ m + k <= frames[F]
         /\ m + k = frames[F] \/ h + k = Len(readBuf)
         /\ message' = Text(F, m + k) /\ message' \in Seq(Nat \X Nat) /\ Len(message') = m + k
         /\ readBuf' \in Seq(Nat \X Nat) /\ Len(readBuf') = Len(readBuf) - (h + k)
         /\ Ahead' = SubSeq(Ahead, (h + k) + 1, Len(Ahead))
         /\ h + k <= Len(Ahead)
<1>. DEFINE p == IF length > 0 THEN 5 + m ELSE 1
            D == Nat \X Nat
<1>r. receiver = "parse" /\ UNCHANGED <<socket, stream>>
  BY DEF Parse
<1>1. /\ F \in 1 .. Len(frames) /\ LengthNow = frames[F] /\ frames[F] \in Nat
      /\ m \in Nat /\ m < frames[F] /\ message = Text(F, m)
      /\ h \in Nat /\ h <= Len(readBuf) /\ p \in Nat /\ p + h = 5 + m
      /\ Ahead # <<>> => Ahead[1] = <<F, p>>
      /\ BufNow = SubSeq(readBuf, h + 1, Len(readBuf))
  <2>1. \A q : q = p => TurnAt(F, m, h, q)
    BY <1>r, TurnBegins
  <2>. HIDE DEF p
  <2>. QED BY <2>1 DEF TurnAt
<1>. HIDE DEF p, D
<1>0. /\ readBuf \in Seq(D) /\ stream \in Seq(D) /\ Len(readBuf) \in Nat
  BY TypesInStep DEF D
<1>n. /\ h \in Nat /\ m \in Nat /\ Len(readBuf) \in Nat /\ frames[F] \in Nat
      /\ h <= Len(readBuf) /\ m < frames[F]
  BY <1>0, <1>1
<1>s. readBuf \in Seq(D)
  BY <1>0
<1>b. ASSUME NEW b, b = BufNow
      PROVE  /\ IsShifted(D, readBuf, h, b)
             /\ Len(b) = Len(readBuf) - h /\ Len(b) \in Nat
             /\ \A i \in 1 .. Len(readBuf) - h : b[i] = readBuf[h + i]
  <2>1. h \in 0 .. Len(readBuf)
    BY <1>n
  <2>2. IsShifted(D, readBuf, h, SubSeq(readBuf, h + 1, Len(readBuf)))
    BY <1>s, <2>1, ShiftedOnce, Zenon
  <2>3. IsShifted(D, readBuf, h, b)
    BY <1>1, <1>b, <2>2
  <2>. QED BY <1>n, <2>3 DEF IsShifted
<1>2. /\ k \in Nat /\ h + k <= Len(readBuf) /\ m + k <= frames[F]
      /\ m + k = frames[F] \/ h + k = Len(readBuf)
      /\ k <= Len(BufNow)
  <2>1. Len(BufNow) = Len(readBuf) - h
    BY <1>b
  <2>2. k = IF Len(readBuf) - h < frames[F] - m THEN Len(readBuf) - h ELSE frames[F] - m
    BY <1>1, <2>1 DEF Taken
  <2>. QED BY <1>n, <2>1, <2>2
<1>3. readBuf' = Shifted(BufNow, k) /\ message' = message \o SubSeq(BufNow, 1, k)
  BY DEF Parse
<1>4. /\ readBuf' = SubSeq(readBuf, (h + k) + 1, Len(readBuf))
      /\ readBuf' \in Seq(D) /\ Len(readBuf') = Len(readBuf) - (h + k)
  <2>1. SubSeq(BufNow, k + 1, Len(BufNow)) = SubSeq(readBuf, (h + k) + 1, Len(readBuf))
    <3>1. h \in 0 .. Len(readBuf) /\ k \in 0 .. Len(readBuf) - h
      BY <1>n, <1>2
    <3>2. ASSUME NEW b, b = BufNow
          PROVE  SameRest(b, k, readBuf, h + k)
      <4>1. IsShifted(D, readBuf, h, b)
        BY <1>b, <3>2
      <4>. QED BY <1>s, <3>1, <4>1, ShiftedTwice
    <3>. QED BY <3>2 DEF SameRest
  <2>2. readBuf' = SubSeq(readBuf, (h + k) + 1, Len(readBuf))
    BY <1>3, <2>1 DEF Shifted
  <2>3. IsShifted(D, readBuf, h + k, readBuf')
    <3>1. h + k \in 0 .. Len(readBuf)
      BY <1>n, <1>2
    <3>. QED BY <1>s, <2>2, <3>1, ShiftedOnce
  <2>. QED BY <2>2, <2>3 DEF IsShifted
<1>5. /\ Ahead' = SubSeq(Ahead, (h + k) + 1, Len(Ahead))
      /\ h + k <= Len(Ahead)
  <2>0. h + k \in 0 .. Len(readBuf)
    BY <1>n, <1>2
  <2>1. CASE socket = "none"
    BY <1>r, <1>4, <2>0, <2>1 DEF Ahead
  <2>2. CASE socket # "none"
    <3>1. Ahead = readBuf \o stream /\ Ahead' = readBuf' \o stream
      BY <1>r, <2>2 DEF Ahead
    <3>2. SubSeq(readBuf, (h + k) + 1, Len(readBuf)) \o stream
            = SubSeq(readBuf \o stream, (h + k) + 1, Len(readBuf \o stream))
      BY <1>0, <2>0, FrontOfAhead
    <3>3. Len(Ahead) \in Nat /\ Len(readBuf) <= Len(Ahead)
      BY BufferIsAhead
    <3>4. h + k <= Len(Ahead)
      BY <1>n, <1>2, <3>3
    <3>5. readBuf' = SubSeq(readBuf, (h + k) + 1, Len(readBuf))
      BY <1>4
    <3>. QED BY <3>1, <3>2, <3>4, <3>5
  <2>. QED BY <2>1, <2>2
<1>6. ASSUME NEW b, b = BufNow, NEW fs, fs = frames, NEW a, a = Ahead
      PROVE  /\ Text(F, m) \o SubSeq(b, 1, k) = Text(F, m + k)
             /\ Text(F, m + k) \in Seq(Nat \X Nat) /\ Len(Text(F, m + k)) = m + k
  <2>1. fs \in Seq(Nat) /\ F \in DOMAIN fs
    BY <1>1, <1>6, TypesInStep
  <2>2. a \in Streams(fs)
    BY <1>6, <1>r DEF ReceiveInStep, StreamInPlace
  <2>3. a # <<>> => a[1] = <<F, p>>
    BY <1>1, <1>6
  <2>4. /\ h + k <= Len(a) /\ m + k <= fs[F] /\ Len(b) \in Nat /\ k <= Len(b)
    BY <1>2, <1>5, <1>6, <1>b
  <2>5. \A i \in 1 .. k : b[i] = a[h + i]
    <3>. SUFFICES ASSUME NEW i \in 1 .. k PROVE b[i] = a[h + i]
      OBVIOUS
    <3>1. i \in 1 .. Len(readBuf) - h /\ h + i \in 1 .. Len(readBuf)
      <4>1. Len(readBuf) \in Nat
        BY <1>0
      <4>. QED BY <1>1, <1>2, <4>1
    <3>2. b[i] = readBuf[h + i]
      BY <1>6, <1>b, <3>1
    <3>3. a[h + i] = readBuf[h + i]
      BY <1>6, <3>1, BufferIsAhead
    <3>. QED BY <3>2, <3>3
  <2>6. /\ p \in Nat /\ h \in Nat /\ m \in Nat /\ p + h = 5 + m /\ k \in Nat
    BY <1>1, <1>2
  <2>7. ASSUME NEW q, q = p PROVE HoldsText(fs, a, F, q, h, m, b, k)
    BY <2>1, <2>2, <2>3, <2>4, <2>5, <2>6, <2>7 DEF HoldsText
  <2>8. \E q : HoldsText(fs, a, F, q, h, m, b, k)
    BY <2>7
  <2>9. TextGoesOn(F, m, b, k)
    BY <2>8, TakenIsText
  <2>. QED BY <2>9 DEF TextGoesOn
<1>7. message' = Text(F, m + k) /\ message' \in Seq(Nat \X Nat) /\ Len(message') = m + k
  BY <1>1, <1>3, <1>6
<1>. QED BY <1>2, <1>4, <1>5, <1>7 DEF D

LEMMA TurnLeaves ==
  ASSUME FramesHaveText, ReceiveInStep, Parse, LengthNow # 0,
         NEW F, F = Len(received) + 1, NEW m, m = Len(message),
         NEW h, h = IF HasLength THEN 4 ELSE 0,
         NEW k, k = Taken(BufNow, LengthNow - Len(message))
  PROVE  LeftAt(frames, Ahead, Ahead', F, 5 + m + k)
<1>. DEFINE p == IF length > 0 THEN 5 + m ELSE 1
<1>r. receiver = "parse"
  BY DEF Parse
<1>1. \A q : q = p => TurnAt(F, m, h, q)
  BY <1>r, TurnBegins
<1>2. /\ k \in Nat /\ m + k <= frames[F] /\ h + k <= Len(Ahead)
      /\ Ahead' = SubSeq(Ahead, (h + k) + 1, Len(Ahead))
  BY TurnTakes
<1>. HIDE DEF p
<1>3. ASSUME NEW q, q = p, NEW fs, fs = frames, NEW s, s = Ahead, NEW t, t = Ahead'
      PROVE  LeftAt(fs, s, t, F, 5 + m + k)
  <2>0. /\ F \in 1 .. Len(frames) /\ m \in Nat /\ h \in Nat /\ q \in Nat /\ q + h = 5 + m
        /\ Ahead # <<>> => Ahead[1] = <<F, q>>
    BY <1>1, <1>3 DEF TurnAt
  <2>1. fs \in Seq(Nat) /\ F \in DOMAIN fs /\ fs[F] \in Nat
    BY <2>0, <1>3, TypesInStep
  <2>2. s \in Streams(fs) /\ Len(s) \in Nat
    BY <1>3, <1>r, BufferIsAhead DEF ReceiveInStep, StreamInPlace
  <2>3. s # <<>> => s[1] = <<F, q>>
    BY <1>3, <2>0
  <2>4. ASSUME NEW c, c = h + k
        PROVE  LeftAt(fs, s, t, F, q + c)
    <3>0. /\ q \in Nat /\ h \in Nat /\ m \in Nat /\ k \in Nat /\ q + h = 5 + m
          /\ fs[F] \in Nat /\ m + k <= fs[F] /\ Len(s) \in Nat /\ h + k <= Len(s)
      BY <1>2, <1>3, <2>0, <2>1, <2>2
    <3>1. c \in 0 .. Len(s) /\ q + c <= 5 + fs[F]
      <4>1. \A i, j, x, y, l, n \in Nat :
              i + j = 5 + x /\ x + y <= n /\ j + y <= l => j + y \in 0 .. l /\ i + (j + y) <= 5 + n
        OBVIOUS
      <4>. QED BY <2>4, <3>0, <4>1
    <3>2. t = SubSeq(s, c + 1, Len(s))
      BY <1>2, <1>3, <2>4
    <3>3. F \in DOMAIN fs /\ q \in Nat
      BY <2>1, <3>0
    <3>. QED BY <2>1, <2>2, <2>3, <3>1, <3>2, <3>3, TakenOff
  <2>5. q + (h + k) = 5 + m + k
    <3>1. q \in Nat /\ h \in Nat /\ m \in Nat /\ k \in Nat /\ q + h = 5 + m
      BY <1>2, <2>0
    <3>. QED BY <3>1
  <2>. QED BY <2>4, <2>5
<1>. QED BY <1>3

LEMMA ParseKeepsInStep ==
  ASSUME FramesHaveText, ReceiveInStep, Parse
  PROVE  ReceiveInStep'
<1>0. /\ UNCHANGED <<socket, peer, frames, stream, unsent, wire, sends>>
      /\ receiver = "parse" /\ length' = LengthNow
  BY DEF Parse, outbound
<1>1. CASE LengthNow = 0
  <2>1. ~HasLength
    BY <1>0, <1>1, LengthIsOfNextFrame DEF LengthNow
  <2>2. length = 0 /\ Len(readBuf) < 4 /\ BufNow = readBuf
    BY <1>1, <2>1, TypesInStep DEF LengthNow, HasLength, BufNow
  <2>3. message = <<>>
    BY <1>0, <2>2 DEF ReceiveInStep, MessageInPlace, InRecv
  <2>4. /\ readBuf' = SubSeq(readBuf, 1, Len(readBuf)) /\ message' = message \o SubSeq(readBuf, 1, 0)
        /\ receiver' = "read" /\ UNCHANGED received
    BY <1>1, <2>2 DEF Parse, Shifted
  <2>5. UNCHANGED <<readBuf, message, length>>
    <3>1. \A u \in Seq(Nat \X Nat) : SubSeq(u, 1, Len(u)) = u /\ <<>> \o SubSeq(u, 1, 0) = <<>>
      OBVIOUS
    <3>2. readBuf \in Seq(Nat \X Nat)
      BY TypesInStep
    <3>. QED BY <1>0, <1>1, <2>2, <2>3, <2>4, <3>1, <3>2
  <2>6. TypeOK'
    BY <1>0, <2>4, <2>5 DEF ReceiveInStep, TypeOK
  <2>7. Ahead' = Ahead /\ NextByte' = NextByte /\ ~InMessage /\ ~InMessage'
    <3>1. ~InMessage /\ ~InMessage'
      BY <2>2, <2>5 DEF InMessage
    <3>2. NextByte' = NextByte
      BY <2>4, <3>1 DEF NextByte
    <3>3. Ahead' = Ahead
      BY <1>0, <2>5 DEF Ahead
    <3>. QED BY <3>1, <3>2, <3>3
  <2>8. NothingHeldBack' /\ MessageInPlace' /\ ReceivedWhole'
    BY <1>0, <2>2, <2>3, <2>4, <2>5, <2>7 DEF ReceiveInStep, NothingHeldBack,
       MessageInPlace, ReceivedWhole
  <2>9. StreamInPlace'
    BY <1>0, <2>4, <2>7 DEF ReceiveInStep, StreamInPlace
  <2>. QED BY <2>6, <2>8, <2>9 DEF ReceiveInStep
<1>2. ASSUME LengthNow # 0, NEW F, F = Len(received) + 1, NEW m, m = Len(message),
             NEW h, h = IF HasLength THEN 4 ELSE 0,
             NEW k, k = Taken(BufNow, LengthNow - Len(message))
      PROVE  ReceiveInStep'
  <2>1. /\ F \in 1 .. Len(frames) /\ LengthNow = frames[F] /\ frames[F] \in Nat
        /\ m \in Nat /\ m < frames[F]
        /\ InMessage \/ Ahead # <<>>
    <3>1. \A p : p = (IF length > 0 THEN 5 + m ELSE 1) => TurnAt(F, m, h, p)
      BY <1>0, <1>2, TurnBegins
    <3>. QED BY <3>1 DEF TurnAt
  <2>2. /\ k \in Nat /\ h + k <= Len(readBuf) /\ m + k <= frames[F]
        /\ m + k = frames[F] \/ h + k = Len(readBuf)
        /\ message' = Text(F, m + k) /\ message' \in Seq(Nat \X Nat) /\ Len(message') = m + k
        /\ readBuf' \in Seq(Nat \X Nat) /\ Len(readBuf') = Len(readBuf) - (h + k)
    BY <1>2, TurnTakes
  <2>3. LeftAt(frames, Ahead, Ahead', F, 5 + m + k)
    BY <1>2, TurnLeaves
  <2>4. h \in Nat /\ Len(readBuf) \in Nat /\ Len(frames) \in Nat /\ Len(received) \in Nat
    BY <1>2, TypesInStep
  <2>n. /\ m \in Nat /\ k \in Nat /\ frames[F] \in Nat /\ m < frames[F] /\ m + k <= frames[F]
        /\ Len(message') = m + k
    BY <2>1, <2>2
  <2>5. IF k > 0 /\ Len(message') = frames[F]
        THEN receiver' = "idle" /\ received' = Append(received, message')
        ELSE receiver' = "read" /\ UNCHANGED received
    BY <1>2, <2>1 DEF Parse
  <2>6. /\ receiver' \in {"idle", "read"} /\ received' \in Seq(Seq(Nat \X Nat))
    <3>1. \A r \in Seq(Seq(Nat \X Nat)) : \A t \in Seq(Nat \X Nat) :
            Append(r, t) \in Seq(Seq(Nat \X Nat))
      OBVIOUS
    <3>. QED BY <2>2, <2>5, <3>1, TypesInStep
  <2>7. TypeOK'
    <3>1. length' \in Lengths \cup {0} /\ Len(message') <= length'
      BY <1>0, <2>1, <2>2, TypesInStep
    <3>2. Len(readBuf') <= BufSize
      <4>1. BufSize \in Nat /\ Len(readBuf) <= BufSize
        BY TypesInStep
      <4>2. Len(readBuf') = Len(readBuf) - (h + k)
        BY <2>2
      <4>. QED BY <2>2, <2>4, <4>1, <4>2
    <3>. QED BY <1>0, <2>2, <2>6, <3>1, <3>2 DEF ReceiveInStep, TypeOK
  <2>8. CASE m + k = frames[F]
    <3>1. receiver' = "idle" /\ received' = Append(received, message')
      <4>1. k > 0 /\ Len(message') = frames[F]
        BY <2>n, <2>8
      <4>. QED BY <2>5, <4>1
    <3>2. ~InMessage' /\ NothingHeldBack' /\ MessageInPlace'
      BY <3>1 DEF NothingHeldBack, MessageInPlace, InMessage, InRecv
    <3>3. /\ Len(received') = F /\ received'[F] = message'
          /\ DOMAIN received' = DOMAIN received \cup {F}
          /\ \A i \in DOMAIN received : received'[i] = received[i]
      <4>. DEFINE S == Seq(Nat \X Nat)
      <4>1. received \in Seq(S) /\ message' \in S
        BY <2>2, TypesInStep
      <4>. HIDE DEF S
      <4>. QED BY <1>2, <3>1, <4>1
    <3>4. ReceivedWhole'
      <4>1. message' = Text(F, frames[F]) /\ F \in DOMAIN frames
        BY <2>1, <2>2, <2>8, TypesInStep
      <4>. QED BY <1>0, <3>3, <4>1 DEF ReceiveInStep, ReceivedWhole, Text
    <3>5. NextByte' = <<F + 1, 1>>
      BY <3>2, <3>3 DEF NextByte
    <3>6. 5 + m + k = 5 + frames[F]
      BY <2>n, <2>8
    <3>7. Ahead' # <<>> => Ahead'[1] = NextByte'
      BY <2>3, <3>5, <3>6 DEF LeftAt
    <3>8. ASSUME peer = "up", socket # "none"
          PROVE  IF Ahead' = <<>> THEN Len(received') = Len(frames)
                 ELSE Ahead'[Len(Ahead')] = <<Len(frames), 4 + frames[Len(frames)]>>
      <4>1. /\ Ahead # <<>>
            /\ Ahead[Len(Ahead)] = <<Len(frames), 4 + frames[Len(frames)]>>
        BY <1>0, <2>1, <3>8 DEF ReceiveInStep, StreamInPlace
      <4>. QED BY <2>3, <3>3, <4>1 DEF LeftAt
    <3>9. StreamInPlace'
      BY <1>0, <2>3, <3>2, <3>7, <3>8 DEF LeftAt, StreamInPlace
    <3>. QED BY <2>7, <3>2, <3>4, <3>9 DEF ReceiveInStep
  <2>9. CASE m + k # frames[F]
    <3>1. receiver' = "read" /\ UNCHANGED received /\ m + k < frames[F]
      BY <2>n, <2>5, <2>9
    <3>2. readBuf' = <<>>
      <4>1. Len(readBuf') = 0
        BY <2>2, <2>4, <2>9
      <4>. QED BY <2>2, <4>1, EmptySeq
    <3>3. length' = frames[F] /\ length' > 0 /\ Len(message') < length' /\ InMessage'
      BY <1>0, <2>1, <2>2, <3>1 DEF InMessage, InRecv
    <3>4. NothingHeldBack'
      BY <3>2, <3>3 DEF NothingHeldBack
    <3>5. MessageInPlace'
      <4>1. Len(received') + 1 = F /\ Len(received') < Len(frames')
        BY <1>0, <1>2, <2>1, <2>4, <3>1
      <4>2. message' = Text(F, Len(message'))
        BY <2>2
      <4>. QED BY <1>0, <3>3, <4>1, <4>2 DEF MessageInPlace, InMessage, Text
    <3>6. NextByte' = <<F, 5 + m + k>>
      <4>1. 5 + Len(message') = 5 + m + k
        BY <2>n
      <4>. QED BY <1>2, <3>1, <3>3, <4>1 DEF NextByte
    <3>7. 5 + m + k # 5 + frames[F]
      BY <2>n, <2>9
    <3>8. Ahead' # <<>> => Ahead'[1] = NextByte'
      BY <2>3, <3>6, <3>7 DEF LeftAt
    <3>9. ASSUME peer = "up", socket # "none"
          PROVE  /\ Ahead' # <<>>
                 /\ Ahead'[Len(Ahead')] = <<Len(frames), 4 + frames[Len(frames)]>>
      <4>1. /\ Ahead # <<>>
            /\ Ahead[Len(Ahead)] = <<Len(frames), 4 + frames[Len(frames)]>>
        BY <1>0, <2>1, <3>9 DEF ReceiveInStep, StreamInPlace
      <4>. QED BY <2>3, <3>7, <4>1 DEF LeftAt
    <3>10. StreamInPlace'
      BY <1>0, <2>3, <3>8, <3>9 DEF LeftAt, StreamInPlace
    <3>11. ReceivedWhole'
      BY <1>0, <3>1 DEF ReceiveInStep, ReceivedWhole
    <3>. QED BY <2>7, <3>4, <3>5, <3>10, <3>11 DEF ReceiveInStep
  <2>. QED BY <2>8, <2>9
<1>. QED BY <1>1, <1>2

-----------------------------------------------------------------------------
(* The bytes of send *)

\* w is the wire v with n bytes of frame f more, from place e + 1 on.
WireGoesOn(v, w, f, e, n) ==
  /\ v \in Seq(Nat \X Nat) /\ w \in Seq(Nat \X Nat) /\ f \in Nat /\ e \in Nat /\ n \in Nat
  /\ Len(w) = Len(v) + n
  /\ \A i \in 1 .. Len(v) : w[i] = v[i]
  /\ \A i \in 1 .. Len(w) : i > Len(v) => w[i][1] = f /\ w[i][2] = e + (i - Len(v))

LEMMA WriteGoesOn ==
  ASSUME NEW v \in Seq(Nat \X Nat), NEW f \in Nat, NEW s \in Nat, NEW k \in 1 .. s + 4,
         NEW l, IsRest(l, f, s, k), NEW n \in 1 .. k, NEW w, w = v \o SubSeq(l, 1, n),
         NEW e, e = (s + 4) - k
  PROVE  WireGoesOn(v, w, f, e, n)
<1>. DEFINE D == Nat \X Nat
            x == SubSeq(l, 1, n)
<1>1. l \in Seq(D) /\ Len(l) = k /\ \A i \in 1 .. k : l[i][1] = f /\ l[i][2] = (s + 4) - k + i
  BY DEF IsRest
<1>v. v \in Seq(D) /\ Len(v) \in Nat
  OBVIOUS
<1>. HIDE DEF D
<1>2. x \in Seq(D) /\ Len(x) = n /\ \A i \in 1 .. n : x[i] = l[i]
  BY <1>1
<1>. HIDE DEF x
<1>3. \A i \in 1 .. n : x[i][1] = f /\ x[i][2] = e + i
  <2>. SUFFICES ASSUME NEW i \in 1 .. n PROVE x[i][1] = f /\ x[i][2] = e + i
    OBVIOUS
  <2>1. i \in 1 .. k
    OBVIOUS
  <2>2. l[i][1] = f /\ l[i][2] = (s + 4) - k + i
    BY <1>1, <2>1
  <2>3. x[i] = l[i]
    BY <1>2
  <2>. QED BY <2>2, <2>3
<1>4. /\ w \in Seq(D) /\ Len(w) = Len(v) + Len(x)
      /\ \A i \in 1 .. Len(v) + Len(x) : w[i] = IF i <= Len(v) THEN v[i] ELSE x[i - Len(v)]
  <2>1. w = v \o x
    BY DEF x
  <2>2. v \in Seq(D) /\ x \in Seq(D)
    BY <1>v, <1>2
  <2>3. /\ v \o x \in Seq(D) /\ Len(v \o x) = Len(v) + Len(x)
        /\ \A i \in 1 .. Len(v) + Len(x) : (v \o x)[i] = IF i <= Len(v) THEN v[i] ELSE x[i - Len(v)]
    BY <2>2, ConcatProperties
  <2>. QED BY <2>1, <2>3
<1>5. Len(w) = Len(v) + n /\ \A i \in 1 .. Len(v) : w[i] = v[i]
  BY <1>v, <1>2, <1>4
<1>6. ASSUME NEW i \in 1 .. Len(w), i > Len(v)
      PROVE  w[i][1] = f /\ w[i][2] = e + (i - Len(v))
  <2>1. i - Len(v) \in 1 .. n /\ ~(i <= Len(v)) /\ i \in 1 .. Len(v) + Len(x)
    BY <1>v, <1>2, <1>5, <1>6
  <2>2. w[i] = x[i - Len(v)]
    BY <1>4, <2>1
  <2>. QED BY <1>3, <2>1, <2>2
<1>7. f \in Nat /\ e \in Nat /\ n \in Nat
  OBVIOUS
<1>. QED BY <1>v, <1>4, <1>5, <1>6, <1>7 DEF WireGoesOn, D

LEMMA SendKeepsWireInOrder ==
  ASSUME TCPSocketAssumption, OutboundTyped, WireInOrder, SendMessage
  PROVE  WireInOrder'
<1>0. /\ sends \in Seq(SendSizes) /\ wire \in Seq(Nat \X Nat) /\ SendSizes \subseteq Nat
  BY DEF OutboundTyped, TCPSocketAssumption
<1>1. PICK n \in SendSizes : /\ sends' = Append(sends, n) /\ unsent' = [size |-> n + 4, ret |-> 0]
                             /\ wire' = wire
  BY DEF SendMessage
<1>2. /\ Len(sends) \in Nat /\ Len(sends') = Len(sends) + 1 /\ sends'[Len(sends')] = n /\ n \in Nat
      /\ DOMAIN sends = 1 .. Len(sends) /\ DOMAIN sends' = 1 .. Len(sends')
      /\ sends' # <<>>
  <2>1. sends \in Seq(SendSizes) /\ n \in SendSizes /\ sends' = Append(sends, n)
    BY <1>0, <1>1
  <2>2. n \in Nat
    BY <1>0
  <2>. QED BY <2>1, <2>2
<1>3. \A i \in DOMAIN wire : wire[i][1] \in 1 .. Len(sends)
  BY <1>2 DEF WireInOrder, WireSoFar
<1>4. WireSoFar'
  <2>1. \A i \in DOMAIN wire' : wire'[i][1] \in DOMAIN sends'
    BY <1>1, <1>2, <1>3
  <2>2. /\ sends' # <<>> /\ unsent'.size \in 1 .. sends'[Len(sends')] + 4
        /\ \A i \in DOMAIN wire' : wire'[i][1] # Len(sends')
    BY <1>1, <1>2, <1>3
  <2>. QED BY <2>1, <2>2 DEF WireSoFar
<1>5. BytesInOrder'
  BY <1>1 DEF WireInOrder, BytesInOrder, Before
<1>. QED BY <1>4, <1>5 DEF WireInOrder

LEMMA WriteKeepsWireInOrder ==
  ASSUME TCPSocketAssumption, OutboundTyped, WireInOrder, Write
  PROVE  WireInOrder'
<1>. DEFINE f == Len(sends)
            e == (sends[f] + 4) - unsent.size
<1>0. /\ sends \in Seq(SendSizes) /\ wire \in Seq(Nat \X Nat) /\ SendSizes \subseteq Nat
  BY DEF OutboundTyped, TCPSocketAssumption
<1>1. Sending /\ UNCHANGED sends
  BY DEF Write
<1>2. /\ f \in DOMAIN sends /\ f \in Nat /\ sends[f] \in Nat /\ unsent.size \in 1 .. sends[f] + 4
      /\ IsRest(Left, f, sends[f], unsent.size)
  BY <1>0, <1>1, LeftIsTheRest DEF WireInOrder
<1>3. CASE unsent' = NoWrite /\ UNCHANGED wire
  BY <1>1, <1>3 DEF WireInOrder, WireSoFar, BytesInOrder, Before, Sending,
     NoWrite
<1>4. ASSUME NEW n \in 1 .. unsent.size, wire' = wire \o SubSeq(Left, 1, n),
             unsent' = IF Continues(unsent.size - n, n)
                       THEN [size |-> unsent.size - n, ret |-> n] ELSE NoWrite
      PROVE  WireInOrder'
  <2>1. WireGoesOn(wire, wire', f, e, n)
    <3>1. ASSUME NEW g, g = f, NEW s, s = sends[f], NEW k, k = unsent.size, NEW l, l = Left,
                 NEW v, v = wire, NEW w, w = wire', NEW d, d = e
          PROVE  WireGoesOn(v, w, g, d, n)
      BY <1>0, <1>2, <1>4, <3>1, WriteGoesOn
    <3>. QED BY <3>1
  <2>. HIDE DEF f, e
  <2>2. /\ f \in Nat /\ e \in Nat /\ n \in Nat \ {0} /\ Len(wire) \in Nat
        /\ Len(wire') = Len(wire) + n
        /\ DOMAIN wire = 1 .. Len(wire) /\ DOMAIN wire' = 1 .. Len(wire')
        /\ \A i \in 1 .. Len(wire) : wire'[i] = wire[i]
        /\ \A i \in 1 .. Len(wire') : i > Len(wire) =>
             wire'[i][1] = f /\ wire'[i][2] = e + (i - Len(wire))
    <3>1. /\ wire \in Seq(Nat \X Nat) /\ wire' \in Seq(Nat \X Nat)
          /\ f \in Nat /\ e \in Nat /\ Len(wire') = Len(wire) + n
          /\ \A i \in 1 .. Len(wire) : wire'[i] = wire[i]
          /\ \A i \in 1 .. Len(wire') : i > Len(wire) =>
               wire'[i][1] = f /\ wire'[i][2] = e + (i - Len(wire))
      BY <2>1 DEF WireGoesOn
    <3>2. \A w \in Seq(Nat \X Nat) : Len(w) \in Nat /\ DOMAIN w = 1 .. Len(w)
      OBVIOUS
    <3>3. n \in Nat \ {0}
      BY <1>2
    <3>. QED BY <3>1, <3>2, <3>3
  <2>3. /\ DOMAIN sends = 1 .. f /\ f >= 1
        /\ \A i \in 1 .. Len(wire) : wire[i][1] \in 1 .. f /\ (wire[i][1] = f => wire[i][2] <= e)
    <3>1. DOMAIN sends = 1 .. f /\ f >= 1
      BY <1>0, <1>2 DEF f
    <3>2. /\ \A i \in DOMAIN wire : wire[i][1] \in DOMAIN sends
          /\ \A i \in DOMAIN wire : wire[i][1] = f => wire[i][2] <= e
      BY <1>1 DEF WireInOrder, WireSoFar, f, e
    <3>. QED BY <2>2, <3>1, <3>2
  <2>t. \A i \in 1 .. Len(wire) : wire[i][1] \in Nat /\ wire[i][2] \in Nat
    BY <1>0
  <2>4. \A i \in DOMAIN wire' : /\ wire'[i][1] \in DOMAIN sends
                                /\ wire'[i][1] = f => wire'[i][2] <= e + n
    <3>. SUFFICES ASSUME NEW i \in DOMAIN wire'
                  PROVE  wire'[i][1] \in DOMAIN sends /\ (wire'[i][1] = f => wire'[i][2] <= e + n)
      OBVIOUS
    <3>0. i \in 1 .. Len(wire') /\ i \in Nat
      BY <2>2
    <3>1. CASE i <= Len(wire)
      BY <2>2, <2>3, <2>t, <3>0, <3>1
    <3>2. CASE i > Len(wire)
      BY <2>2, <2>3, <3>0, <3>2
    <3>. QED BY <2>2, <3>0, <3>1, <3>2
  <2>5. Sending' => unsent'.size = unsent.size - n /\ unsent'.size > 0
    BY <1>2, <1>4 DEF Sending, Continues
  <2>6. WireSoFar'
    <3>1. sends' # <<>> /\ Len(sends') = f /\ sends'[f] = sends[f]
      BY <1>0, <1>1, <2>3 DEF f
    <3>2. ASSUME Sending'
          PROVE  unsent'.size \in 1 .. sends[f] + 4 /\ (sends[f] + 4) - unsent'.size = e + n
      <4>1. /\ unsent'.size = unsent.size - n /\ unsent'.size > 0
            /\ unsent.size \in 1 .. sends[f] + 4 /\ sends[f] \in Nat
        BY <1>2, <2>5, <3>2
      <4>2. \A s, k, c, d \in Nat : c = k - d /\ c > 0 /\ k <= s + 4 =>
              c \in 1 .. s + 4 /\ (s + 4) - c = ((s + 4) - k) + d
        OBVIOUS
      <4>3. unsent.size \in Nat /\ unsent'.size \in Nat /\ unsent.size <= sends[f] + 4
        BY <4>1
      <4>. QED BY <4>1, <4>2, <4>3 DEF e
    <3>. QED BY <1>1, <2>4, <3>1, <3>2 DEF WireSoFar
  <2>7. ASSUME NEW i \in DOMAIN wire', NEW j \in DOMAIN wire', i < j
        PROVE  Before(wire'[i], wire'[j])
    <3>0. i \in 1 .. Len(wire') /\ j \in 1 .. Len(wire') /\ i \in Nat /\ j \in Nat
      BY <2>2
    <3>1. CASE j <= Len(wire)
      <4>1. i \in DOMAIN wire /\ j \in DOMAIN wire /\ wire'[i] = wire[i] /\ wire'[j] = wire[j]
        BY <2>2, <2>7, <3>0, <3>1
      <4>2. Before(wire[i], wire[j])
        BY <2>7, <4>1 DEF WireInOrder, BytesInOrder
      <4>. QED BY <4>1, <4>2
    <3>2. CASE i <= Len(wire) /\ j > Len(wire)
      <4>1. i \in 1 .. Len(wire) /\ wire'[i] = wire[i]
        BY <2>2, <3>0, <3>2
      <4>2. wire'[j][1] = f /\ wire'[j][2] = e + (j - Len(wire)) /\ j - Len(wire) > 0
        <5>1. wire'[j][1] = f /\ wire'[j][2] = e + (j - Len(wire))
          BY <2>2, <3>0, <3>2
        <5>2. Len(wire) \in Nat
          BY <2>2
        <5>. QED BY <3>0, <3>2, <5>1, <5>2
      <4>3. wire[i][1] \in 1 .. f /\ (wire[i][1] = f => wire[i][2] <= e)
        BY <2>3, <4>1
      <4>4. wire[i][2] \in Nat
        BY <2>t, <4>1
      <4>5. wire[i][1] < f \/ (wire[i][1] = f /\ wire[i][2] < e + (j - Len(wire)))
        BY <2>2, <3>0, <4>2, <4>3, <4>4
      <4>. QED BY <4>1, <4>2, <4>5 DEF Before
    <3>3. CASE i > Len(wire)
      <4>0. j > Len(wire)
        BY <2>2, <2>7, <3>0, <3>3
      <4>1. wire'[i][1] = f /\ wire'[i][2] = e + (i - Len(wire))
        BY <2>2, <3>0, <3>3
      <4>2. wire'[j][1] = f /\ wire'[j][2] = e + (j - Len(wire))
        BY <2>2, <3>0, <4>0
      <4>3. e + (i - Len(wire)) < e + (j - Len(wire))
        BY <2>2, <2>7, <3>0
      <4>. QED BY <4>1, <4>2, <4>3 DEF Before
    <3>. QED BY <2>2, <3>0, <3>1, <3>2, <3>3
  <2>8. BytesInOrder'
    BY <2>7 DEF BytesInOrder, Before
  <2>. QED BY <2>6, <2>8 DEF WireInOrder
<1>. QED BY <1>3, <1>4 DEF Write

LEMMA StepInOrder ==
  ASSUME TCPSocketAssumption, OutboundTyped, WireInOrder, [Next]_vars
  PROVE  OutboundTyped' /\ WireInOrder'
<1>0. WireSoFar
  BY DEF WireInOrder
<1>1. CASE SendMessage
  BY <1>0, <1>1, SendKeepsTypes, SendKeepsWireInOrder
<1>2. CASE Write
  BY <1>0, <1>2, SendKeepsTypes, WriteKeepsWireInOrder
<1>3. CASE ~(SendMessage \/ Write)
  <2>1. UNCHANGED <<unsent, wire, sends>>
    BY <1>3 DEF Next, ServerSends, ServerEnds, Receive, EnterRecv, Parse,
       ReadBytes, ReadEnd, ReadError, Shutdown, CloseDescriptor, vars,
       outbound
  <2>. QED BY <2>1 DEF OutboundTyped, WireInOrder, WireSoFar, BytesInOrder,
          Before, Sending, NoWrite
<1>. QED BY <1>1, <1>2, <1>3

LEMMA StepInStep ==
  ASSUME FramesHaveText, ReceiveInStep, WireInOrder, [Next]_vars
  PROVE  ReceiveInStep'
<1>1. CASE SendMessage \/ Write
  BY <1>1, SendKeepsInStep DEF WireInOrder
<1>2. CASE ServerSends
  BY <1>2, ServerSendsKeepsInStep
<1>3. CASE ServerEnds \/ Shutdown \/ CloseDescriptor
  BY <1>3, ConnectionEndsKeepsInStep
<1>4. CASE Receive
  BY <1>4, EnterRecvKeepsInStep, ParseKeepsInStep, ReadBytesKeepsInStep, ReadEndKeepsInStep,
     ReadErrorKeepsInStep DEF Receive
<1>5. CASE UNCHANGED vars
  <2>1. /\ UNCHANGED <<socket, peer, frames, stream, receiver, readBuf, length, message,
                       received>>
        /\ UNCHANGED <<unsent, wire, sends>>
    BY <1>5 DEF vars, inbound, outbound
  <2>. QED BY <2>1 DEF ReceiveInStep, TypeOK, NothingHeldBack, MessageInPlace,
          StreamInPlace, ReceivedWhole, InMessage, InRecv, Ahead,
          NextByte, Text
<1>. QED BY <1>1, <1>2, <1>3, <1>4, <1>5 DEF Next

LEMMA InitInOrder == Init => OutboundTyped /\ WireInOrder
BY DEF Init, OutboundTyped, NoWrite, WireInOrder, WireSoFar, BytesInOrder,
   Sending

\* However DefaultTCPSocket::send's messages are cut into writes, and whichever of them
\* fail, the bytes go out in their order and none goes out twice.
THEOREM WireStaysInOrder == Spec => []WireInOrder
<1>1. OutboundTyped /\ WireInOrder /\ [Next]_vars => OutboundTyped' /\ WireInOrder'
  BY TCPSocketAssumption, StepInOrder
<1>. QED BY <1>1, InitInOrder, PTL DEF Spec

\* Whatever the network does with the stream, what recv has returned, what it holds and
\* what is ahead are the frames the server sent, whole and in their order: no byte is
\* lost, doubled or left in the buffer while recv waits for more.  DefaultTCPSocket::recv
\* relies on it wherever it takes four bytes of its buffer for a length.
THEOREM ReceiveStaysInStep == ASSUME 0 \notin Lengths PROVE Spec => []ReceiveInStep
<1>0. FramesHaveText
  BY TCPSocketAssumption DEF FramesHaveText
<1>1. Init => ReceiveInStep
  BY <1>0, InitInStep
<1>2. ReceiveInStep /\ WireInOrder /\ [Next]_vars => ReceiveInStep'
  BY <1>0, StepInStep
<1>. QED BY <1>1, <1>2, WireStaysInOrder, PTL DEF Spec

LEMMA StepIsSocketStep ==
  ASSUME FramesHaveText, ReceiveInStep, ReceiveInStep', [Next]_vars
  PROVE  [Contract!Next]_(Contract!vars)
<1>. USE DEF Contract!Next, Contract!vars
<1>0. /\ ReceivedWhole /\ ReceivedWhole'
      /\ Len(received) \in Nat /\ Len(frames) \in Nat /\ frames \in Seq(Lengths)
      /\ DOMAIN frames = 1 .. Len(frames)
  BY TypesInStep DEF ReceiveInStep
<1>1. CASE ServerSends
  <2>1. /\ \E n \in Lengths : frames' = Append(frames, n)
        /\ UNCHANGED <<socket, peer, receiver, received>>
    BY <1>1 DEF ServerSends
  <2>2. Len(frames') \in Nat /\ Len(frames') > Len(frames)
    BY <1>0, <2>1
  <2>3. Contract!Arrive
    BY <1>0, <2>1, <2>2 DEF Contract!Arrive
  <2>. QED BY <2>3
<1>2. CASE ServerEnds \/ Shutdown
  <2>1. /\ UNCHANGED <<frames, receiver, received>>
        /\ peer' # "up" \/ socket' # "open"
    BY <1>2 DEF ServerEnds, Shutdown, inbound
  <2>2. Contract!End
    BY <1>0, <2>1 DEF Contract!End
  <2>. QED BY <2>2
<1>3. CASE EnterRecv \/ ReadEnd \/ ReadError
  <2>1. /\ UNCHANGED <<frames, received>>
        /\ (peer' # "up" \/ socket' # "open") <=> (peer # "up" \/ socket # "open")
        /\ receiver # "ended"
        /\ receiver' = "ended" => peer # "up" \/ socket # "open"
    BY <1>3 DEF EnterRecv, ReadEnd, ReadError
  <2>2. CASE receiver' = "ended"
    <3>1. Contract!GiveUp
      BY <1>0, <2>1, <2>2 DEF Contract!GiveUp
    <3>. QED BY <3>1
  <2>3. CASE receiver' # "ended"
    BY <1>0, <2>1, <2>3
  <2>. QED BY <2>2, <2>3
<1>4. CASE Parse
  <2>1. UNCHANGED <<frames, peer, socket>> /\ receiver = "parse" /\ receiver' # "ended"
    BY <1>4 DEF Parse
  <2>2. CASE UNCHANGED received
    BY <1>0, <2>1, <2>2
  <2>3. CASE ~UNCHANGED received
    <3>1. received' = Append(received, message') /\ received \in Seq(Seq(Nat \X Nat))
      BY <1>4, <2>3, TypesInStep DEF Parse
    <3>2. Len(received') = Len(received) + 1 /\ Len(received') \in DOMAIN received'
      <4>. DEFINE S == Seq(Nat \X Nat)
      <4>1. received \in Seq(S)
        BY <3>1
      <4>2. message' \in S
        BY DEF ReceiveInStep, TypeOK
      <4>. HIDE DEF S
      <4>. QED BY <3>1, <4>1, <4>2
    <3>3. Len(received') \in DOMAIN frames
      BY <1>0, <2>1, <3>2 DEF ReceivedWhole
    <3>4. Len(received') \in Len(received) + 1 .. Len(frames)
      BY <1>0, <3>2, <3>3
    <3>5. Contract!Return
      BY <1>0, <2>1, <3>2, <3>4 DEF Contract!Return
    <3>. QED BY <3>5
  <2>. QED BY <2>2, <2>3
<1>5. CASE ReadBytes \/ SendMessage \/ Write \/ CloseDescriptor \/ UNCHANGED vars
  <2>1. /\ UNCHANGED <<frames, received, peer>>
        /\ (receiver' = "ended") <=> (receiver = "ended")
        /\ socket' # "open" <=> socket # "open"
    BY <1>5 DEF ReadBytes, SendMessage, Write, CloseDescriptor, vars,
       inbound
  <2>. QED BY <1>0, <2>1
<1>. QED BY <1>1, <1>2, <1>3, <1>4, <1>5 DEF Next, Receive

\* DefaultTCPSocket is an ISocket as RTTComms relies on it: recv returns the texts the
\* server sent, each whole, once and in order, and the empty string only when the
\* connection is over or the socket has been closed.
THEOREM TCPSocketImplementsSocket ==
  ASSUME 0 \notin Lengths PROVE Spec => ImplementsSocket
<1>0. FramesHaveText
  BY TCPSocketAssumption DEF FramesHaveText
<1>1. Init => Contract!Init
  <2>. SUFFICES ASSUME Init PROVE Contract!Init
    OBVIOUS
  <2>1. ReceivedWhole
    BY <1>0, InitInStep DEF ReceiveInStep
  <2>. QED BY <2>1 DEF Init, Contract!Init
<1>2. ReceiveInStep /\ ReceiveInStep' /\ [Next]_vars
        => [Contract!Next]_(Contract!vars)
  BY <1>0, StepIsSocketStep
<1>. QED BY <1>1, <1>2, ReceiveStaysInStep, PTL
         DEF Spec, ImplementsSocket, Contract!Spec

=============================================================================
