------------------------------ MODULE TCPSocket ------------------------------
(***************************************************************************)
(* DefaultTCPSocket: messages as frames, a four-byte length and the text,  *)
(* over the byte stream of a TCP connection.                               *)
(*                                                                         *)
(* A byte is the pair of its frame and its place in it; places 1 to 4 are  *)
(* the length.  The receive thread loops on recv, the owner sends and, on  *)
(* another thread than recv's, closes.  Every call of the kernel is a step *)
(* of its own: the network may cut the stream anywhere.                    *)
(***************************************************************************)
EXTENDS Integers, Sequences

CONSTANTS
  Lengths,   \* lengths of the texts the server sends
  MaxFrames, \* bound: frames the server sends
  BufSize,   \* the size of _readBuf: 512
  SendSizes, \* lengths of the texts the owner sends
  MaxSends,  \* bound: messages the owner sends
  Writes     \* what ::send does: subset of {"whole", "part", "error"}

ASSUME TCPSocketAssumption ==
  /\ Lengths \subseteq Nat /\ SendSizes \subseteq Nat
  /\ MaxFrames \in Nat /\ MaxSends \in Nat
  /\ BufSize \in Nat /\ BufSize > 4
  /\ Writes \subseteq {"whole", "part", "error"}

VARIABLES
  socket,    \* _socket: "open", "shut" within close, "none" for -1
  peer,      \* the server's side: "up", "ended" (end of file) or "reset"
  frames,    \* history: the lengths of the frames the server has sent
  stream,    \* bytes in the network and the kernel, not yet read
  receiver,  \* the receive thread: "idle", "parse" and "read" in recv, "ended"
  readBuf,   \* the first _sizeOnBuf bytes of _readBuf
  length,    \* the local length, 0 for none
  message,   \* _message
  received,  \* history: what recv has returned
  unsent,    \* what send has still to write: [size, ret], or none
  wire,      \* history: bytes the owner has written
  sends      \* history: the lengths of the texts handed to send

inbound  == <<frames, stream, receiver, readBuf, length, message, received>>
outbound == <<unsent, wire, sends>>
vars     == <<socket, peer, inbound, outbound>>

Bytes(f, n) == [i \in 1 .. 4 + n |-> <<f, i>>]
Text(f, n)  == [i \in 1 .. n |-> <<f, i + 4>>]
NoWrite     == [size |-> 0, ret |-> 0]

TypeOK ==
  /\ socket \in {"open", "shut", "none"}
  /\ peer \in {"up", "ended", "reset"}
  /\ receiver \in {"idle", "parse", "read", "ended"}
  /\ frames \in Seq(Lengths) /\ sends \in Seq(SendSizes)
  /\ stream \in Seq(Nat \X Nat) /\ wire \in Seq(Nat \X Nat)
  /\ readBuf \in Seq(Nat \X Nat) /\ Len(readBuf) <= BufSize
  /\ length \in Lengths \cup {0}
  /\ message \in Seq(Nat \X Nat) /\ Len(message) <= length
  /\ received \in Seq(Seq(Nat \X Nat))
  /\ unsent \in [size : Nat, ret : Nat]

\* The constructor has connected.
Init ==
  /\ socket = "open" /\ peer = "up"
  /\ frames = <<>> /\ stream = <<>>
  /\ receiver = "idle" /\ readBuf = <<>> /\ length = 0 /\ message = <<>> /\ received = <<>>
  /\ unsent = NoWrite /\ wire = <<>> /\ sends = <<>>

-----------------------------------------------------------------------------
(* The server and the network *)

ServerSends ==
  /\ peer = "up"
  /\ Len(frames) < MaxFrames
  /\ \E n \in Lengths :
       /\ frames' = Append(frames, n)
       /\ stream' = stream \o Bytes(Len(frames'), n)
  /\ UNCHANGED <<socket, peer, receiver, readBuf, length, message, received, outbound>>

\* The connection ends, in good order or not; what was under way may be cut.
ServerEnds ==
  /\ peer = "up"
  /\ peer' \in {"ended", "reset"}
  /\ \E n \in 0 .. Len(stream) : stream' = SubSeq(stream, 1, n)
  /\ UNCHANGED <<socket, frames, receiver, readBuf, length, message, received, outbound>>

-----------------------------------------------------------------------------
(* recv *)

EnterRecv ==
  /\ receiver = "idle"
  /\ IF socket = "none" THEN receiver' = "ended" /\ UNCHANGED <<length, message>>
     ELSE receiver' = "parse" /\ length' = 0 /\ message' = <<>>
  /\ UNCHANGED <<socket, peer, frames, stream, readBuf, received, outbound>>

\* Mutant: one byte too many is asked for.
HasMore == length = 0 /\ Len(readBuf) > 4

\* The length of the frame whose first four bytes are in front of the buffer.
HasLength    == length = 0 /\ Len(readBuf) >= 4
LengthInBuf  == frames[readBuf[1][1]]
LengthNow    == IF HasLength THEN LengthInBuf ELSE length
BufNow       == IF HasLength THEN SubSeq(readBuf, 5, Len(readBuf)) ELSE readBuf

\* How many bytes of the buffer are appended to a message with this much room.
Taken(buf, room) == IF Len(buf) < room THEN Len(buf) ELSE room

\* Mutant: what follows the message in the buffer is dropped.
ForgetsTheRest(buf, k) == <<>>

Shifted(buf, k) == SubSeq(buf, k + 1, Len(buf))

\* One turn of the loop, up to the call of ::recv.
Parse ==
  LET k    == IF LengthNow = 0 THEN 0 ELSE Taken(BufNow, LengthNow - Len(message))
      text == message \o SubSeq(BufNow, 1, k)
  IN  /\ receiver = "parse"
      /\ readBuf' = Shifted(BufNow, k)
      /\ length' = LengthNow
      /\ message' = text
      /\ IF k > 0 /\ Len(text) = LengthNow
         THEN receiver' = "idle" /\ received' = Append(received, text)
         ELSE receiver' = "read" /\ UNCHANGED received
      /\ UNCHANGED <<socket, peer, frames, stream, outbound>>

\* ::recv brings some of the bytes, as many as there is room for at most.
ReadBytes ==
  /\ receiver = "read" /\ socket # "none"
  /\ \E n \in 1 .. BufSize - Len(readBuf) :
       /\ n <= Len(stream)
       /\ readBuf' = readBuf \o SubSeq(stream, 1, n)
       /\ stream' = SubSeq(stream, n + 1, Len(stream))
  /\ receiver' = "parse"
  /\ UNCHANGED <<socket, peer, frames, length, message, received, outbound>>

\* Mutant: the end of the connection is taken for a pause.
ReadsAgain ==
  /\ receiver = "read" /\ socket # "none"
  /\ peer = "ended" \/ socket = "shut"
  /\ stream = <<>>
  /\ receiver' = "parse"
  /\ UNCHANGED <<socket, peer, frames, stream, readBuf, length, message, received, outbound>>

\* ::recv returns 0: the end, unless there are bytes in the buffer.
ReadEnd ==
  /\ receiver = "read" /\ socket # "none"
  /\ peer = "ended" \/ socket = "shut"
  /\ stream = <<>>
  /\ receiver' = IF readBuf = <<>> THEN "ended" ELSE "parse"
  /\ UNCHANGED <<socket, peer, frames, stream, readBuf, length, message, received, outbound>>

\* ::recv returns -1, which is added to _sizeOnBuf: the connection was reset (the
\* kernel says so once, and then reports the end), or the descriptor is gone.
ReadError ==
  /\ receiver = "read"
  /\ \/ peer = "reset" /\ stream = <<>> /\ peer' = "ended"
     \/ socket = "none" /\ UNCHANGED peer
  /\ IF readBuf = <<>>
     THEN receiver' = "ended" /\ socket' = "none" /\ UNCHANGED readBuf
     ELSE /\ receiver' = IF Len(readBuf) = 1 THEN "ended" ELSE "parse"
          /\ readBuf' = SubSeq(readBuf, 1, Len(readBuf) - 1)
          /\ UNCHANGED socket
  /\ UNCHANGED <<frames, stream, length, message, received, outbound>>

Receive == EnterRecv \/ Parse \/ ReadBytes \/ ReadEnd \/ ReadError

-----------------------------------------------------------------------------
(* send and close *)

Sending == unsent # NoWrite

SendMessage ==
  /\ ~Sending
  /\ socket = "open"
  /\ Len(sends) < MaxSends
  /\ \E n \in SendSizes :
       /\ sends' = Append(sends, n)
       /\ unsent' = [size |-> n + 4, ret |-> 0]
  /\ UNCHANGED <<socket, peer, inbound, wire>>

\* Mutant: the pointer stays at the start of the frame.
FromTheStart == LET f == Len(sends) IN SubSeq(Bytes(f, sends[f]), 1, unsent.size)

\* The bytes of the current message that are still to be written.
Left == LET f == Len(sends)
            n == sends[f] + 4
        IN  SubSeq(Bytes(f, sends[f]), n - unsent.size + 1, n)

\* The condition of the loop, with what the last write left and what it wrote.
Continues(size, ret) == ret < size

\* One ::send.
Write ==
  /\ Sending
  /\ \/ \E n \in 1 .. unsent.size :
          /\ n = unsent.size \/ "part" \in Writes
          /\ wire' = wire \o SubSeq(Left, 1, n)
          /\ unsent' = IF Continues(unsent.size - n, n)
                       THEN [size |-> unsent.size - n, ret |-> n] ELSE NoWrite
     \/ /\ "error" \in Writes
        /\ unsent' = NoWrite
        /\ UNCHANGED wire
  /\ UNCHANGED <<socket, peer, inbound, sends>>

\* close: shut down first, so that a recv under way returns.
Shutdown ==
  /\ socket = "open" /\ ~Sending
  /\ socket' = "shut"
  /\ UNCHANGED <<peer, inbound, outbound>>

CloseDescriptor ==
  /\ socket = "shut"
  /\ socket' = "none"
  /\ UNCHANGED <<peer, inbound, outbound>>

Next ==
  \/ ServerSends \/ ServerEnds
  \/ Receive
  \/ SendMessage \/ Write \/ Shutdown \/ CloseDescriptor

Spec == Init /\ [][Next]_vars

\* Threads run and ::recv returns what has come; the server and the app owe nothing.
Fairness ==
  /\ WF_vars(Receive)
  /\ WF_vars(CloseDescriptor)
  /\ WF_vars(Write)

FairSpec == Spec /\ Fairness

-----------------------------------------------------------------------------
(* Properties *)

ReceivedWhole ==
  \A i \in DOMAIN received : i \in DOMAIN frames /\ received[i] = Text(i, frames[i])

\* What ISocket promises: the texts come out as they went into the frames, however
\* the network cuts the stream and whatever the size of the buffer; -1 stands for a
\* text that is not the one sent.
Contract == INSTANCE Socket WITH
  arrived  <- Len(frames),
  returned <- IF ReceivedWhole THEN Len(received) ELSE -1,
  over     <- peer # "up" \/ socket # "open",
  gaveUp   <- receiver = "ended"

ImplementsSocket == Contract!Spec

\* recv asks the kernel for more only when it holds no more than the beginning of a
\* length: a message that has arrived is never left waiting for the next one.
NothingHeldBack ==
  receiver = "read" => /\ Len(readBuf) < 4
                       /\ length > 0 => readBuf = <<>> /\ Len(message) < length

\* Before is the order in which the bytes should go out.
Before(b, c) == b[1] < c[1] \/ (b[1] = c[1] /\ b[2] < c[2])

\* However a message is cut into writes, no byte of it goes out twice or out of turn.
BytesInOrder == \A i, j \in DOMAIN wire : i < j => Before(wire[i], wire[j])

\* What is on the wire: of the message under way, the bytes before those unsent.
WireSoFar ==
  /\ \A i \in DOMAIN wire : wire[i][1] \in DOMAIN sends
  /\ Sending => LET f == Len(sends)
                    n == sends[f] + 4
                IN  /\ sends # <<>>
                    /\ unsent.size \in 1 .. n
                    /\ \A i \in DOMAIN wire : wire[i][1] = f => wire[i][2] <= n - unsent.size

WireInOrder == BytesInOrder /\ WireSoFar

\* The bytes of frames of these lengths, and a piece of the stream they make: from
\* any byte on come the rest of its frame and the first byte of the next one.
BytesOf(fs) == {b \in Nat \X Nat : b[1] \in DOMAIN fs /\ b[2] \in 1 .. 4 + fs[b[1]]}

Unbroken(s, fs) ==
  \A i \in 1 .. Len(s) : \A d \in 0 .. Len(s) - i :
    LET f == s[i][1]
        p == s[i][2] + d
    IN  /\ p <= 4 + fs[f] => s[i + d] = <<f, p>>
        /\ p = 5 + fs[f] => s[i + d] = <<f + 1, 1>>

Streams(fs) == {s \in Seq(BytesOf(fs)) : Unbroken(s, fs)}

\* What is still to come out of the socket, and the byte the receiver needs next.
Ahead     == IF socket = "none" THEN readBuf ELSE readBuf \o stream
InRecv    == receiver \in {"parse", "read"}
InMessage == InRecv /\ length > 0
NextByte  == <<Len(received) + 1, IF InMessage THEN 5 + Len(message) ELSE 1>>

\* The message under construction is the beginning of the frame after those returned.
MessageInPlace ==
  /\ InRecv /\ length = 0 => message = <<>>
  /\ InMessage => /\ Len(received) < Len(frames)
                  /\ length = frames[Len(received) + 1]
                  /\ Len(message) < length
                  /\ message = Text(Len(received) + 1, Len(message))

\* However the stream is cut, the bytes ahead go on where the receiver stopped, and
\* while the connection is up they end with a frame.
StreamInPlace ==
  receiver # "ended" =>
    /\ Ahead \in Streams(frames)
    /\ Ahead # <<>> => Ahead[1] = NextByte
    /\ peer = "up" /\ socket # "none" =>
         IF Ahead = <<>> THEN ~InMessage /\ Len(received) = Len(frames)
         ELSE Ahead[Len(Ahead)] = <<Len(frames), 4 + frames[Len(frames)]>>

\* The receiver is in step with the stream: it holds nothing back, and what it has
\* returned, what it holds and what is ahead are the frames that were sent.
ReceiveInStep ==
  TypeOK /\ NothingHeldBack /\ MessageInPlace /\ StreamInPlace /\ ReceivedWhole

\* A close on another thread ends the loop of the receive thread.
CloseEndsRecv == (socket # "open") ~> (receiver = "ended")

\* So does the end of the connection, except in the middle of a length: then recv
\* asks an ended connection for more for ever, until the socket is closed.
LengthCut     == length = 0 /\ Len(readBuf) \in 1 .. 3 /\ stream = <<>>
EndIsNoticed  == (peer # "up") ~> (receiver = "ended" \/ LengthCut)

RecvEnds == CloseEndsRecv /\ EndIsNoticed

\* Every message is returned, if the connection lasts.
EveryMessageReturned ==
  \A f \in 1 .. MaxFrames :
    (f \in DOMAIN frames) ~> (f \in DOMAIN received \/ peer # "up" \/ socket # "open")

\* The frames go out whole: once send has returned the server can tell where the
\* next one begins.
FramesGoOutWhole ==
  ~Sending => \A f \in DOMAIN sends :
                Bytes(f, sends[f]) = SelectSeq(wire, LAMBDA b : b[1] = f)

=============================================================================
