----------------------------- MODULE FrameLinks -----------------------------
(***************************************************************************)
(* How frames cross a stream of bytes: ClientSocket and AsyncCloudSocket   *)
(* over TCP, DMFrameProcessor over the serial line of the radio modem.     *)
(*                                                                         *)
(* A stream has no frame boundaries: one read may end anywhere, and may    *)
(* hold several frames.  A receiver appends what it read to its buffer and *)
(* takes frames off the front until it finds no complete one.  A byte is a *)
(* number below BASE (256), so that a small BASE has every value that a    *)
(* payload can hold, the marks of a frame included.                        *)
(***************************************************************************)
EXTENDS Integers, SequencesExt

CONSTANTS
  BASE,
  HCM, START,            \* the three bytes before a TCP frame; 0x7E
  SocketLimit, SerialLimit,   \* 1500, 256: a buffer without a mark is cleared
  Links,                 \* those of "toServer", "toPhone", "fromModem" to check
  Frames,                \* what is sent; over TCP the first byte is the object id
  MaxFrames,
  Noise                  \* what may precede the first frame on the serial line

ASSUME FrameAssumption ==
  /\ BASE \in Nat \ {0, 1}
  /\ START \in 0..(BASE - 1) /\ HCM \in Seq(0..(BASE - 1)) /\ Len(HCM) = 3
  /\ Links \subseteq {"toServer", "toPhone", "fromModem"}
  /\ \A f \in Frames : f \in Seq(0..(BASE - 1)) /\ Len(f) \in 1..(BASE * BASE - 1)
  /\ \A n \in Noise : n \in Seq(0..(BASE - 1))

VARIABLES
  link,       \* which of the receivers this behaviour is about
  sent, delivered,
  wire,       \* bytes written and not yet read
  mBuffer,    \* mReceiveBuffer, mBuffer, mFrameBuffer
  parsing,    \* the loop of the receiver has a turn to make
  ends        \* history: where in the stream what precedes the frames ends, and
              \* where each frame does

vars == <<link, sent, delivered, wire, mBuffer, parsing, ends>>

Byte == 0..(BASE - 1)
Crc(data) == (BASE - 1) - (FoldSeq(LAMBDA x, y : x + y, 0, data) % BASE)

\* So it is for any sum; the provers do not know what a fold adds up to.
ASSUME CrcAssumption == \A f \in Frames : Crc(f) \in Byte

Length_LsbFirst(n) == <<n % BASE, n \div BASE>>
Length(n) == <<n \div BASE, n % BASE>>

\* The bytes of a frame: ClientSocket::sendFrame and AsyncCloudSocket.sendFrame
\* alike, and what the modem puts around a frame.
Wrapped(f) ==
  IF link = "fromModem" THEN <<START>> \o Length(Len(f)) \o f \o <<Crc(f)>>
  ELSE HCM \o Length(Len(f) - 1) \o f

-----------------------------------------------------------------------------
(* One turn of a receiver's loop: the buffer it leaves, the frames it gives *)
(* its listener, and whether there is another turn.                         *)

Turn(rest, frames) ==
  [buffer |-> rest, frames |-> frames, again |-> frames # <<>> /\ rest # <<>>]

Waits(b) == Turn(b, <<>>)
Cleared(b, limit) == Turn(IF Len(b) > limit THEN <<>> ELSE b, <<>>)

Drop(b, n) == SubSeq(b, n + 1, Len(b))

\* The positions at which the bytes of mark begin in b.
At(b, mark) ==
  {i \in 1..(Len(b) - Len(mark) + 1) : SubSeq(b, i, i + Len(mark) - 1) = mark}
First(S) == CHOOSE i \in S : \A j \in S : i <= j

Needed_OneMore(data, around) == data + around + 1

\* The size a receiver asks for before it takes a frame apart.
Needed(data, around) == data + around

\* ClientSocket::processBuffer.  The object id is read at its place in a frame
\* that begins the buffer, wherever the mark was found.
ServerTurn(b) ==
  IF Len(b) < Len(HCM) + 3 THEN Waits(b)
  ELSE IF At(b, HCM) = {} THEN Cleared(b, SocketLimit)
  ELSE LET s == First(At(b, HCM)) - 1
           n == b[s + 4] * BASE + b[s + 5]
       IN IF Len(b) < Needed(n, 6) THEN Waits(b)
          ELSE Turn(Drop(b, s + 6 + n), <<<<b[6]>> \o SubSeq(b, s + 7, s + 6 + n)>>)

\* AsyncCloudSocket.processReceiveBuffer, which looks for no mark.
PhoneTurn(b) ==
  IF Len(b) < 6 THEN Waits(b)
  ELSE LET n == b[4] * BASE + b[5]
       IN IF Len(b) < Needed(n, 6) THEN Waits(b)
          ELSE Turn(Drop(b, n + 6), <<SubSeq(b, 6, n + 6)>>)

\* DMFrameProcessor::processFrameBuffer.  The size is checked without what
\* precedes the mark; beyond is what the memory behind the vector holds.
ModemTurn(b, beyond) ==
  IF Len(b) < 3 THEN Waits(b)
  ELSE IF At(b, <<START>>) = {} THEN Cleared(b, SerialLimit)
  ELSE LET s == First(At(b, <<START>>)) - 1
           m == b \o [i \in 1..(BASE * BASE + 3) |-> beyond]
           n == m[s + 2] * BASE + m[s + 3]
           f == SubSeq(m, s + 4, s + 3 + n)
       IN IF Len(b) < Needed(n, 4) THEN Waits(b)
          ELSE IF m[s + 4 + n] = Crc(f) THEN Turn(Drop(b, s + 4 + n), <<f>>)
          ELSE Turn(<<>>, <<>>)

Turns(b) ==
  CASE link = "toServer" -> {ServerTurn(b)}
    [] link = "toPhone"  -> {PhoneTurn(b)}
    [] OTHER             -> {ModemTurn(b, beyond) : beyond \in Byte}

-----------------------------------------------------------------------------

Init ==
  /\ link \in Links
  /\ wire \in IF link = "fromModem" THEN Noise ELSE {<<>>}
  /\ sent = <<>> /\ delivered = <<>> /\ mBuffer = <<>> /\ parsing = FALSE
  /\ ends = <<Len(wire)>>

Written == ends[Len(ends)]

sendFrame(f) ==
  /\ Len(sent) < MaxFrames
  /\ sent' = Append(sent, f)
  /\ wire' = wire \o Wrapped(f) /\ ends' = Append(ends, Written + Len(Wrapped(f)))
  /\ UNCHANGED <<link, delivered, mBuffer, parsing>>

\* handleRead, ReceiveCallBack, onReceive: the first n bytes have arrived.
receive(n) ==
  /\ ~parsing /\ parsing' = TRUE
  /\ mBuffer' = mBuffer \o SubSeq(wire, 1, n)
  /\ wire' = Drop(wire, n)
  /\ UNCHANGED <<link, sent, delivered, ends>>

Again_Once(t) == FALSE
Again(t) == t.again

\* The loop holds the receiver's mutex, or runs in its only callback.
processBuffer ==
  /\ parsing
  /\ \E t \in Turns(mBuffer) :
       /\ mBuffer' = t.buffer
       /\ delivered' = delivered \o t.frames
       /\ parsing' = Again(t)
  /\ UNCHANGED <<link, sent, wire, ends>>

reconnect_KeepsBuffer ==
  /\ link # "fromModem" /\ sent # <<>>
  /\ sent' = <<>> /\ delivered' = <<>> /\ wire' = <<>> /\ parsing' = FALSE /\ ends' = <<0>>
  /\ UNCHANGED <<link, mBuffer>>

\* A new socket has new buffers at both ends; whatever was on its way is lost.
reconnect ==
  /\ link # "fromModem" /\ sent # <<>>
  /\ sent' = <<>> /\ delivered' = <<>> /\ wire' = <<>> /\ mBuffer' = <<>>
  /\ parsing' = FALSE /\ ends' = <<0>>
  /\ UNCHANGED link

Next ==
  \/ \E f \in Frames : sendFrame(f)
  \/ \E n \in 1..Len(wire) : receive(n)
  \/ processBuffer \/ reconnect

Spec == Init /\ [][Next]_vars

-----------------------------------------------------------------------------
(* Properties.                                                             *)

\* The values each variable ranges over.  When the loop has ended the buffer of
\* a receiver holds less than one frame: it does not build up.
TypeOK ==
  /\ link \in Links /\ parsing \in BOOLEAN
  /\ sent \in Seq(Frames) /\ delivered \in Seq(Frames)
  /\ wire \in Seq(Byte) /\ mBuffer \in Seq(Byte) /\ ends \in Seq(Nat)
  /\ ~parsing => mBuffer = <<>> \/ \E f \in Frames : Len(mBuffer) < Len(Wrapped(f))

\* However the bytes of the frames are cut into reads, and whatever bytes the
\* payloads hold, the marks of a frame among them, the listener is given the
\* frames that were sent, unchanged, once, and in their order.
InOrder == IsPrefix(delivered, sent)

\* The frames of which the last byte has been read.
Complete == {k \in 1..Len(sent) : ends[k + 1] <= Written - Len(wire)}

\* A receiver that waits for bytes has given its listener each frame it has in
\* full: no command or answer stays behind in the buffer until another frame
\* happens to come (while (packetFound)), and none was dropped on the way.
NothingWaits == ~parsing => \A k \in Complete : k <= Len(delivered)

\* A stream of bytes with these receivers is the queue of frames that the models
\* of the server, of the phone and of the radio take it to be.
Channel == INSTANCE FrameChannel
ImplementsChannel == Channel!Spec

=============================================================================
