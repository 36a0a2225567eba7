------------------------------ MODULE LoRaFraming ------------------------------
(***************************************************************************)
(* Frames on the serial line of the LoRa module: EncodeMessage             *)
(* (internal/protocol/codec.go), Send, Receive and the search for the next *)
(* frame in the receive buffer (internal/drivers/radio/SX1262/main.go).    *)
(* The line is a stream of bytes without boundaries.  A write may stop     *)
(* short, a read returns any part of what has arrived, and the line may    *)
(* lose bytes; a frame is its length and that many bytes of JSON.          *)
(***************************************************************************)
EXTENDS Integers, Sequences, FiniteSets

CONSTANTS
  Base,                 \* the number of values of a byte, 256
  Text,                 \* a byte of JSON: the least one is 32, a space
  MaxPayloadSize,       \* of the codec, 64 KiB
  MaxFramePayloadSize,  \* of the driver, 64 KiB
  MaxFrames, MaxLost    \* bounds of the model

HeaderValue(d) == ((d[1] * Base + d[2]) * Base + d[3]) * Base + d[4]

(* The header holds any length; text read as a length is out of range.     *)
ASSUME FramingAssumption ==
  /\ Base \in Nat \ {0, 1} /\ Text \in 0 .. Base - 1
  /\ MaxPayloadSize \in Nat \ {0} /\ MaxFramePayloadSize \in Nat
  /\ MaxPayloadSize <= MaxFramePayloadSize
  /\ MaxFramePayloadSize < HeaderValue(<<Text, 0, 0, 0>>)
  /\ MaxFrames \in Nat /\ MaxLost \in Nat

MaxFrameSize == 4 + MaxFramePayloadSize

VARIABLES
  sent,                 \* the frames given to Send: where they begin, their length
  written,              \* how many bytes Send has been given so far
  line,                 \* the bytes on their way
  lost,                 \* history: the positions of the bytes that never arrive
  receiveBuf,           \* receiveBuf[0 .. receiveEnd)
  receiveStart,
  received,             \* history: the frames that Receive has returned
  room                  \* history: the free space given to the last read

vars == <<sent, written, line, lost, receiveBuf, receiveStart, received, room>>

(* A byte is its value and its position among all the bytes sent. *)
Byte == [digit : 0 .. Base - 1, at : Nat]

Header(length) ==
  LET next == length \div Base
      after == next \div Base
  IN  <<after \div Base, after % Base, next % Base, length % Base>>

(* Mutant: the length is written with its last two bytes swapped. *)
EncodeSwapped(first, length) ==
  [i \in 1 .. 4 + length |->
    [digit |-> IF i <= 4 THEN <<Header(length)[1], Header(length)[2], Header(length)[4],
                                Header(length)[3]>>[i] ELSE Text,
     at |-> first + i]]

(* EncodeMessage, for a message whose JSON is so long; first is the number *)
(* of bytes sent before it.                                                *)
Encode(first, length) ==
  [i \in 1 .. 4 + length |->
    [digit |-> IF i <= 4 THEN Header(length)[i] ELSE Text, at |-> first + i]]

Init ==
  /\ sent = <<>> /\ written = 0 /\ line = <<>> /\ lost = {}
  /\ receiveBuf = <<>> /\ receiveStart = 0
  /\ received = <<>> /\ room = MaxFrameSize
-----------------------------------------------------------------------------
(* THE SENDER AND THE LINE *)

(* Send writes the first n bytes of a frame; fewer than all of them is a   *)
(* write that failed, after which nothing is written again.                *)
Send(length, n) ==
  LET frame == Encode(written, length) IN
  /\ Len(sent) < MaxFrames
  /\ length \in 1 .. MaxPayloadSize
  /\ n \in 1 .. Len(frame)
  /\ n < Len(frame) => Cardinality(lost) < MaxLost
  /\ sent' = Append(sent, [first |-> written, length |-> length])
  /\ written' = written + Len(frame)
  /\ line' = line \o SubSeq(frame, 1, n)
  /\ lost' = lost \cup {written + i : i \in n + 1 .. Len(frame)}
  /\ UNCHANGED <<receiveBuf, receiveStart, received, room>>

(* The module or the UART drops the next byte. *)
LoseByte ==
  /\ line # <<>> /\ Cardinality(lost) < MaxLost
  /\ lost' = lost \cup {Head(line).at}
  /\ line' = Tail(line)
  /\ UNCHANGED <<sent, written, receiveBuf, receiveStart, received, room>>
-----------------------------------------------------------------------------
(* THE RECEIVER *)

PayloadLength(buf, p) == HeaderValue([i \in 1 .. 4 |-> buf[p + i].digit])

(* Mutant: the largest length is not looked at. *)
LooksLikeAnyHeader(buf, p) == PayloadLength(buf, p) # 0

LooksLikeHeader(buf, p) == PayloadLength(buf, p) \in 1 .. MaxFramePayloadSize

(* Where the search stops: at the first header, or with fewer than four    *)
(* bytes left.                                                             *)
Stops(buf, p) == Len(buf) - p < 4 \/ LooksLikeHeader(buf, p)

(* Mutant: an unusable header is skipped as a whole. *)
ScanByFours(buf, start) ==
  CHOOSE p \in start .. Len(buf) :
    /\ Stops(buf, p) /\ (p - start) % 4 = 0
    /\ \A q \in start .. p - 1 : (q - start) % 4 = 0 => ~Stops(buf, q)

Scan(buf, start) ==
  CHOOSE p \in start .. Len(buf) :
    Stops(buf, p) /\ \A q \in start .. p - 1 : ~Stops(buf, q)

(* nextFrame: the frame at the first header, if all of it is there, and    *)
(* what it leaves of the buffer.                                           *)
NextFrame(buf, start) ==
  LET p == Scan(buf, start)
      end == p + 4 + PayloadLength(buf, p)
  IN
  IF Len(buf) - p < 4 \/ Len(buf) < end
  THEN [frame |-> <<>>, buf |-> buf, start |-> p]
  ELSE [frame |-> SubSeq(buf, p + 1, end),
        buf   |-> IF end = Len(buf) THEN <<>> ELSE buf,
        start |-> IF end = Len(buf) THEN 0 ELSE end]

(* Mutant: the buffer is used from where the last frame ended. *)
CompactNot(buf, start) == buf

Compact(buf, start) == SubSeq(buf, start + 1, Len(buf))

(* What nextFrame returns and leaves; no frame is nil. *)
Take(next) ==
  /\ receiveBuf' = next.buf
  /\ receiveStart' = next.start
  /\ received' = IF next.frame = <<>> THEN received ELSE Append(received, next.frame)

(* Receive with a whole frame in the buffer. *)
ReceiveBuffered ==
  LET next == NextFrame(receiveBuf, receiveStart) IN
  /\ next.frame # <<>>
  /\ Take(next)
  /\ UNCHANGED <<sent, written, line, lost, room>>

(* Mutant: what a failing read has brought is dropped. *)
ReceiveForgets(n, error) ==
  /\ n \in 0 .. Len(line)
  /\ \E next \in {NextFrame(receiveBuf, receiveStart)} :
     \E kept \in {Compact(next.buf, next.start)} :
       /\ next.frame = <<>>
       /\ Len(kept) + n <= MaxFrameSize
       /\ room' = MaxFrameSize - Len(kept)
       /\ Take(IF error \/ n = 0
               THEN [frame |-> <<>>, buf |-> kept, start |-> 0]
               ELSE NextFrame(kept \o SubSeq(line, 1, n), 0))
  /\ line' = SubSeq(line, n + 1, Len(line))
  /\ UNCHANGED <<sent, written, lost>>

(* Receive that reads, n bytes and maybe an error: what was read is kept   *)
(* either way, and looked at only without one.                             *)
ReceiveReads(n, error) ==
  /\ n \in 0 .. Len(line)
  /\ \E next \in {NextFrame(receiveBuf, receiveStart)} :
     \E kept \in {Compact(next.buf, next.start)} :
       /\ next.frame = <<>>
       /\ Len(kept) + n <= MaxFrameSize
       /\ room' = MaxFrameSize - Len(kept)
       /\ Take(IF error \/ n = 0
               THEN [frame |-> <<>>, buf |-> kept \o SubSeq(line, 1, n), start |-> 0]
               ELSE NextFrame(kept \o SubSeq(line, 1, n), 0))
  /\ line' = SubSeq(line, n + 1, Len(line))
  /\ UNCHANGED <<sent, written, lost>>
-----------------------------------------------------------------------------
Next ==
  \/ \E length \in 1 .. MaxPayloadSize, n \in 1 .. MaxFrameSize : Send(length, n)
  \/ LoseByte
  \/ ReceiveBuffered
  \/ \E n \in 0 .. MaxFrameSize, error \in BOOLEAN : ReceiveReads(n, error)

Spec == Init /\ [][Next]_vars
-----------------------------------------------------------------------------
Whole(k) == Encode(sent[k].first, sent[k].length)

Frames == {received[j] : j \in 1 .. Len(received)}

(* The bytes not yet looked at: the rest of the buffer, and the line. *)
Pending == Compact(receiveBuf, receiveStart) \o line

NextUp == IF Pending = <<>> THEN written + 1 ELSE Head(Pending).at

(* As long as no byte is lost the frames come out as they went in, however *)
(* the reads cut the stream (SX1262/main.go:147-165).                      *)
InOrder ==
  lost = {} =>
    /\ Len(received) <= Len(sent)
    /\ \A k \in 1 .. Len(received) : received[k] = Whole(k)

Last(k) == sent[k].first + 4 + sent[k].length

Intact(k) == \A b \in sent[k].first + 1 .. Last(k) : b \notin lost

Swallowed(k) == \E f \in Frames : \E i \in 2 .. Len(f) : f[i].at = sent[k].first + 1

(* The search never passes over a frame that arrives in one piece: once    *)
(* its first byte is behind, it has been returned, or began inside what    *)
(* was taken for the frame of an earlier header with bytes missing         *)
(* (SX1262/main.go:167-193).                                               *)
IntactFound ==
  \A k \in 1 .. Len(sent) :
    Intact(k) /\ NextUp > sent[k].first + 1 => Whole(k) \in Frames \/ Swallowed(k)

(* A read always gets space: with none it would return nothing for ever    *)
(* (SX1262/main.go:153).                                                   *)
RoomToRead == room > 0

(* No frame stays behind in the buffer: when all that was sent has been    *)
(* read, and nextFrame finds nothing more, every frame has been returned.   *)
NothingStuck ==
  lost = {} /\ line = <<>> /\ NextFrame(receiveBuf, receiveStart).frame = <<>>
    => Len(received) = Len(sent)
-----------------------------------------------------------------------------
TypeOK ==
  /\ sent \in Seq([first : Nat, length : 1 .. MaxPayloadSize])
  /\ written \in Nat
  /\ line \in Seq(Byte) /\ receiveBuf \in Seq(Byte)
  /\ lost \subseteq 1 .. written
  /\ receiveStart \in 0 .. Len(receiveBuf)
  /\ received \in Seq(Seq(Byte))
  /\ room \in 0 .. MaxFrameSize

(* One frame is sent behind the other. *)
SentInv ==
  \A k \in 1 .. Len(sent) :
    /\ Last(k) = IF k = Len(sent) THEN written ELSE sent[k + 1].first
    /\ Last(k) <= written

(* The buffer holds at most the largest frame, so that a read has space.   *)
BufferInv == Len(receiveBuf) <= MaxFrameSize /\ room > 0

(* Every byte is looked at once and in order, as it was sent, unless it is *)
(* lost.                                                                   *)
LineInv ==
  LET pending == Pending
      next == NextUp
  IN
  /\ \A i, j \in 1 .. Len(pending) : i < j => pending[i].at < pending[j].at
  /\ \A i \in 1 .. Len(pending) :
       /\ pending[i].at \in 1 .. written
       /\ \A k \in 1 .. Len(sent) :
            pending[i].at \in sent[k].first + 1 .. Last(k) =>
              pending[i] = Whole(k)[pending[i].at - sent[k].first]
  /\ \A b \in 1 .. written :
       b \in lost \/ b < next \/ \E i \in 1 .. Len(pending) : pending[i].at = b

(* What has been returned looks like a frame, and lies behind. *)
FramesInv ==
  LET next == NextUp IN
  \A f \in Frames :
    /\ LooksLikeHeader(f, 0) /\ Len(f) = 4 + PayloadLength(f, 0)
    /\ f[Len(f)].at < next

(* With nothing lost the search is always at the beginning of a frame. *)
AlignedInv ==
  lost = {} =>
    /\ Len(received) <= Len(sent)
    /\ \A k \in 1 .. Len(received) : received[k] = Whole(k)
    /\ NextUp = 1 + IF Len(received) = Len(sent) THEN written ELSE sent[Len(received) + 1].first

IInv ==
  TypeOK /\ SentInv /\ BufferInv /\ LineInv /\ FramesInv /\ IntactFound /\ AlignedInv
=============================================================================
