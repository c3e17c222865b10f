--------------------------------- MODULE Framer --------------------------------
(***************************************************************************)
(* StreamFramer (internal/codec/framing.go) and the loop of                *)
(* handleDeviceConnection that feeds it: bytes arrive from the socket in   *)
(* pieces of any size, Append adds a piece to buf, and Next is called      *)
(* until it asks for more.  Next loops; each of its iterations is a step.  *)
(*                                                                         *)
(* A frame is a preamble of zeros, a big-endian length, that many bytes    *)
(* whose first is the codec id, and a checksum.  The sizes are parameters; *)
(* the length has two digits in base Base.  A bad checksum is counted and  *)
(* changes nothing.                                                        *)
(***************************************************************************)
EXTENDS Naturals, Sequences

CONSTANTS
  Base,           \* number of byte values (256 in the code)
  PreambleSize,   \* framePreambleSize, 4 in the code
  CRCSize,        \* frameCRCSize, 4 in the code
  MaxDataLen,     \* frameMaxDataLen, 2^20 in the code
  Known,          \* codec ids KnownCodec accepts
  Lines,          \* what may arrive: the bytes, and the frames they encode
  ReadSize        \* most bytes one conn.Read returns (64 KiB in the code)

Byte == 0 .. Base - 1

ASSUME FramerAssumption ==
  /\ Base \in Nat \ {0, 1}
  /\ PreambleSize \in Nat \ {0} /\ CRCSize \in Nat /\ MaxDataLen \in Nat \ {0}
  /\ Known \subseteq Byte
  /\ ReadSize \in Nat \ {0}

Frames == [payload : Seq(Byte), crc : Seq(Byte)]

HeaderSize == PreambleSize + 2

Drop(b, n) == SubSeq(b, n + 1, Len(b))

(***************************************************************************)
(* What a device sends.  The byte sequence t begins with the frame f: a    *)
(* preamble of zeros, the length, the payload and the checksum.  b carries *)
(* the frames fs, the n-th after pos[n] bytes: bytes other than zero, then *)
(* one frame behind the other.                                             *)
(***************************************************************************)
Size(f) == HeaderSize + Len(f.payload) + CRCSize

BeginsWith(t, f) ==
  /\ Len(t) >= Size(f)
  /\ \A i \in 1..PreambleSize : t[i] = 0
  /\ t[PreambleSize + 1] * Base + t[PreambleSize + 2] = Len(f.payload)
  /\ SubSeq(t, HeaderSize + 1, HeaderSize + Len(f.payload)) = f.payload
  /\ SubSeq(t, HeaderSize + Len(f.payload) + 1, Size(f)) = f.crc

Sendable(f) == Len(f.payload) \in 1..MaxDataLen /\ f.payload[1] \in Known

Carries(b, fs, pos) ==
  /\ \A i \in 1..pos[1] : b[i] /= 0
  /\ \A n \in 1..Len(fs) : /\ Sendable(fs[n]) /\ BeginsWith(Drop(b, pos[n]), fs[n])
                           /\ pos[n + 1] = pos[n] + Size(fs[n])
  /\ pos[Len(fs) + 1] = Len(b)

\* A corrupted line carries no particular frames.
ASSUME LinesAssumption ==
  \A line \in Lines :
    /\ line \in [bytes : Seq(Byte), sent : Seq(Frames)]
    /\ line.sent /= <<>> =>
         \E pos \in [1 .. Len(line.sent) + 1 -> 0 .. Len(line.bytes)] :
           Carries(line.bytes, line.sent, pos)

VARIABLES
  wire,     \* bytes the device has sent and rudra-ingest has not read
  buf,      \* StreamFramer.buf
  reading,  \* the goroutine waits in conn.Read, Next having asked for more
  frames,   \* the frames Next has returned
  stream,   \* history: all bytes read
  sent      \* history: the frames the device encoded in them

vars == <<wire, buf, reading, frames, stream, sent>>

Init ==
  /\ \E line \in Lines : wire = line.bytes /\ sent = line.sent
  /\ buf = <<>> /\ reading = TRUE /\ frames = <<>> /\ stream = <<>>

--------------------------------------------------------------------------------
(* Where the first preamble is, and what follows it.                        *)

IsPreamble(b, i) == \A j \in i .. i + PreambleSize - 1 : j <= Len(b) /\ b[j] = 0
Starts(b) == {i \in 1..Len(b) : IsPreamble(b, i)}
First(b) == CHOOSE i \in Starts(b) : \A j \in Starts(b) : i <= j
Aligned(b) == Drop(b, First(b) - 1)

DataLen(b) == b[PreambleSize + 1] * Base + b[PreambleSize + 2]
\* Mutant: a length over the cap is taken at its word.
LengthPositive(b) == DataLen(b) > 0
LengthValid(b) == DataLen(b) > 0 /\ DataLen(b) <= MaxDataLen
Total(b) == HeaderSize + DataLen(b) + CRCSize
FrameOf(b) == [payload |-> SubSeq(b, HeaderSize + 1, HeaderSize + DataLen(b)),
               crc     |-> SubSeq(b, HeaderSize + DataLen(b) + 1, Total(b))]

\* b starts with a preamble; how much of the frame is there.
HasHeader(b) == Len(b) >= HeaderSize
Complete(b)  == HasHeader(b) /\ LengthValid(b) /\ Len(b) >= Total(b)

--------------------------------------------------------------------------------
\* n, err := conn.Read(readBuf) and framer.Append(readBuf[:n])
Read(n) ==
  /\ reading /\ n <= Len(wire)
  /\ buf' = buf \o SubSeq(wire, 1, n)
  /\ stream' = stream \o SubSeq(wire, 1, n)
  /\ wire' = Drop(wire, n)
  /\ reading' = FALSE
  /\ UNCHANGED <<frames, sent>>

\* Mutant: a preamble split across two reads is forgotten.
ForgetsAll ==
  /\ ~reading /\ Starts(buf) = {}
  /\ buf' = <<>>
  /\ reading' = TRUE
  /\ UNCHANGED <<wire, frames, stream, sent>>

\* idx < 0: keep the bytes that may begin a preamble
NoPreamble ==
  /\ ~reading /\ Starts(buf) = {}
  /\ buf' = IF Len(buf) > PreambleSize - 1 THEN Drop(buf, Len(buf) - (PreambleSize - 1)) ELSE buf
  /\ reading' = TRUE
  /\ UNCHANGED <<wire, frames, stream, sent>>

\* The header or the rest of the frame has not arrived.
NeedMore ==
  /\ ~reading /\ Starts(buf) /= {}
  /\ LET b == Aligned(buf) IN
       /\ HasHeader(b) => (LengthValid(b) /\ Len(b) < Total(b))
       /\ buf' = b
  /\ reading' = TRUE
  /\ UNCHANGED <<wire, frames, stream, sent>>

\* Mutant: the byte that would make progress is not dropped.
KeepsByte ==
  /\ ~reading /\ Starts(buf) /= {}
  /\ LET b == Aligned(buf) IN
       /\ HasHeader(b)
       /\ \/ ~LengthValid(b)
          \/ Complete(b) /\ FrameOf(b).payload[1] \notin Known
       /\ buf' = b
  /\ UNCHANGED <<wire, reading, frames, stream, sent>>

\* Invalid length or unknown codec id: drop one byte and look again.
Resync ==
  /\ ~reading /\ Starts(buf) /= {}
  /\ LET b == Aligned(buf) IN
       /\ HasHeader(b)
       /\ \/ ~LengthValid(b)
          \/ Complete(b) /\ FrameOf(b).payload[1] \notin Known
       /\ buf' = Drop(b, 1)
  /\ UNCHANGED <<wire, reading, frames, stream, sent>>

\* Mutant: the checksum stays in the buffer.
ReturnsWithoutCRC ==
  /\ ~reading /\ Starts(buf) /= {}
  /\ LET b == Aligned(buf) IN
       /\ Complete(b) /\ FrameOf(b).payload[1] \in Known
       /\ frames' = Append(frames, FrameOf(b))
       /\ buf' = Drop(b, Total(b) - CRCSize)
  /\ UNCHANGED <<wire, reading, stream, sent>>

\* Mutant: the frame is copied out and stays in the buffer.
ReturnsAgain ==
  /\ ~reading /\ Starts(buf) /= {}
  /\ LET b == Aligned(buf) IN
       /\ Complete(b) /\ FrameOf(b).payload[1] \in Known
       /\ frames' = Append(frames, FrameOf(b))
       /\ buf' = b
  /\ UNCHANGED <<wire, reading, stream, sent>>

\* A frame is returned, handled, and Next is called again.
ReturnFrame ==
  /\ ~reading /\ Starts(buf) /= {}
  /\ LET b == Aligned(buf) IN
       /\ Complete(b) /\ FrameOf(b).payload[1] \in Known
       /\ frames' = Append(frames, FrameOf(b))
       /\ buf' = Drop(b, Total(b))
  /\ UNCHANGED <<wire, reading, stream, sent>>

NextIteration == NoPreamble \/ NeedMore \/ Resync \/ ReturnFrame

Next == (\E n \in 1..ReadSize : Read(n)) \/ NextIteration

Spec == Init /\ [][Next]_vars

\* The goroutine is scheduled; the device may fall silent at any byte.
FairSpec == Spec /\ WF_vars(NextIteration)

--------------------------------------------------------------------------------
(* Properties.                                                              *)

TypeOK ==
  /\ wire \in Seq(Byte) /\ buf \in Seq(Byte) /\ stream \in Seq(Byte)
  /\ reading \in BOOLEAN
  /\ frames \in Seq(Frames) /\ sent \in Seq(Frames)

(***************************************************************************)
(* The reference: the frames of a byte sequence, found by one scan from    *)
(* left to right over all of it.                                           *)
(***************************************************************************)
Scan(t, rest) ==    \* rest[k]: the frames of the last k bytes
  IF ~IsPreamble(t, 1) THEN rest[Len(t) - 1]
  ELSE IF ~HasHeader(t) THEN <<>>
  ELSE IF ~LengthValid(t) THEN rest[Len(t) - 1]
  ELSE IF Len(t) < Total(t) THEN <<>>
  ELSE IF FrameOf(t).payload[1] \notin Known THEN rest[Len(t) - 1]
  ELSE <<FrameOf(t)>> \o rest[Len(t) - Total(t)]

Decode(s) ==
  LET rest[k \in 0 .. Len(s)] ==
        IF k = 0 THEN <<>> ELSE Scan(Drop(s, Len(s) - k), rest)
  IN  rest[Len(s)]

(***************************************************************************)
(* "It handles fragmented reads, multiple frames per read and buffered     *)
(* bursts": however the bytes were cut into reads, also inside a preamble  *)
(* or a length and on a corrupted line, the frames returned are those of   *)
(* the whole stream (framing.go, Next).                                    *)
(***************************************************************************)
ChunkingIrrelevant == reading => frames = Decode(stream)

(***************************************************************************)
(* What a device encodes arrives, whatever the frames hold (zeros and      *)
(* known codec ids included) and whatever noise without zeros comes first: *)
(* the frames returned are a prefix of those sent, all of them once all    *)
(* bytes are read, and then nothing is left in the buffer (framing.go).    *)
(***************************************************************************)
Reassembles ==
  sent /= <<>> =>
    /\ frames = SubSeq(sent, 1, Len(frames))
    /\ reading /\ wire = <<>> => frames = sent /\ buf = <<>>

(***************************************************************************)
(* Whenever the goroutine waits for the device, it holds less than one     *)
(* frame of the largest size, whatever the device has sent so far          *)
(* (framing.go, frameMaxDataLen).                                          *)
(***************************************************************************)
BufferBounded == reading => Len(buf) < HeaderSize + MaxDataLen + CRCSize

(***************************************************************************)
(* Every iteration of Next that does not ask for more consumes at least    *)
(* one byte, so that a read is followed by at most as many iterations as   *)
(* the buffer has bytes (framing.go, Next).  An iteration that changes     *)
(* nothing at all is a stuttering step here; NextReturns excludes it.      *)
(***************************************************************************)
LoopShrinks == [][~reading /\ ~reading' => Len(buf') < Len(buf)]_vars

(***************************************************************************)
(* Next always comes back to ask for more: no corrupted stream keeps the   *)
(* goroutine in its loop (framing.go, Next).                               *)
(***************************************************************************)
NextReturns == ~reading ~> reading
================================================================================
