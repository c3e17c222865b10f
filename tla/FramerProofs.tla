----------------------------- MODULE FramerProofs ------------------------------
(***************************************************************************)
(* Theorems about Framer for every alphabet, every size of the fields of a *)
(* frame and every byte sequence a device may send.                        *)
(*                                                                         *)
(* The bound on the buffer needs no strengthening beyond the types: Next   *)
(* returns without a frame only where it has compared the buffer with a    *)
(* size it has checked against the cap.  ScanInv relates what Next has     *)
(* returned to a scan of all bytes read, LineInv to the frames the device  *)
(* has sent.  That Decode satisfies its recursion, and that bytes without  *)
(* a preamble can be skipped, is shown by looking at the least number for  *)
(* which it would fail.                                                    *)
(***************************************************************************)
EXTENDS Framer, SequenceTheorems, WellFoundedInduction, TLAPS

FramerInv == TypeOK /\ BufferBounded

--------------------------------------------------------------------------------
\* Dropping a prefix of a byte sequence leaves a byte sequence.
LEMMA DropProperties ==
  ASSUME NEW b \in Seq(Byte), NEW n \in 0..Len(b)
  PROVE  Drop(b, n) \in Seq(Byte) /\ Len(Drop(b, n)) = Len(b) - n
<1>1. n + 1 \in Int /\ Len(b) \in Int /\ \A i \in n + 1 .. Len(b) : b[i] \in Byte
  OBVIOUS
<1>2. /\ SubSeq(b, n + 1, Len(b)) \in Seq(Byte)
      /\ Len(SubSeq(b, n + 1, Len(b))) = IF n + 1 <= Len(b) THEN Len(b) - (n + 1) + 1 ELSE 0
  BY <1>1, SubSeqProperties
<1> QED
  BY <1>2 DEF Drop

\* The first preamble, when there is one, is in the buffer.
LEMMA FirstProperties ==
  ASSUME NEW b \in Seq(Byte), Starts(b) /= {}
  PROVE  First(b) \in 1..Len(b)
<1> DEFINE R == OpToRel(<, Nat)
<1>1. Starts(b) \subseteq 1..Len(b) /\ Starts(b) \subseteq Nat
  BY DEF Starts
<1>2. IsWellFoundedOn(R, Nat)
  BY NatLessThanWellFounded
<1>3. \E x \in Starts(b) : \A y \in Starts(b) : ~(<<y, x>> \in R)
  BY <1>1, <1>2, WFMin
<1>4. \E x \in Starts(b) : \A y \in Starts(b) : x <= y
  <2>1. \A x, y \in Nat : y < x => <<y, x>> \in R
    BY DEF OpToRel
  <2> HIDE DEF R
  <2>2. \E x \in Starts(b) : \A y \in Starts(b) : ~(y < x)
    BY <1>1, <1>3, <2>1
  <2> QED
    BY <1>1, <2>2
<1>5. First(b) \in Starts(b)
  BY <1>4 DEF First
<1> QED
  BY <1>1, <1>5

\* Cutting the buffer at the first preamble.
LEMMA AlignedProperties ==
  ASSUME NEW b \in Seq(Byte), Starts(b) /= {}
  PROVE  Aligned(b) \in Seq(Byte) /\ Len(Aligned(b)) \in 1..Len(b)
<1>1. First(b) - 1 \in 0..Len(b) /\ First(b) \in 1..Len(b)
  BY FirstProperties
<1> QED
  BY <1>1, DropProperties DEF Aligned

\* A length read from a complete header is a number.
LEMMA DataLenProperties ==
  ASSUME NEW b \in Seq(Byte), HasHeader(b)
  PROVE  DataLen(b) \in Int /\ HeaderSize \in Nat /\ HeaderSize >= 3
<1>1. HeaderSize \in Nat /\ HeaderSize >= 3 /\ PreambleSize + 1 \in 1..Len(b)
      /\ PreambleSize + 2 \in 1..Len(b)
  BY FramerAssumption DEF HeaderSize, HasHeader
<1>2. b[PreambleSize + 1] \in Int /\ b[PreambleSize + 2] \in Int
  BY <1>1, FramerAssumption DEF Byte
<1> QED
  BY <1>1, <1>2, FramerAssumption DEF DataLen

\* The frame at the start of a buffer that holds all of it.
LEMMA FrameProperties ==
  ASSUME NEW b \in Seq(Byte), Complete(b)
  PROVE  FrameOf(b) \in Frames /\ Total(b) \in 1..Len(b)
<1>1. /\ DataLen(b) \in Int /\ DataLen(b) > 0 /\ HeaderSize \in Nat /\ HeaderSize >= 3
      /\ CRCSize \in Nat /\ Total(b) = HeaderSize + DataLen(b) + CRCSize /\ Total(b) <= Len(b)
  BY DataLenProperties, FramerAssumption DEF Complete, LengthValid, Total
<1> DEFINE h == HeaderSize
           d == DataLen(b)
<1>2. \A i \in h + 1 .. h + d : b[i] \in Byte
  BY <1>1
<1>3. \A i \in h + d + 1 .. Total(b) : b[i] \in Byte
  BY <1>1
<1>4. SubSeq(b, h + 1, h + d) \in Seq(Byte)
  BY <1>1, <1>2, SubSeqProperties
<1>5. SubSeq(b, h + d + 1, Total(b)) \in Seq(Byte)
  BY <1>1, <1>3, SubSeqProperties
<1> QED
  BY <1>1, <1>4, <1>5 DEF FrameOf, Frames

--------------------------------------------------------------------------------
LEMMA InitFramerInv == Init => FramerInv
<1> SUFFICES ASSUME Init PROVE FramerInv
  OBVIOUS
<1>1. PICK line \in Lines : wire = line.bytes /\ sent = line.sent
  BY DEF Init
<1>2. wire \in Seq(Byte) /\ sent \in Seq(Frames)
  BY <1>1, LinesAssumption
<1>3. BufferBounded
  BY FramerAssumption DEF Init, BufferBounded, HeaderSize
<1> QED
  BY <1>2, <1>3 DEF Init, FramerInv, TypeOK

\* Append adds a piece of what the device sent.
LEMMA ReadStep ==
  ASSUME FramerInv, NEW n \in 1..ReadSize, Read(n)
  PROVE  FramerInv'
<1> USE DEF FramerInv, TypeOK, Read
<1>1. n \in 0..Len(wire)
  BY FramerAssumption
<1>2. wire' \in Seq(Byte)
  BY <1>1, DropProperties
<1>3. SubSeq(wire, 1, n) \in Seq(Byte)
  <2>1. \A i \in 1..n : wire[i] \in Byte
    BY <1>1
  <2> QED
    BY <1>1, <2>1, SubSeqProperties
<1>4. buf' \in Seq(Byte) /\ stream' \in Seq(Byte)
  BY <1>3, ConcatProperties
<1> QED
  BY <1>2, <1>4 DEF BufferBounded

\* An iteration of Next: what is left in the buffer.
LEMMA IterationStep ==
  ASSUME FramerInv, NextIteration
  PROVE  /\ FramerInv'
         /\ ~reading' => Len(buf') < Len(buf)
<1> USE DEF FramerInv, TypeOK
<1>0. PreambleSize \in Nat \ {0} /\ CRCSize \in Nat /\ MaxDataLen \in Nat
      /\ HeaderSize = PreambleSize + 2
  BY FramerAssumption DEF HeaderSize
<1>1. CASE NoPreamble
  <2>1. CASE Len(buf) > PreambleSize - 1
    <3>1. Len(buf) - (PreambleSize - 1) \in 0..Len(buf)
      BY <1>0, <2>1
    <3>2. buf' \in Seq(Byte) /\ Len(buf') = PreambleSize - 1
      BY <1>0, <1>1, <2>1, <3>1, DropProperties DEF NoPreamble
    <3> QED
      BY <1>0, <1>1, <3>2 DEF NoPreamble, BufferBounded
  <2>2. CASE ~(Len(buf) > PreambleSize - 1)
    BY <1>0, <1>1, <2>2 DEF NoPreamble, BufferBounded
  <2> QED
    BY <2>1, <2>2
<1>2. CASE NeedMore
  <2> DEFINE b == Aligned(buf)
  <2>1. b \in Seq(Byte) /\ buf' = b /\ reading'
    BY <1>2, AlignedProperties DEF NeedMore
  <2>2. HasHeader(b) => LengthValid(b) /\ Len(b) < Total(b)
    BY <1>2 DEF NeedMore
  <2>3. CASE ~HasHeader(b)
    BY <1>0, <1>2, <2>1, <2>3 DEF HasHeader, NeedMore, BufferBounded
  <2>4. CASE HasHeader(b)
    <3>1. DataLen(b) \in Int /\ DataLen(b) <= MaxDataLen
          /\ Len(b) < HeaderSize + DataLen(b) + CRCSize
      BY <2>1, <2>2, <2>4, DataLenProperties DEF LengthValid, Total
    <3>2. Len(b) < HeaderSize + MaxDataLen + CRCSize
      BY <1>0, <2>1, <3>1
    <3> QED
      BY <1>2, <2>1, <3>2 DEF NeedMore, BufferBounded
  <2> QED
    BY <2>3, <2>4
<1>3. CASE Resync
  <2> DEFINE b == Aligned(buf)
  <2>1. b \in Seq(Byte) /\ Len(b) \in 1..Len(buf) /\ buf' = Drop(b, 1)
    BY <1>3, AlignedProperties DEF Resync
  <2>2. buf' \in Seq(Byte) /\ Len(buf') = Len(b) - 1
    BY <2>1, DropProperties
  <2> QED
    BY <1>3, <2>1, <2>2 DEF Resync, BufferBounded
<1>4. CASE ReturnFrame
  <2> DEFINE b == Aligned(buf)
  <2>1. b \in Seq(Byte) /\ Len(b) \in 1..Len(buf) /\ Complete(b)
        /\ buf' = Drop(b, Total(b)) /\ frames' = Append(frames, FrameOf(b))
    BY <1>4, AlignedProperties DEF ReturnFrame
  <2>2. FrameOf(b) \in Frames /\ Total(b) \in 1..Len(b)
    BY <2>1, FrameProperties
  <2>3. buf' \in Seq(Byte) /\ Len(buf') = Len(b) - Total(b)
    BY <2>1, <2>2, DropProperties
  <2>4. frames' \in Seq(Frames)
    BY <2>1, <2>2
  <2>5. Len(buf') < Len(buf)
    BY <2>1, <2>2, <2>3
  <2> QED
    BY <1>4, <2>3, <2>4, <2>5 DEF ReturnFrame, BufferBounded
<1> QED
  BY <1>1, <1>2, <1>3, <1>4 DEF NextIteration

LEMMA NextFramerInv == FramerInv /\ [Next]_vars => FramerInv'
<1> SUFFICES ASSUME FramerInv, [Next]_vars PROVE FramerInv'
  OBVIOUS
<1>1. CASE UNCHANGED vars
  BY <1>1 DEF FramerInv, TypeOK, BufferBounded, vars
<1> QED
  BY <1>1, ReadStep, IterationStep DEF Next

\* The buffer holds bytes, and Next returns frames of bytes.
THEOREM FramerInvariant == Spec => []FramerInv
BY InitFramerInv, NextFramerInv, PTL DEF Spec

\* While the goroutine waits in conn.Read the buffer is smaller than a frame
\* of the largest size (framing.go, frameMaxDataLen).
THEOREM BufferStaysBounded == Spec => []BufferBounded
<1>1. FramerInv => BufferBounded
  BY DEF FramerInv
<1> QED
  BY <1>1, FramerInvariant, PTL

\* Next never spins: an iteration that does not ask for more consumes a byte
\* (framing.go, Next).
THEOREM NextConsumes == Spec => LoopShrinks
<1>1. FramerInv /\ [Next]_vars => [~reading /\ ~reading' => Len(buf') < Len(buf)]_vars
  <2> SUFFICES ASSUME FramerInv, Next, ~reading, ~reading'
               PROVE  Len(buf') < Len(buf)
    BY DEF vars
  <2>1. NextIteration
    BY DEF Next, Read
  <2> QED
    BY <2>1, IterationStep
<1> QED
  BY <1>1, FramerInvariant, PTL DEF Spec, LoopShrinks

--------------------------------------------------------------------------------
(* Prefixes, suffixes and the byte sequences that extend them.              *)

LEMMA DropElements ==
  ASSUME NEW b \in Seq(Byte), NEW n \in 0..Len(b)
  PROVE  \A i \in 1 .. Len(b) - n : Drop(b, n)[i] = b[n + i]
<1>1. n + 1 \in Int /\ Len(b) \in Int /\ \A i \in n + 1 .. Len(b) : b[i] \in Byte
  OBVIOUS
<1>2. \A i \in 1 .. Len(b) - (n + 1) + 1 : SubSeq(b, n + 1, Len(b))[i] = b[n + 1 + i - 1]
  BY <1>1, SubSeqProperties
<1> QED
  BY <1>2 DEF Drop

LEMMA DropNone ==
  ASSUME NEW b \in Seq(Byte)
  PROVE  Drop(b, 0) = b
BY SubSeqFull DEF Drop

LEMMA DropTwice ==
  ASSUME NEW b \in Seq(Byte), NEW m \in Nat, NEW n \in Nat, m + n <= Len(b)
  PROVE  Drop(Drop(b, m), n) = Drop(b, m + n)
<1> DEFINE c == Drop(b, m)
           d == Drop(b, m + n)
<1>1. m \in 0..Len(b) /\ m + n \in 0..Len(b) /\ n \in 0 .. Len(b) - m
  OBVIOUS
<1>2. c \in Seq(Byte) /\ Len(c) = Len(b) - m /\ \A i \in 1 .. Len(b) - m : c[i] = b[m + i]
  BY <1>1, DropProperties, DropElements
<1>3. d \in Seq(Byte) /\ Len(d) = Len(b) - (m + n) /\ \A i \in 1 .. Len(b) - (m + n) : d[i] = b[m + n + i]
  BY <1>1, DropProperties, DropElements
<1> HIDE DEF c, d
<1>4. n \in 0..Len(c)
  BY <1>1, <1>2
<1>5. Drop(c, n) \in Seq(Byte) /\ Len(Drop(c, n)) = Len(c) - n /\ \A i \in 1 .. Len(c) - n : Drop(c, n)[i] = c[n + i]
  BY <1>2, <1>4, DropProperties, DropElements
<1>6. ASSUME NEW i \in 1 .. Len(b) - (m + n)
      PROVE  Drop(c, n)[i] = d[i]
  <2>1. i \in 1 .. Len(c) - n /\ n + i \in 1 .. Len(b) - m /\ m + (n + i) = m + n + i
    BY <1>2
  <2> QED
    BY <1>2, <1>3, <1>5, <2>1
<1>7. Len(Drop(c, n)) = Len(d) /\ Len(d) = Len(b) - (m + n)
  BY <1>2, <1>3, <1>5
<1>8. Drop(c, n) = d
  BY <1>3, <1>5, <1>6, <1>7, SeqEqual
<1> QED
  BY <1>8 DEF c, d

LEMMA DropConcat ==
  ASSUME NEW b \in Seq(Byte), NEW e \in Seq(Byte), NEW n \in 0..Len(b)
  PROVE  Drop(b \o e, n) = Drop(b, n) \o e
<1> DEFINE c == b \o e
           d == Drop(b, n)
<1>1. /\ c \in Seq(Byte) /\ Len(c) = Len(b) + Len(e)
      /\ \A i \in 1 .. Len(b) + Len(e) : c[i] = IF i <= Len(b) THEN b[i] ELSE e[i - Len(b)]
  BY ConcatProperties
<1>2. d \in Seq(Byte) /\ Len(d) = Len(b) - n /\ \A i \in 1 .. Len(b) - n : d[i] = b[n + i]
  BY DropProperties, DropElements
<1> HIDE DEF c, d
<1>3. n \in 0 .. Len(c)
  BY <1>1
<1>4. /\ Drop(c, n) \in Seq(Byte) /\ Len(Drop(c, n)) = Len(c) - n
      /\ \A i \in 1 .. Len(c) - n : Drop(c, n)[i] = c[n + i]
  BY <1>1, <1>3, DropProperties, DropElements
<1>5. /\ d \o e \in Seq(Byte) /\ Len(d \o e) = Len(d) + Len(e)
      /\ \A i \in 1 .. Len(d) + Len(e) : (d \o e)[i] = IF i <= Len(d) THEN d[i] ELSE e[i - Len(d)]
  BY <1>2, ConcatProperties
<1>6. ASSUME NEW i \in 1 .. Len(c) - n
      PROVE  Drop(c, n)[i] = (d \o e)[i]
  <2>0. i \in 1 .. Len(d) + Len(e) /\ n + i \in 1 .. Len(b) + Len(e)
    BY <1>1, <1>2
  <2>1. CASE i <= Len(d)
    <3>1. n + i <= Len(b) /\ i \in 1 .. Len(b) - n
      BY <1>2, <2>1
    <3> QED
      BY <1>1, <1>2, <1>4, <1>5, <2>0, <2>1, <3>1
  <2>2. CASE ~(i <= Len(d))
    <3>1. ~(n + i <= Len(b)) /\ n + i - Len(b) = i - Len(d)
      BY <1>2, <2>2
    <3> QED
      BY <1>1, <1>4, <1>5, <2>0, <2>2, <3>1
  <2> QED
    BY <2>1, <2>2
<1>7. Len(Drop(c, n)) = Len(d \o e) /\ Len(Drop(c, n)) = Len(c) - n
  BY <1>1, <1>2, <1>4, <1>5
<1>8. Drop(c, n) = d \o e
  <2> DEFINE x == Drop(c, n)
             y == d \o e
  <2>1. x \in Seq(Byte) /\ y \in Seq(Byte) /\ Len(x) = Len(y) /\ \A i \in 1..Len(x) : x[i] = y[i]
    BY <1>4, <1>5, <1>6, <1>7
  <2> HIDE DEF x, y
  <2>2. x = y
    BY <2>1, SeqEqual
  <2> QED
    BY <2>2 DEF x, y
<1> QED
  BY <1>8 DEF c, d

\* Whether a preamble is at i is told by the bytes up to its end.
LEMMA PreambleConcat ==
  ASSUME NEW b \in Seq(Byte), NEW e \in Seq(Byte), NEW i \in 1..Len(b), i + PreambleSize - 1 <= Len(b)
  PROVE  IsPreamble(b \o e, i) <=> IsPreamble(b, i)
<1>1. /\ Len(b \o e) = Len(b) + Len(e)
      /\ \A j \in 1 .. Len(b) : (b \o e)[j] = b[j]
  BY ConcatProperties
<1>2. PreambleSize \in Nat
  BY FramerAssumption
<1>3. \A j \in i .. i + PreambleSize - 1 : j \in 1..Len(b) /\ j <= Len(b \o e)
  BY <1>1, <1>2
<1> QED
  BY <1>1, <1>3 DEF IsPreamble

LEMMA PreambleDrop ==
  ASSUME NEW b \in Seq(Byte), NEW n \in 0..Len(b), NEW i \in Nat \ {0}
  PROVE  IsPreamble(Drop(b, n), i) <=> IsPreamble(b, n + i)
<1>1. Drop(b, n) \in Seq(Byte) /\ Len(Drop(b, n)) = Len(b) - n
  BY DropProperties
<1>2. \A j \in 1 .. Len(b) - n : Drop(b, n)[j] = b[n + j]
  BY DropElements
<1>3. PreambleSize \in Nat
  BY FramerAssumption
<1>4. ASSUME IsPreamble(Drop(b, n), i), NEW j \in n + i .. n + i + PreambleSize - 1
      PROVE  j <= Len(b) /\ b[j] = 0
  <2>1. j - n \in i .. i + PreambleSize - 1 /\ n + (j - n) = j
    BY <1>3
  <2>2. j - n <= Len(b) - n /\ Drop(b, n)[j - n] = 0
    BY <1>1, <1>4, <2>1 DEF IsPreamble
  <2>3. j - n \in 1 .. Len(b) - n
    BY <2>1, <2>2
  <2> QED
    BY <1>2, <2>1, <2>2, <2>3
<1>5. ASSUME IsPreamble(b, n + i), NEW j \in i .. i + PreambleSize - 1
      PROVE  j <= Len(Drop(b, n)) /\ Drop(b, n)[j] = 0
  <2>1. n + j \in n + i .. n + i + PreambleSize - 1
    BY <1>3
  <2>2. n + j <= Len(b) /\ b[n + j] = 0
    BY <1>5, <2>1 DEF IsPreamble
  <2>3. j \in 1 .. Len(b) - n
    BY <2>2
  <2> QED
    BY <1>1, <1>2, <2>2, <2>3
<1> QED
  BY <1>4, <1>5 DEF IsPreamble

\* A header and a frame are told by their own bytes.
LEMMA HeaderConcat ==
  ASSUME NEW b \in Seq(Byte), NEW e \in Seq(Byte), HasHeader(b)
  PROVE  /\ HasHeader(b \o e) /\ DataLen(b \o e) = DataLen(b)
         /\ Total(b \o e) = Total(b) /\ (LengthValid(b \o e) <=> LengthValid(b))
<1>1. /\ Len(b \o e) = Len(b) + Len(e)
      /\ \A j \in 1 .. Len(b) : (b \o e)[j] = b[j]
  BY ConcatProperties
<1>2. PreambleSize \in Nat \ {0}
  BY FramerAssumption
<1>3. DataLen(b \o e) = DataLen(b)
  BY <1>1, <1>2 DEF DataLen, HasHeader, HeaderSize
<1> QED
  BY <1>1, <1>2, <1>3 DEF HasHeader, HeaderSize, Total, LengthValid

LEMMA FrameConcat ==
  ASSUME NEW b \in Seq(Byte), NEW e \in Seq(Byte), Complete(b)
  PROVE  Complete(b \o e) /\ FrameOf(b \o e) = FrameOf(b)
<1>1. /\ DataLen(b \o e) = DataLen(b) /\ Total(b \o e) = Total(b)
      /\ HasHeader(b \o e) /\ LengthValid(b \o e) /\ Len(b \o e) = Len(b) + Len(e)
  BY HeaderConcat, ConcatProperties DEF Complete
<1>2. /\ DataLen(b) \in Int /\ DataLen(b) > 0 /\ HeaderSize \in Nat /\ HeaderSize >= 3
      /\ CRCSize \in Nat /\ Total(b) = HeaderSize + DataLen(b) + CRCSize /\ Total(b) <= Len(b)
  BY DataLenProperties, FramerAssumption DEF Complete, LengthValid, Total
<1>3. Complete(b \o e)
  BY <1>1, <1>2 DEF Complete
<1>4. SubSeq(b \o e, HeaderSize + 1, HeaderSize + DataLen(b)) = SubSeq(b, HeaderSize + 1, HeaderSize + DataLen(b))
  <2>1. HeaderSize + 1 \in 1..Len(b) /\ HeaderSize + DataLen(b) \in 1..Len(b)
    BY <1>2
  <2> QED
    BY <2>1, SubSeqOfConcat1
<1>5. SubSeq(b \o e, HeaderSize + DataLen(b) + 1, Total(b)) = SubSeq(b, HeaderSize + DataLen(b) + 1, Total(b))
  <2>1. CASE CRCSize = 0
    <3>1. Total(b) < HeaderSize + DataLen(b) + 1 /\ Total(b) \in Int /\ HeaderSize + DataLen(b) + 1 \in Int
      BY <1>2, <2>1
    <3> QED
      BY <3>1, SubSeqEmpty
  <2>2. CASE CRCSize /= 0
    <3>1. HeaderSize + DataLen(b) + 1 \in 1..Len(b) /\ Total(b) \in 1..Len(b)
      BY <1>2, <2>2
    <3> QED
      BY <3>1, SubSeqOfConcat1
  <2> QED
    BY <2>1, <2>2
<1> QED
  BY <1>1, <1>3, <1>4, <1>5 DEF FrameOf

--------------------------------------------------------------------------------
(***************************************************************************)
(* The reference Decode.  Its recursive function exists, is the only one   *)
(* and gives the frames of each suffix; every induction is the choice of a *)
(* least counterexample.                                                   *)
(***************************************************************************)
Last(s, k) == Drop(s, Len(s) - k)
Body(s, f, k) == IF k = 0 THEN <<>> ELSE Scan(Last(s, k), f)
Scans(s, f) == \A k \in 0..Len(s) : f[k] = Body(s, f, k)

LEMMA LastProperties ==
  ASSUME NEW s \in Seq(Byte), NEW k \in 0..Len(s)
  PROVE  Last(s, k) \in Seq(Byte) /\ Len(Last(s, k)) = k
<1>1. Len(s) - k \in 0..Len(s)
  OBVIOUS
<1> QED
  BY <1>1, DropProperties DEF Last

\* The last bytes of the last bytes.
LEMMA LastOfLast ==
  ASSUME NEW s \in Seq(Byte), NEW n \in 0..Len(s), NEW k \in 0..n
  PROVE  Last(Last(s, n), k) = Last(s, k)
<1>1. Len(Last(s, n)) = n
  BY LastProperties
<1>2. Len(s) - n \in Nat /\ n - k \in Nat /\ (Len(s) - n) + (n - k) = Len(s) - k
  OBVIOUS
<1>3. Drop(Drop(s, Len(s) - n), n - k) = Drop(s, (Len(s) - n) + (n - k))
  BY <1>2, DropTwice
<1> QED
  BY <1>1, <1>2, <1>3 DEF Last

\* A look at the start of t uses only what is known of shorter suffixes.
LEMMA ScanLocal ==
  ASSUME NEW t \in Seq(Byte), Len(t) /= 0, NEW f, NEW g, \A j \in 0 .. Len(t) - 1 : f[j] = g[j]
  PROVE  Scan(t, f) = Scan(t, g)
<1>1. f[Len(t) - 1] = g[Len(t) - 1]
  OBVIOUS
<1>2. Complete(t) => f[Len(t) - Total(t)] = g[Len(t) - Total(t)]
  <2>1. SUFFICES ASSUME Complete(t) PROVE Len(t) - Total(t) \in 0 .. Len(t) - 1
    OBVIOUS
  <2>2. Total(t) \in 1..Len(t)
    BY <2>1, FrameProperties
  <2> QED
    BY <2>2
<1>3. HasHeader(t) /\ LengthValid(t) /\ ~(Len(t) < Total(t)) => Complete(t)
  <2>1. HasHeader(t) => Total(t) \in Int
    BY DataLenProperties, FramerAssumption DEF Total
  <2> QED
    BY <2>1 DEF Complete
<1> QED
  BY <1>1, <1>2, <1>3 DEF Scan

LEMMA ScanType ==
  ASSUME NEW t \in Seq(Byte), Len(t) /= 0, NEW f, \A j \in 0 .. Len(t) - 1 : f[j] \in Seq(Frames)
  PROVE  Scan(t, f) \in Seq(Frames)
<1>1. f[Len(t) - 1] \in Seq(Frames) /\ <<>> \in Seq(Frames)
  OBVIOUS
<1>2. Complete(t) => <<FrameOf(t)>> \o f[Len(t) - Total(t)] \in Seq(Frames)
  <2>1. SUFFICES ASSUME Complete(t) PROVE <<FrameOf(t)>> \o f[Len(t) - Total(t)] \in Seq(Frames)
    OBVIOUS
  <2>2. Total(t) \in 1..Len(t) /\ FrameOf(t) \in Frames
    BY <2>1, FrameProperties
  <2>3. f[Len(t) - Total(t)] \in Seq(Frames) /\ <<FrameOf(t)>> \in Seq(Frames)
    BY <2>2
  <2> QED
    BY <2>3, ConcatProperties
<1>3. HasHeader(t) /\ LengthValid(t) /\ ~(Len(t) < Total(t)) => Complete(t)
  <2>1. HasHeader(t) => Total(t) \in Int
    BY DataLenProperties, FramerAssumption DEF Total
  <2> QED
    BY <2>1 DEF Complete
<1> QED
  BY <1>1, <1>2, <1>3 DEF Scan

\* Every set of numbers that is not empty has a least one.
LEMMA LeastNumber ==
  ASSUME NEW T \in SUBSET Nat, T /= {}
  PROVE  \E x \in T : \A y \in T : x <= y
<1> DEFINE R == OpToRel(<, Nat)
<1>1. IsWellFoundedOn(R, Nat)
  BY NatLessThanWellFounded
<1>2. \E x \in T : \A y \in T : ~(<<y, x>> \in R)
  BY <1>1, WFMin
<1>3. \A x, y \in Nat : y < x => <<y, x>> \in R
  BY DEF OpToRel
<1> HIDE DEF R
<1>4. \E x \in T : \A y \in T : ~(y < x)
  BY <1>2, <1>3
<1> QED
  BY <1>4

LEMMA BodyLocal ==
  ASSUME NEW s \in Seq(Byte), NEW k \in 0..Len(s), NEW f, NEW g, \A j \in 0 .. k - 1 : f[j] = g[j]
  PROVE  Body(s, f, k) = Body(s, g, k)
<1>1. Last(s, k) \in Seq(Byte) /\ Len(Last(s, k)) = k
  BY LastProperties
<1>2. CASE k = 0
  BY <1>2 DEF Body
<1>3. CASE k /= 0
  <2> DEFINE t == Last(s, k)
  <2>1. t \in Seq(Byte) /\ Len(t) = k
    BY <1>1
  <2> HIDE DEF t
  <2>2. Scan(t, f) = Scan(t, g)
    BY <1>3, <2>1, ScanLocal
  <2> QED
    BY <1>3, <2>2 DEF Body, t
<1> QED
  BY <1>2, <1>3

LEMMA BodyType ==
  ASSUME NEW s \in Seq(Byte), NEW k \in 0..Len(s), NEW f, \A j \in 0 .. k - 1 : f[j] \in Seq(Frames)
  PROVE  Body(s, f, k) \in Seq(Frames)
<1>1. CASE k = 0
  BY <1>1 DEF Body
<1>2. CASE k /= 0
  <2> DEFINE t == Last(s, k)
  <2>1. t \in Seq(Byte) /\ Len(t) = k
    BY LastProperties
  <2> HIDE DEF t
  <2>2. Scan(t, f) \in Seq(Frames)
    BY <1>2, <2>1, ScanType
  <2> QED
    BY <1>2, <2>2 DEF Body, t
<1> QED
  BY <1>1, <1>2

LEMMA ScansExist ==
  ASSUME NEW s \in Seq(Byte)
  PROVE  \E f \in [0..Len(s) -> Seq(Frames)] : Scans(s, f)
<1> DEFINE Upto(n) == \E f \in [0..n -> Seq(Frames)] : \A k \in 0..n : f[k] = Body(s, f, k)
           Bad == {n \in 0..Len(s) : ~Upto(n)}
<1>1. ASSUME Bad /= {} PROVE FALSE
  <2>1. PICK m \in Bad : \A n \in Bad : m <= n
    <3>1. Bad \in SUBSET Nat
      OBVIOUS
    <3> HIDE DEF Bad
    <3> QED
      BY <1>1, <3>1, LeastNumber
  <2>2. m \in 0..Len(s) /\ ~Upto(m)
    BY <2>1
  <2>3. \E g : \A k \in 0 .. m - 1 : g[k] \in Seq(Frames) /\ g[k] = Body(s, g, k)
    <3>1. CASE m = 0
      BY <3>1
    <3>2. CASE m /= 0
      <4>1. m - 1 \in 0..Len(s) /\ ~(m <= m - 1)
        BY <2>2, <3>2
      <4>2. Upto(m - 1)
        BY <2>1, <4>1
      <4> QED
        BY <4>2
    <3> QED
      BY <3>1, <3>2
  <2>4. PICK g : \A k \in 0 .. m - 1 : g[k] \in Seq(Frames) /\ g[k] = Body(s, g, k)
    BY <2>3
  <2> DEFINE f == [k \in 0..m |-> IF k = m THEN Body(s, g, m) ELSE g[k]]
  <2>5. Body(s, g, m) \in Seq(Frames)
    BY <2>2, <2>4, BodyType
  <2>6. f \in [0..m -> Seq(Frames)]
    <3>1. \A k \in 0..m : k /= m => k \in 0 .. m - 1
      BY <2>2
    <3> QED
      BY <2>4, <2>5, <3>1
  <2>7. (\A k \in 0 .. m - 1 : f[k] = g[k]) /\ f[m] = Body(s, g, m)
    BY <2>2
  <2> HIDE DEF f
  <2>8. ASSUME NEW k \in 0..m PROVE f[k] = Body(s, f, k)
    <3>1. k \in 0..Len(s) /\ \A j \in 0 .. k - 1 : j \in 0 .. m - 1
      BY <2>2
    <3>2. \A j \in 0 .. k - 1 : f[j] = g[j]
      BY <2>7, <3>1
    <3>3. Body(s, f, k) = Body(s, g, k)
      BY <3>1, <3>2, BodyLocal
    <3>4. CASE k = m
      BY <2>7, <3>3, <3>4
    <3>5. CASE k /= m
      <4>1. k \in 0 .. m - 1
        BY <2>2, <3>5
      <4> QED
        BY <2>4, <2>7, <3>3, <4>1
    <3> QED
      BY <3>4, <3>5
  <2> QED
    BY <2>2, <2>6, <2>8
<1>2. Len(s) \in 0..Len(s)
  OBVIOUS
<1>3. Upto(Len(s))
  BY <1>1, <1>2
<1> QED
  BY <1>3 DEF Scans

\* Two byte sequences with the same last n bytes give them the same frames.
LEMMA ScansAgree ==
  ASSUME NEW s \in Seq(Byte), NEW t \in Seq(Byte), NEW n \in 0..Len(s), n <= Len(t), Last(s, n) = Last(t, n),
         NEW f, NEW g, Scans(s, f), Scans(t, g)
  PROVE  \A k \in 0..n : f[k] = g[k]
<1> DEFINE Bad == {k \in 0..n : f[k] /= g[k]}
<1>1. ASSUME Bad /= {} PROVE FALSE
  <2>1. PICK m \in Bad : \A k \in Bad : m <= k
    <3>1. Bad \in SUBSET Nat
      OBVIOUS
    <3> HIDE DEF Bad
    <3> QED
      BY <1>1, <3>1, LeastNumber
  <2>2. m \in 0..n /\ f[m] /= g[m] /\ m \in 0..Len(s) /\ m \in 0..Len(t) /\ n \in 0..Len(t)
    BY <2>1
  <2>3. \A j \in 0 .. m - 1 : f[j] = g[j]
    <3> TAKE j \in 0 .. m - 1
    <3>1. j \in 0..n /\ ~(m <= j)
      BY <2>2
    <3> QED
      BY <2>1, <3>1
  <2>4. Last(s, m) = Last(t, m)
    BY <2>2, LastOfLast
  <2>5. Body(s, f, m) = Body(s, g, m) /\ Body(s, g, m) = Body(t, g, m)
    BY <2>2, <2>3, <2>4, BodyLocal DEF Body
  <2>6. f[m] = Body(s, f, m) /\ g[m] = Body(t, g, m)
    BY <2>2 DEF Scans
  <2> QED
    BY <2>2, <2>5, <2>6
<1> QED
  BY <1>1

\* What Decode chooses.
LEMMA DecodeScans ==
  ASSUME NEW s \in Seq(Byte)
  PROVE  \E f \in [0..Len(s) -> Seq(Frames)] : Scans(s, f) /\ Decode(s) = f[Len(s)]
<1> DEFINE IsRest(f) == f = [k \in 0..Len(s) |-> IF k = 0 THEN <<>> ELSE Scan(Drop(s, Len(s) - k), f)]
           rest == CHOOSE f : IsRest(f)
<1>1. Decode(s) = rest[Len(s)]
  BY DEF Decode
<1>2. PICK f \in [0..Len(s) -> Seq(Frames)] : Scans(s, f)
  BY ScansExist
<1>3. IsRest(f)
  BY <1>2 DEF Scans, Body, Last
<1>4. IsRest(rest)
  BY <1>3
<1>5. Scans(s, rest)
  BY <1>4 DEF Scans, Body, Last
<1>6. \A k \in 0..Len(s) : rest[k] = f[k]
  <2> HIDE DEF rest
  <2>1. Len(s) \in 0..Len(s)
    OBVIOUS
  <2> QED
    BY <1>2, <1>5, <2>1, ScansAgree
<1> HIDE DEF rest
<1> QED
  BY <1>1, <1>2, <1>6

LEMMA DecodeType ==
  ASSUME NEW s \in Seq(Byte)
  PROVE  Decode(s) \in Seq(Frames)
<1>1. Len(s) \in 0..Len(s)
  OBVIOUS
<1> QED
  BY <1>1, DecodeScans

\* The function gives the frames of every suffix.
LEMMA ScansSuffix ==
  ASSUME NEW s \in Seq(Byte), NEW f, Scans(s, f), NEW n \in 0..Len(s)
  PROVE  f[n] = Decode(Last(s, n))
<1> DEFINE t == Last(s, n)
<1>1. t \in Seq(Byte) /\ Len(t) = n
  BY LastProperties
<1>2. Last(t, n) = Last(s, n)
  BY LastOfLast
<1>3. PICK g : Scans(t, g) /\ Decode(t) = g[Len(t)]
  BY <1>1, DecodeScans
<1> HIDE DEF t
<1>4. n <= Len(t) /\ n \in 0..n
  BY <1>1
<1>5. f[n] = g[n]
  BY <1>1, <1>2, <1>3, <1>4, ScansAgree
<1> QED
  BY <1>1, <1>3, <1>5 DEF t

LEMMA DecodeEmpty == Decode(<<>>) = <<>>
<1>1. <<>> \in Seq(Byte) /\ Len(<<>>) = 0
  OBVIOUS
<1>2. PICK f : Scans(<<>>, f) /\ Decode(<<>>) = f[Len(<<>>)]
  BY <1>1, DecodeScans
<1>3. f[0] = Body(<<>>, f, 0)
  BY <1>1, <1>2 DEF Scans
<1> QED
  BY <1>1, <1>2, <1>3 DEF Body

\* One look at the start of a byte sequence.
LEMMA DecodeStep ==
  ASSUME NEW s \in Seq(Byte), Len(s) /= 0
  PROVE  /\ ~IsPreamble(s, 1) => Decode(s) = Decode(Drop(s, 1))
         /\ IsPreamble(s, 1) /\ ~HasHeader(s) => Decode(s) = <<>>
         /\ IsPreamble(s, 1) /\ HasHeader(s) /\ ~LengthValid(s) => Decode(s) = Decode(Drop(s, 1))
         /\ IsPreamble(s, 1) /\ HasHeader(s) /\ LengthValid(s) /\ Len(s) < Total(s) => Decode(s) = <<>>
         /\ IsPreamble(s, 1) /\ Complete(s) /\ FrameOf(s).payload[1] \notin Known => Decode(s) = Decode(Drop(s, 1))
         /\ IsPreamble(s, 1) /\ Complete(s) /\ FrameOf(s).payload[1] \in Known
              => Decode(s) = <<FrameOf(s)>> \o Decode(Drop(s, Total(s)))
<1>1. PICK f : Scans(s, f) /\ Decode(s) = f[Len(s)]
  BY DecodeScans
<1>2. Len(s) \in 0..Len(s) /\ Len(s) - 1 \in 0..Len(s) /\ Len(s) - Len(s) = 0 /\ Len(s) - (Len(s) - 1) = 1
  OBVIOUS
<1>3. Decode(s) = Scan(Last(s, Len(s)), f)
  BY <1>1, <1>2 DEF Scans, Body
<1>4. Last(s, Len(s)) = s /\ Last(s, Len(s) - 1) = Drop(s, 1)
  BY <1>2, DropNone DEF Last
<1>5. f[Len(s) - 1] = Decode(Drop(s, 1))
  BY <1>1, <1>2, <1>4, ScansSuffix
<1>6. ASSUME Complete(s)
      PROVE  f[Len(s) - Total(s)] = Decode(Drop(s, Total(s))) /\ ~(Len(s) < Total(s))
  <2>1. Total(s) \in 1..Len(s)
    BY <1>6, FrameProperties
  <2>2. Len(s) - Total(s) \in 0..Len(s) /\ Len(s) - (Len(s) - Total(s)) = Total(s)
    BY <2>1
  <2>3. Last(s, Len(s) - Total(s)) = Drop(s, Total(s))
    BY <2>2 DEF Last
  <2> QED
    BY <1>1, <2>1, <2>2, <2>3, ScansSuffix
<1>7. Decode(s) = Scan(s, f)
  BY <1>3, <1>4
<1>8. Complete(s) => HasHeader(s) /\ LengthValid(s)
  BY DEF Complete
<1> QED
  BY <1>5, <1>6, <1>7, <1>8 DEF Scan

--------------------------------------------------------------------------------
(***************************************************************************)
(* The frames of the stream are those returned and those of the buffer,    *)
(* whatever bytes e are still to come; and a goroutine that waits has none *)
(* in its buffer.                                                          *)
(***************************************************************************)
ScanInv ==
  /\ \A e \in Seq(Byte) : Decode(stream \o e) = frames \o Decode(buf \o e)
  /\ reading => Decode(buf) = <<>>

\* Bytes before the first preamble hold no frame.
LEMMA DecodeSkip ==
  ASSUME NEW s \in Seq(Byte), NEW n \in 0..Len(s), \A i \in 1..n : ~IsPreamble(s, i)
  PROVE  Decode(s) = Decode(Drop(s, n))
<1> DEFINE Bad == {k \in 0..n : Decode(s) /= Decode(Drop(s, k))}
<1>1. ASSUME Bad /= {} PROVE FALSE
  <2>1. PICK m \in Bad : \A k \in Bad : m <= k
    <3>1. Bad \in SUBSET Nat
      OBVIOUS
    <3> HIDE DEF Bad
    <3> QED
      BY <1>1, <3>1, LeastNumber
  <2>2. m \in 0..n /\ Decode(s) /= Decode(Drop(s, m))
    BY <2>1
  <2>3. m /= 0
    BY <2>2, DropNone
  <2> DEFINE d == Drop(s, m - 1)
  <2>4. m - 1 \in 0..n /\ m - 1 \in 0..Len(s) /\ ~(m <= m - 1) /\ m \in 1..n /\ m - 1 + 1 = m
    BY <2>2, <2>3
  <2>5. Decode(s) = Decode(d)
    BY <2>1, <2>4
  <2>6. d \in Seq(Byte) /\ Len(d) = Len(s) - (m - 1)
    BY <2>4, DropProperties
  <2>7. IsPreamble(d, 1) <=> IsPreamble(s, m)
    <3>1. PICK p \in 0..Len(s) : p = m - 1 /\ p + 1 = m
      BY <2>4
    <3>2. IsPreamble(Drop(s, p), 1) <=> IsPreamble(s, p + 1)
      BY PreambleDrop
    <3> QED
      BY <3>1, <3>2
  <2>8. Drop(d, 1) = Drop(s, m)
    BY <2>4, DropTwice
  <2> HIDE DEF d
  <2>9. Len(d) /= 0 /\ ~IsPreamble(d, 1)
    BY <2>4, <2>6, <2>7
  <2>10. Decode(d) = Decode(Drop(d, 1))
    BY <2>6, <2>9, DecodeStep
  <2> QED
    BY <2>2, <2>5, <2>8, <2>10
<1>2. n \in 0..n
  OBVIOUS
<1> QED
  BY <1>1, <1>2

\* A buffer shorter than a preamble has no frame.
LEMMA DecodeShort ==
  ASSUME NEW s \in Seq(Byte), Len(s) < PreambleSize
  PROVE  Decode(s) = <<>>
<1>1. PreambleSize \in Nat \ {0}
  BY FramerAssumption
<1>2. \A i \in 1..Len(s) : ~IsPreamble(s, i)
  <2> SUFFICES ASSUME NEW i \in 1..Len(s), IsPreamble(s, i) PROVE FALSE
    OBVIOUS
  <2>1. i + PreambleSize - 1 \in i .. i + PreambleSize - 1
    BY <1>1
  <2>2. i + PreambleSize - 1 <= Len(s)
    BY <2>1 DEF IsPreamble
  <2> QED
    BY <1>1, <2>2
<1>3. Len(s) \in 0..Len(s) /\ Drop(s, Len(s)) = <<>>
  BY SubSeqEmpty DEF Drop
<1> QED
  BY <1>2, <1>3, DecodeSkip, DecodeEmpty

\* The first preamble is the first, and fits.
LEMMA FirstIsFirst ==
  ASSUME NEW b \in Seq(Byte), Starts(b) /= {}
  PROVE  /\ First(b) \in 1..Len(b) /\ IsPreamble(b, First(b)) /\ First(b) + PreambleSize - 1 <= Len(b)
         /\ \A i \in 1 .. First(b) - 1 : ~IsPreamble(b, i)
<1>1. Starts(b) \in SUBSET Nat
  BY DEF Starts
<1>2. \E x \in Starts(b) : \A y \in Starts(b) : x <= y
  BY <1>1, LeastNumber
<1>3. First(b) \in Starts(b) /\ \A y \in Starts(b) : First(b) <= y
  BY <1>2 DEF First
<1>4. First(b) \in 1..Len(b) /\ IsPreamble(b, First(b))
  BY <1>3 DEF Starts
<1>5. First(b) + PreambleSize - 1 <= Len(b)
  <2>1. PreambleSize \in Nat \ {0}
    BY FramerAssumption
  <2>2. First(b) + PreambleSize - 1 \in First(b) .. First(b) + PreambleSize - 1
    BY <1>4, <2>1
  <2> QED
    BY <1>4, <2>2 DEF IsPreamble
<1>6. ASSUME NEW i \in 1 .. First(b) - 1 PROVE ~IsPreamble(b, i)
  <2>1. i \in 1..Len(b) /\ ~(First(b) <= i)
    BY <1>4
  <2> QED
    BY <1>3, <2>1 DEF Starts
<1> QED
  BY <1>4, <1>5, <1>6

\* Cutting the buffer at the first preamble loses no frame, now or later.
LEMMA AlignedDecode ==
  ASSUME NEW b \in Seq(Byte), NEW e \in Seq(Byte), Starts(b) /= {}
  PROVE  Decode(b \o e) = Decode(Aligned(b) \o e) /\ IsPreamble(Aligned(b) \o e, 1)
<1> DEFINE n == First(b) - 1
           c == b \o e
<1>1. /\ First(b) \in 1..Len(b) /\ IsPreamble(b, First(b)) /\ First(b) + PreambleSize - 1 <= Len(b)
      /\ \A i \in 1..n : ~IsPreamble(b, i)
  BY FirstIsFirst
<1>2. n \in 0..Len(b) /\ n + 1 = First(b) /\ PreambleSize \in Nat
  BY <1>1, FramerAssumption
<1>3. \A i \in 1..n : ~IsPreamble(c, i)
  <2> TAKE i \in 1..n
  <2>1. i \in 1..Len(b) /\ i + PreambleSize - 1 <= Len(b)
    BY <1>1, <1>2
  <2> QED
    BY <1>1, <2>1, PreambleConcat
<1>4. c \in Seq(Byte) /\ Len(c) = Len(b) + Len(e)
  BY ConcatProperties
<1>5. IsPreamble(c, n + 1)
  BY <1>1, <1>2, PreambleConcat
<1>6. Drop(c, n) = Aligned(b) \o e
  BY <1>2, DropConcat DEF Aligned
<1> HIDE DEF n, c
<1>7. n \in 0..Len(c)
  BY <1>2, <1>4
<1>8. Decode(c) = Decode(Drop(c, n)) /\ IsPreamble(Drop(c, n), 1)
  BY <1>3, <1>4, <1>5, <1>7, DecodeSkip, PreambleDrop
<1> QED
  BY <1>6, <1>8 DEF c

LEMMA InitScanInv == Init => ScanInv
<1> SUFFICES ASSUME Init PROVE ScanInv
  OBVIOUS
<1>1. stream = <<>> /\ buf = <<>> /\ frames = <<>>
  BY DEF Init
<1>2. ASSUME NEW e \in Seq(Byte)
      PROVE  Decode(stream \o e) = frames \o Decode(buf \o e)
  <2>1. <<>> \o e = e
    BY ConcatEmptySeq
  <2>2. Decode(e) \in Seq(Frames)
    BY DecodeType
  <2>3. <<>> \o Decode(e) = Decode(e)
    BY <2>2, ConcatEmptySeq
  <2> QED
    BY <1>1, <2>1, <2>3
<1> QED
  BY <1>1, <1>2, DecodeEmpty DEF ScanInv

LEMMA ReadScan ==
  ASSUME FramerInv, ScanInv, NEW n \in 1..ReadSize, Read(n)
  PROVE  ScanInv'
<1> DEFINE c == SubSeq(wire, 1, n)
<1>1. c \in Seq(Byte)
  <2>1. n \in 0..Len(wire) /\ n \in Int /\ 1 \in Int
    BY FramerAssumption DEF Read, FramerInv, TypeOK
  <2>2. \A i \in 1..n : wire[i] \in Byte
    BY <2>1 DEF FramerInv, TypeOK
  <2> QED
    BY <2>1, <2>2, SubSeqProperties
<1>2. /\ buf' = buf \o c /\ stream' = stream \o c /\ ~reading' /\ frames' = frames
      /\ buf \in Seq(Byte) /\ stream \in Seq(Byte)
  BY DEF Read, FramerInv, TypeOK
<1> HIDE DEF c
<1>3. ASSUME NEW e \in Seq(Byte)
      PROVE  Decode(stream' \o e) = frames \o Decode(buf' \o e)
  <2>1. c \o e \in Seq(Byte)
    BY <1>1, ConcatProperties
  <2>2. stream' \o e = stream \o (c \o e) /\ buf' \o e = buf \o (c \o e)
    <3>1. (stream \o c) \o e = stream \o (c \o e)
      BY <1>1, <1>2, ConcatAssociative
    <3>2. (buf \o c) \o e = buf \o (c \o e)
      BY <1>1, <1>2, ConcatAssociative
    <3> QED
      BY <1>2, <3>1, <3>2
  <2> QED
    BY <2>1, <2>2 DEF ScanInv
<1> QED
  BY <1>2, <1>3 DEF ScanInv

\* Dropping bytes that are of no frame.
LEMMA ShrinkScan ==
  ASSUME FramerInv, ScanInv, UNCHANGED <<stream, frames>>,
         \A e \in Seq(Byte) : Decode(buf \o e) = Decode(buf' \o e),
         reading' => Decode(buf') = <<>>
  PROVE  ScanInv'
BY DEF ScanInv

LEMMA NoPreambleScan ==
  ASSUME FramerInv, ScanInv, NoPreamble
  PROVE  ScanInv'
<1>0. buf \in Seq(Byte) /\ UNCHANGED <<stream, frames>> /\ PreambleSize \in Nat \ {0} /\ Starts(buf) = {}
  BY FramerAssumption DEF FramerInv, TypeOK, NoPreamble
<1>1. CASE Len(buf) > PreambleSize - 1
  <2> DEFINE n == Len(buf) - (PreambleSize - 1)
  <2>1. n \in 0..Len(buf) /\ buf' = Drop(buf, n)
    BY <1>0, <1>1 DEF NoPreamble
  <2>2. buf' \in Seq(Byte) /\ Len(buf') = Len(buf) - n
    BY <1>0, <2>1, DropProperties
  <2>3. Len(buf') < PreambleSize
    BY <1>0, <2>2
  <2>4. ASSUME NEW e \in Seq(Byte)
        PROVE  Decode(buf \o e) = Decode(buf' \o e)
    <3>1. \A i \in 1..n : ~IsPreamble(buf \o e, i)
      <4> TAKE i \in 1..n
      <4>1. i \in 1..Len(buf) /\ i + PreambleSize - 1 <= Len(buf)
        BY <1>0, <2>1
      <4>2. ~IsPreamble(buf, i)
        BY <1>0, <4>1 DEF Starts
      <4> QED
        BY <1>0, <4>1, <4>2, PreambleConcat
    <3>2. Drop(buf \o e, n) = buf' \o e
      BY <1>0, <2>1, DropConcat
    <3> DEFINE c == buf \o e
    <3>3. c \in Seq(Byte) /\ Len(c) = Len(buf) + Len(e)
      BY <1>0, ConcatProperties
    <3>4. \A i \in 1..n : ~IsPreamble(c, i)
      BY <3>1
    <3> HIDE DEF c, n
    <3>5. n \in 0..Len(c)
      BY <1>0, <2>1, <3>3
    <3>6. Decode(c) = Decode(Drop(c, n))
      BY <3>3, <3>4, <3>5, DecodeSkip
    <3> QED
      BY <3>2, <3>6 DEF c
  <2> QED
    BY <1>0, <2>2, <2>3, <2>4, DecodeShort, ShrinkScan
<1>2. CASE ~(Len(buf) > PreambleSize - 1)
  <2>1. buf' = buf /\ Len(buf) < PreambleSize
    BY <1>0, <1>2 DEF NoPreamble
  <2> QED
    BY <1>0, <2>1, DecodeShort, ShrinkScan
<1> QED
  BY <1>1, <1>2

LEMMA NeedMoreScan ==
  ASSUME FramerInv, ScanInv, NeedMore
  PROVE  ScanInv'
<1>0. buf \in Seq(Byte) /\ UNCHANGED <<stream, frames>> /\ Starts(buf) /= {} /\ buf' = Aligned(buf)
  BY DEF FramerInv, TypeOK, NeedMore
<1>1. buf' \in Seq(Byte) /\ Len(buf') \in 1..Len(buf)
  BY <1>0, AlignedProperties
<1>2. \A e \in Seq(Byte) : Decode(buf \o e) = Decode(buf' \o e) /\ IsPreamble(buf' \o e, 1)
  BY <1>0, AlignedDecode
<1>3. IsPreamble(buf', 1)
  <2>1. <<>> \in Seq(Byte) /\ buf' \o <<>> = buf'
    BY <1>1, ConcatEmptySeq
  <2> QED
    BY <1>2, <2>1
<1>4. HasHeader(buf') => LengthValid(buf') /\ Len(buf') < Total(buf')
  BY <1>0 DEF NeedMore
<1>5. Decode(buf') = <<>>
  <2> DEFINE b == Aligned(buf)
  <2>1. b \in Seq(Byte) /\ Len(b) /= 0 /\ IsPreamble(b, 1)
        /\ (HasHeader(b) => LengthValid(b) /\ Len(b) < Total(b))
    BY <1>0, <1>1, <1>3, <1>4
  <2> HIDE DEF b
  <2>2. Decode(b) = <<>>
    BY <2>1, DecodeStep
  <2> QED
    BY <1>0, <2>2 DEF b
<1> QED
  BY <1>0, <1>2, <1>5, ShrinkScan

LEMMA ResyncScan ==
  ASSUME FramerInv, ScanInv, Resync
  PROVE  ScanInv'
<1> DEFINE b == Aligned(buf)
<1>0. /\ buf \in Seq(Byte) /\ UNCHANGED <<stream, frames, reading>> /\ ~reading /\ Starts(buf) /= {}
      /\ buf' = Drop(b, 1) /\ HasHeader(b)
      /\ ~LengthValid(b) \/ (Complete(b) /\ FrameOf(b).payload[1] \notin Known)
  BY DEF FramerInv, TypeOK, Resync
<1>1. b \in Seq(Byte) /\ Len(b) \in 1..Len(buf)
  BY <1>0, AlignedProperties
<1>2. ASSUME NEW e \in Seq(Byte)
      PROVE  Decode(buf \o e) = Decode(buf' \o e)
  <2> DEFINE c == b \o e
  <2>1. Decode(buf \o e) = Decode(c) /\ IsPreamble(c, 1)
    BY <1>0, AlignedDecode
  <2>2. c \in Seq(Byte) /\ Len(c) = Len(b) + Len(e)
    BY <1>1, ConcatProperties
  <2>3. HasHeader(c) /\ (~LengthValid(c) \/ (Complete(c) /\ FrameOf(c).payload[1] \notin Known))
    <3> HIDE DEF b
    <3> QED
      BY <1>0, <1>1, HeaderConcat, FrameConcat
  <2>4. Drop(c, 1) = buf' \o e
    <3>1. 1 \in 0..Len(b)
      BY <1>1
    <3> HIDE DEF b
    <3> QED
      BY <1>0, <1>1, <3>1, DropConcat
  <2> HIDE DEF c
  <2>5. Len(c) /= 0
    BY <1>1, <2>2
  <2>6. Decode(c) = Decode(Drop(c, 1))
    BY <2>1, <2>2, <2>3, <2>5, DecodeStep
  <2> QED
    BY <2>1, <2>4, <2>6
<1> QED
  BY <1>0, <1>2, ShrinkScan

LEMMA ReturnScan ==
  ASSUME FramerInv, ScanInv, ReturnFrame
  PROVE  ScanInv'
<1> DEFINE b == Aligned(buf)
           F == FrameOf(b)
<1>0. /\ buf \in Seq(Byte) /\ UNCHANGED <<stream, reading>> /\ ~reading /\ Starts(buf) /= {}
      /\ frames \in Seq(Frames) /\ frames' = Append(frames, F)
      /\ buf' = Drop(b, Total(b)) /\ Complete(b) /\ F.payload[1] \in Known
  BY DEF FramerInv, TypeOK, ReturnFrame
<1>1. b \in Seq(Byte) /\ Len(b) \in 1..Len(buf)
  BY <1>0, AlignedProperties
<1> HIDE DEF b
<1>2. F \in Frames /\ Total(b) \in 1..Len(b)
  BY <1>0, <1>1, FrameProperties
<1>3. buf' \in Seq(Byte)
  BY <1>0, <1>1, <1>2, DropProperties
<1>4. ASSUME NEW e \in Seq(Byte)
      PROVE  Decode(stream \o e) = frames' \o Decode(buf' \o e)
  <2> DEFINE c == b \o e
  <2>1. Decode(buf \o e) = Decode(c) /\ IsPreamble(c, 1)
    BY <1>0, AlignedDecode DEF b
  <2>2. c \in Seq(Byte) /\ Len(c) = Len(b) + Len(e)
    BY <1>1, ConcatProperties
  <2>3. Complete(c) /\ FrameOf(c) = F /\ Total(c) = Total(b)
    BY <1>0, <1>1, FrameConcat, HeaderConcat DEF Complete
  <2>4. Drop(c, Total(b)) = buf' \o e
    <3>1. Total(b) \in 0..Len(b)
      BY <1>2
    <3> QED
      BY <1>0, <1>1, <3>1, DropConcat
  <2> HIDE DEF c, F
  <2>5. Len(c) /= 0
    BY <1>1, <2>2
  <2>6. Decode(c) = <<F>> \o Decode(buf' \o e)
    BY <1>0, <2>1, <2>2, <2>3, <2>4, <2>5, DecodeStep
  <2> DEFINE D == Decode(buf' \o e)
  <2>7. D \in Seq(Frames)
    BY <1>3, ConcatProperties, DecodeType
  <2>8. Decode(stream \o e) = frames \o (<<F>> \o D)
    BY <2>1, <2>6 DEF ScanInv
  <2> HIDE DEF D
  <2>9. <<F>> \in Seq(Frames) /\ Append(frames, F) = frames \o <<F>>
    BY <1>0, <1>2
  <2>10. (frames \o <<F>>) \o D = frames \o (<<F>> \o D)
    BY <1>0, <2>7, <2>9, ConcatAssociative
  <2> QED
    BY <1>0, <2>8, <2>9, <2>10 DEF D
<1> QED
  BY <1>0, <1>4 DEF ScanInv

LEMMA NextScanInv == FramerInv /\ ScanInv /\ [Next]_vars => ScanInv'
<1> SUFFICES ASSUME FramerInv, ScanInv, [Next]_vars PROVE ScanInv'
  OBVIOUS
<1>1. CASE UNCHANGED vars
  BY <1>1 DEF ScanInv, vars
<1> QED
  BY <1>1, ReadScan, NoPreambleScan, NeedMoreScan, ResyncScan, ReturnScan DEF Next, NextIteration

\* What the framer has returned and what its buffer still holds are together
\* what the stream holds, however it goes on (framing.go, Next).
THEOREM ScanInvariant == Spec => []ScanInv
BY InitScanInv, NextScanInv, FramerInvariant, PTL DEF Spec

\* However the stream is cut into reads, the frames returned are those a scan
\* of the whole stream finds (framing.go, Next).
THEOREM ChunkingNeverMatters == Spec => []ChunkingIrrelevant
<1>1. FramerInv /\ ScanInv => ChunkingIrrelevant
  <2> SUFFICES ASSUME FramerInv, ScanInv, reading PROVE frames = Decode(stream)
    BY DEF ChunkingIrrelevant
  <2>1. <<>> \in Seq(Byte) /\ stream \o <<>> = stream /\ buf \o <<>> = buf
    BY ConcatEmptySeq DEF FramerInv, TypeOK
  <2>2. Decode(stream) = frames \o Decode(buf) /\ Decode(buf) = <<>>
    BY <2>1 DEF ScanInv
  <2>3. frames \o <<>> = frames
    BY ConcatEmptySeq DEF FramerInv, TypeOK
  <2> QED
    BY <2>2, <2>3
<1> QED
  BY <1>1, FramerInvariant, ScanInvariant, PTL

--------------------------------------------------------------------------------
(***************************************************************************)
(* On a line that carries frames the buffer and the bytes that are still   *)
(* to be read begin, once a frame has been returned, with the next frame.  *)
(***************************************************************************)
Place(L, fs, pos, q, k, x) ==
  /\ pos \in [1 .. Len(fs) + 1 -> 0 .. Len(L)] /\ Carries(L, fs, pos)
  /\ k \in 0..Len(fs) /\ q \in 0..Len(L)
  /\ x = Drop(L, q)
  /\ q <= pos[k + 1] /\ (k /= 0 => q = pos[k + 1])

LineInv ==
  sent /= <<>> =>
    \E pos, q :
      /\ Place(stream \o wire, sent, pos, q, Len(frames), buf \o wire)
      /\ frames = SubSeq(sent, 1, Len(frames))

\* A frame as it was encoded is read as it was.
LEMMA EncodedIsRead ==
  ASSUME NEW t \in Seq(Byte), NEW f \in Frames, Sendable(f), BeginsWith(t, f)
  PROVE  /\ IsPreamble(t, 1) /\ Complete(t) /\ FrameOf(t) = f /\ f.payload[1] \in Known
         /\ Total(t) = Size(f) /\ Size(f) \in Nat \ {0} /\ Len(t) /= 0
<1>1. PreambleSize \in Nat \ {0} /\ CRCSize \in Nat /\ MaxDataLen \in Nat
  BY FramerAssumption
<1>2. PICK h \in Nat : h = HeaderSize /\ h = PreambleSize + 2
  BY <1>1 DEF HeaderSize
<1>3. PICK n \in Nat : n = Len(f.payload) /\ n > 0 /\ n <= MaxDataLen
  BY <1>1 DEF Sendable, Frames
<1>4. DataLen(t) = n /\ Len(t) >= Size(f) /\ Len(t) \in Nat
  BY <1>3 DEF BeginsWith, DataLen
<1>5. Size(f) = h + n + CRCSize
  BY <1>2, <1>3 DEF Size
<1>6. Total(t) = Size(f) /\ Size(f) \in Nat \ {0} /\ Len(t) >= h /\ Len(t) >= PreambleSize /\ Len(t) /= 0
  <2>1. Total(t) = h + n + CRCSize
    BY <1>2, <1>4 DEF Total
  <2>2. h \in Nat /\ n \in Nat /\ n > 0 /\ CRCSize \in Nat /\ PreambleSize \in Nat /\ h = PreambleSize + 2
    BY <1>1, <1>2, <1>3
  <2>3. h + n + CRCSize \in Nat \ {0} /\ h + n + CRCSize >= h /\ h + n + CRCSize >= PreambleSize
    BY <2>2
  <2> QED
    BY <1>4, <1>5, <2>1, <2>2, <2>3
<1>7. Complete(t)
  BY <1>2, <1>3, <1>4, <1>6 DEF Complete, HasHeader, LengthValid
<1>8. IsPreamble(t, 1)
  <2>1. \A j \in 1 .. 1 + PreambleSize - 1 : j \in 1..PreambleSize /\ j <= Len(t)
    BY <1>1, <1>4, <1>6
  <2> QED
    BY <2>1 DEF IsPreamble, BeginsWith
<1>9. FrameOf(t) = [payload |-> f.payload, crc |-> f.crc]
  BY <1>3, <1>4, <1>6 DEF FrameOf, BeginsWith
<1>10. f = [payload |-> f.payload, crc |-> f.crc]
  BY DEF Frames
<1> QED
  BY <1>6, <1>7, <1>8, <1>9, <1>10 DEF Sendable

\* A frame that has not been returned is ahead, behind bytes other than zero.
LEMMA FrameAhead ==
  ASSUME NEW L \in Seq(Byte), NEW fs \in Seq(Frames), NEW pos, NEW q, NEW k, NEW x,
         Place(L, fs, pos, q, k, x), k /= Len(fs)
  PROVE  \E r \in 0..Len(x) :
           /\ r = pos[k + 1] - q
           /\ Drop(x, r) = Drop(L, pos[k + 1]) /\ BeginsWith(Drop(x, r), fs[k + 1]) /\ Sendable(fs[k + 1])
           /\ \A i \in 1..r : ~IsPreamble(x, i)
           /\ IsPreamble(x, r + 1)
<1>1. /\ k + 1 \in 1..Len(fs) /\ pos[k + 1] \in 0..Len(L) /\ q \in 0..Len(L) /\ q <= pos[k + 1]
      /\ k /= 0 => q = pos[k + 1]
  BY DEF Place
<1>2. x \in Seq(Byte) /\ Len(x) = Len(L) - q /\ (\A i \in 1 .. Len(L) - q : x[i] = L[q + i]) /\ x = Drop(L, q)
  BY DropProperties, DropElements DEF Place
<1>3. PICK r \in 0..Len(x) : r = pos[k + 1] - q /\ q + r = pos[k + 1]
  BY <1>1, <1>2
<1>4. Drop(x, r) = Drop(L, pos[k + 1])
  BY <1>1, <1>2, <1>3, DropTwice
<1>5. BeginsWith(Drop(x, r), fs[k + 1]) /\ Sendable(fs[k + 1])
  BY <1>1, <1>4 DEF Place, Carries
<1>6. IsPreamble(x, r + 1)
  <2> DEFINE d == Drop(x, r)
  <2>1. d \in Seq(Byte) /\ fs[k + 1] \in Frames /\ BeginsWith(d, fs[k + 1])
    BY <1>1, <1>2, <1>5, DropProperties
  <2>2. IsPreamble(d, 1) <=> IsPreamble(x, r + 1)
    BY <1>2, PreambleDrop
  <2> HIDE DEF d
  <2> QED
    BY <1>5, <2>1, <2>2, EncodedIsRead
<1>7. ASSUME NEW i \in 1..r PROVE ~IsPreamble(x, i)
  <2>1. k = 0
    BY <1>1, <1>3
  <2>2. i \in 1 .. Len(L) - q /\ q + i \in 1..pos[1]
    BY <1>1, <1>2, <1>3, <2>1
  <2>3. x[i] /= 0
    BY <1>2, <2>2 DEF Place, Carries
  <2>4. PreambleSize \in Nat \ {0}
    BY FramerAssumption
  <2>5. i \in i .. i + PreambleSize - 1
    BY <2>4
  <2> QED
    BY <2>3, <2>5 DEF IsPreamble
<1> QED
  BY <1>3, <1>4, <1>5, <1>6, <1>7

\* Bytes at which no preamble starts are not of a frame.
LEMMA SkipPlace ==
  ASSUME NEW L \in Seq(Byte), NEW fs \in Seq(Frames), fs /= <<>>, NEW pos, NEW q, NEW k, NEW x,
         Place(L, fs, pos, q, k, x), NEW n \in 0..Len(x), \A i \in 1..n : ~IsPreamble(x, i)
  PROVE  Place(L, fs, pos, q + n, k, Drop(x, n))
<1>1. /\ k \in 0..Len(fs) /\ q \in 0..Len(L) /\ q <= pos[k + 1] /\ pos[k + 1] \in 0..Len(L)
      /\ k /= 0 => q = pos[k + 1]
  BY DEF Place
<1>2. Len(x) = Len(L) - q /\ x = Drop(L, q)
  BY <1>1, DropProperties DEF Place
<1>3. q + n \in 0..Len(L) /\ Drop(x, n) = Drop(L, q + n)
  BY <1>1, <1>2, DropTwice
<1>4. q + n <= pos[k + 1] /\ (k /= 0 => q + n = pos[k + 1])
  <2>1. CASE k = Len(fs)
    <3>1. k /= 0
      BY <2>1
    <3>2. pos[k + 1] = Len(L)
      BY <2>1 DEF Place, Carries
    <3> QED
      BY <1>1, <1>2, <3>1, <3>2
  <2>2. CASE k /= Len(fs)
    <3>1. PICK r \in 0..Len(x) : r = pos[k + 1] - q /\ IsPreamble(x, r + 1)
      BY <2>2, FrameAhead
    <3>2. ~(r + 1 \in 1..n)
      BY <3>1
    <3>3. n <= r
      BY <1>2, <3>2
    <3> QED
      BY <1>1, <1>2, <3>1, <3>3
  <2> QED
    BY <2>1, <2>2
<1> QED
  BY <1>3, <1>4 DEF Place

\* The first preamble in the buffer is that of the next frame.
LEMMA FrontPlace ==
  ASSUME NEW L \in Seq(Byte), NEW fs \in Seq(Frames), fs /= <<>>, NEW pos, NEW q, NEW k,
         NEW b \in Seq(Byte), NEW w \in Seq(Byte), Place(L, fs, pos, q, k, b \o w), Starts(b) /= {}
  PROVE  /\ k /= Len(fs)
         /\ Place(L, fs, pos, pos[k + 1], k, Aligned(b) \o w)
         /\ Sendable(fs[k + 1]) /\ BeginsWith(Aligned(b) \o w, fs[k + 1])
<1> DEFINE x == b \o w
           n == First(b) - 1
<1>1. /\ First(b) \in 1..Len(b) /\ IsPreamble(b, First(b)) /\ First(b) + PreambleSize - 1 <= Len(b)
      /\ \A i \in 1..n : ~IsPreamble(b, i)
  BY FirstIsFirst
<1>2. n \in 0..Len(b) /\ n + 1 = First(b) /\ PreambleSize \in Nat
  BY <1>1, FramerAssumption
<1>3. \A i \in 1..n : ~IsPreamble(x, i)
  <2> TAKE i \in 1..n
  <2>1. i \in 1..Len(b) /\ i + PreambleSize - 1 <= Len(b)
    BY <1>1, <1>2
  <2> QED
    BY <1>1, <2>1, PreambleConcat
<1>4. IsPreamble(x, n + 1)
  BY <1>1, <1>2, PreambleConcat
<1>5. x \in Seq(Byte) /\ Len(x) = Len(b) + Len(w)
  BY ConcatProperties
<1>6. Drop(x, n) = Aligned(b) \o w
  BY <1>2, DropConcat DEF Aligned
<1>7. Place(L, fs, pos, q, k, x)
  OBVIOUS
<1> HIDE DEF x
<1>8. n \in 0..Len(x) /\ n \in Nat
  BY <1>2, <1>5
<1>9. Place(L, fs, pos, q + n, k, Drop(x, n))
  <2> HIDE DEF n
  <2> QED
    BY <1>3, <1>7, <1>8, SkipPlace
<1>10. /\ k \in 0..Len(fs) /\ q \in 0..Len(L) /\ pos[k + 1] \in 0..Len(L)
       /\ Len(x) = Len(L) - q
  <2>1. /\ k \in 0..Len(fs) /\ q \in 0..Len(L) /\ x = Drop(L, q)
        /\ pos \in [1 .. Len(fs) + 1 -> 0 .. Len(L)]
    BY <1>7 DEF Place
  <2>2. k + 1 \in 1 .. Len(fs) + 1
    BY <2>1
  <2> QED
    BY <2>1, <2>2, DropProperties
<1>11. k /= Len(fs)
  <2> SUFFICES ASSUME k = Len(fs) PROVE FALSE
    OBVIOUS
  <2>1. k /= 0 /\ pos[k + 1] = Len(L)
    BY <1>7 DEF Place, Carries
  <2>2. q = Len(L)
    BY <1>7, <2>1 DEF Place
  <2> QED
    BY <1>1, <1>5, <1>10, <2>2
<1>12. PICK r \in 0..Len(x) :
         /\ r = pos[k + 1] - q
         /\ Drop(x, r) = Drop(L, pos[k + 1]) /\ BeginsWith(Drop(x, r), fs[k + 1]) /\ Sendable(fs[k + 1])
         /\ \A i \in 1..r : ~IsPreamble(x, i)
  BY <1>7, <1>11, FrameAhead
<1>13. n = r
  <2>1. ~(n + 1 \in 1..r)
    BY <1>4, <1>12
  <2>2. n >= r
    BY <1>5, <1>8, <2>1
  <2>3. q + n <= pos[k + 1]
    BY <1>9 DEF Place
  <2> HIDE DEF n
  <2> QED
    BY <1>5, <1>8, <1>10, <1>12, <2>2, <2>3
<1>14. q + n = pos[k + 1]
  <2> HIDE DEF n
  <2> QED
    BY <1>5, <1>8, <1>10, <1>12, <1>13
<1> HIDE DEF n
<1> QED
  BY <1>6, <1>9, <1>11, <1>12, <1>13, <1>14

LEMMA InitLineInv == Init => LineInv
<1> SUFFICES ASSUME Init, sent /= <<>>
             PROVE  \E pos, q : /\ Place(stream \o wire, sent, pos, q, Len(frames), buf \o wire)
                                /\ frames = SubSeq(sent, 1, Len(frames))
  BY DEF LineInv
<1>1. PICK line \in Lines : wire = line.bytes /\ sent = line.sent
  BY DEF Init
<1>2. wire \in Seq(Byte) /\ sent \in Seq(Frames)
  BY <1>1, LinesAssumption
<1>3. PICK pos \in [1 .. Len(sent) + 1 -> 0 .. Len(wire)] : Carries(wire, sent, pos)
  BY <1>1, LinesAssumption
<1>4. stream \o wire = wire /\ buf \o wire = wire /\ frames = <<>> /\ Len(frames) = 0
  BY <1>2, ConcatEmptySeq DEF Init
<1>5. SubSeq(sent, 1, 0) = <<>>
  BY SubSeqEmpty
<1>6. wire = Drop(wire, 0)
  BY <1>2, DropNone
<1>7. 0 + 1 \in 1 .. Len(sent) + 1 /\ 0 \in 0..Len(sent) /\ 0 \in 0..Len(wire)
  BY <1>2
<1>8. Place(wire, sent, pos, 0, 0, wire)
  BY <1>2, <1>3, <1>6, <1>7 DEF Place
<1> QED
  BY <1>4, <1>5, <1>8

\* Reading moves bytes from the wire to the buffer.
LEMMA ReadLine ==
  ASSUME FramerInv, LineInv, NEW n \in 1..ReadSize, Read(n)
  PROVE  LineInv'
<1> DEFINE c == SubSeq(wire, 1, n)
           w == Drop(wire, n)
<1>0. wire \in Seq(Byte) /\ buf \in Seq(Byte) /\ stream \in Seq(Byte)
  BY DEF FramerInv, TypeOK
<1>1. n \in 0..Len(wire) /\ n \in Int /\ 1 \in Int
  BY <1>0, FramerAssumption DEF Read
<1>2. c \in Seq(Byte) /\ w \in Seq(Byte)
  <2>1. \A i \in 1..n : wire[i] \in Byte
    BY <1>0, <1>1
  <2> QED
    BY <1>0, <1>1, <2>1, SubSeqProperties, DropProperties
<1>3. c \o w = wire
  <2>1. 1 \in 1 .. Len(wire) + 1 /\ n \in 1 - 1 .. Len(wire) /\ Len(wire) \in n .. Len(wire)
    BY <1>0, <1>1
  <2>2. SubSeq(wire, 1, n) \o SubSeq(wire, n + 1, Len(wire)) = SubSeq(wire, 1, Len(wire))
    BY <1>0, <2>1, ConcatAdjacentSubSeq
  <2> QED
    BY <1>0, <2>2, SubSeqFull DEF Drop
<1>4. buf' = buf \o c /\ stream' = stream \o c /\ wire' = w /\ UNCHANGED <<frames, sent>>
  BY DEF Read
<1> HIDE DEF c, w
<1>a. \A s, t, u \in Seq(Byte) : (s \o t) \o u = s \o (t \o u)
  BY ConcatAssociative
<1>5. (stream \o c) \o w = stream \o (c \o w)
  BY <1>0, <1>2, <1>a, Zenon
<1>6. (buf \o c) \o w = buf \o (c \o w)
  BY <1>0, <1>2, <1>a, Zenon
<1>7. stream' \o wire' = stream \o wire /\ buf' \o wire' = buf \o wire
  BY <1>3, <1>4, <1>5, <1>6
<1> QED
  BY <1>4, <1>7 DEF LineInv

LEMMA NoPreambleLine ==
  ASSUME FramerInv, LineInv, NoPreamble
  PROVE  LineInv'
<1> SUFFICES ASSUME sent /= <<>> PROVE LineInv'
  BY DEF LineInv, NoPreamble
<1>0. /\ wire \in Seq(Byte) /\ buf \in Seq(Byte) /\ stream \in Seq(Byte) /\ sent \in Seq(Frames)
      /\ UNCHANGED <<wire, frames, stream, sent>> /\ Starts(buf) = {} /\ PreambleSize \in Nat \ {0}
  BY FramerAssumption DEF FramerInv, TypeOK, NoPreamble
<1> DEFINE L == stream \o wire
           x == buf \o wire
           k == Len(frames)
<1>1. PICK pos, q : Place(L, sent, pos, q, k, x) /\ frames = SubSeq(sent, 1, k)
  BY DEF LineInv
<1>2. L \in Seq(Byte) /\ x \in Seq(Byte) /\ Len(x) = Len(buf) + Len(wire)
  BY <1>0, ConcatProperties
<1>3. CASE Len(buf) > PreambleSize - 1
  <2>1. PICK n \in 0..Len(buf) : n = Len(buf) - (PreambleSize - 1) /\ buf' = Drop(buf, n)
    BY <1>0, <1>3 DEF NoPreamble
  <2>2. \A i \in 1..n : ~IsPreamble(x, i)
    <3> TAKE i \in 1..n
    <3>1. i \in 1..Len(buf) /\ i + PreambleSize - 1 <= Len(buf)
      BY <1>0, <2>1
    <3>2. ~IsPreamble(buf, i)
      BY <1>0, <3>1 DEF Starts
    <3> QED
      BY <1>0, <3>1, <3>2, PreambleConcat
  <2>3. Drop(x, n) = buf' \o wire
    BY <1>0, <2>1, DropConcat
  <2>4. n \in 0..Len(x)
    BY <1>0, <1>2
  <2> HIDE DEF L, x, k
  <2>5. Place(L, sent, pos, q + n, k, Drop(x, n))
    BY <1>0, <1>1, <1>2, <2>2, <2>4, SkipPlace
  <2> QED
    BY <1>0, <1>1, <2>3, <2>5 DEF LineInv, L, k
<1>4. CASE ~(Len(buf) > PreambleSize - 1)
  <2>1. buf' = buf
    BY <1>4 DEF NoPreamble
  <2> QED
    BY <1>0, <2>1 DEF LineInv
<1> QED
  BY <1>3, <1>4

\* With a preamble in the buffer, the next frame is where it starts.
LEMMA AlignedLine ==
  ASSUME FramerInv, LineInv, sent /= <<>>, Starts(buf) /= {}
  PROVE  /\ frames = SubSeq(sent, 1, Len(frames)) /\ Len(frames) + 1 \in 1..Len(sent)
         /\ \E pos : Place(stream \o wire, sent, pos, pos[Len(frames) + 1], Len(frames), Aligned(buf) \o wire)
         /\ Sendable(sent[Len(frames) + 1]) /\ BeginsWith(Aligned(buf) \o wire, sent[Len(frames) + 1])
<1>0. /\ wire \in Seq(Byte) /\ buf \in Seq(Byte) /\ stream \in Seq(Byte) /\ sent \in Seq(Frames)
  BY DEF FramerInv, TypeOK
<1> DEFINE L == stream \o wire
           k == Len(frames)
<1>1. PICK pos, q : Place(L, sent, pos, q, k, buf \o wire) /\ frames = SubSeq(sent, 1, k)
  BY DEF LineInv
<1>2. L \in Seq(Byte)
  BY <1>0, ConcatProperties
<1> HIDE DEF L, k
<1>3. /\ k /= Len(sent)
      /\ Place(L, sent, pos, pos[k + 1], k, Aligned(buf) \o wire)
      /\ Sendable(sent[k + 1]) /\ BeginsWith(Aligned(buf) \o wire, sent[k + 1])
  BY <1>0, <1>1, <1>2, FrontPlace
<1>4. k + 1 \in 1..Len(sent)
  <2>1. k \in 0..Len(sent)
    BY <1>1 DEF Place
  <2> QED
    BY <1>0, <1>3, <2>1
<1> QED
  BY <1>1, <1>3, <1>4 DEF L, k

\* What the framer sees of a frame is what was sent.
LEMMA SeenIsSent ==
  ASSUME NEW b \in Seq(Byte), NEW w \in Seq(Byte), NEW f \in Frames, Sendable(f), BeginsWith(b \o w, f)
  PROVE  /\ HasHeader(b) => LengthValid(b)
         /\ Complete(b) => FrameOf(b) = f /\ f.payload[1] \in Known /\ Total(b) = Size(f)
<1>1. b \o w \in Seq(Byte)
  BY ConcatProperties
<1>2. Complete(b \o w) /\ FrameOf(b \o w) = f /\ f.payload[1] \in Known /\ Total(b \o w) = Size(f)
  <2> DEFINE t == b \o w
  <2>1. t \in Seq(Byte) /\ BeginsWith(t, f)
    BY <1>1
  <2> HIDE DEF t
  <2>2. Complete(t) /\ FrameOf(t) = f /\ f.payload[1] \in Known /\ Total(t) = Size(f)
    BY <2>1, EncodedIsRead
  <2> QED
    BY <2>2 DEF t
<1>3. HasHeader(b) => LengthValid(b)
  BY <1>2, HeaderConcat DEF Complete
<1>4. Complete(b) => FrameOf(b) = f /\ Total(b) = Size(f)
  BY <1>2, HeaderConcat, FrameConcat DEF Complete
<1> QED
  BY <1>2, <1>3, <1>4

LEMMA NeedMoreLine ==
  ASSUME FramerInv, LineInv, NeedMore
  PROVE  LineInv'
<1> SUFFICES ASSUME sent /= <<>> PROVE LineInv'
  BY DEF LineInv, NeedMore
<1>1. Starts(buf) /= {} /\ buf' = Aligned(buf) /\ UNCHANGED <<wire, frames, stream, sent>>
  BY DEF NeedMore
<1> QED
  BY <1>1, AlignedLine DEF LineInv

LEMMA ResyncLine ==
  ASSUME FramerInv, LineInv, Resync
  PROVE  LineInv'
<1> SUFFICES ASSUME sent /= <<>> PROVE FALSE
  BY DEF LineInv, Resync
<1> DEFINE b == Aligned(buf)
           f == sent[Len(frames) + 1]
<1>1. /\ Starts(buf) /= {} /\ HasHeader(b)
      /\ ~LengthValid(b) \/ (Complete(b) /\ FrameOf(b).payload[1] \notin Known)
  BY DEF Resync
<1>2. b \in Seq(Byte) /\ wire \in Seq(Byte)
  BY <1>1, AlignedProperties DEF FramerInv, TypeOK
<1>3. f \in Frames /\ Sendable(f) /\ BeginsWith(b \o wire, f)
  BY <1>1, AlignedLine DEF FramerInv, TypeOK
<1> HIDE DEF b, f
<1> QED
  BY <1>1, <1>2, <1>3, SeenIsSent

LEMMA ReturnLine ==
  ASSUME FramerInv, LineInv, ReturnFrame
  PROVE  LineInv'
<1> SUFFICES ASSUME sent /= <<>> PROVE LineInv'
  BY DEF LineInv, ReturnFrame
<1>0. /\ wire \in Seq(Byte) /\ buf \in Seq(Byte) /\ stream \in Seq(Byte) /\ sent \in Seq(Frames)
      /\ frames \in Seq(Frames) /\ Len(frames) \in Nat
  BY DEF FramerInv, TypeOK
<1> DEFINE b == Aligned(buf)
           k == Len(frames)
           f == sent[k + 1]
           L == stream \o wire
<1>1. /\ Starts(buf) /= {} /\ Complete(b) /\ frames' = Append(frames, FrameOf(b))
      /\ buf' = Drop(b, Total(b)) /\ UNCHANGED <<wire, stream, sent>>
  BY DEF ReturnFrame
<1>2. b \in Seq(Byte) /\ L \in Seq(Byte)
  BY <1>0, <1>1, AlignedProperties, ConcatProperties
<1>3. k + 1 \in 1..Len(sent) /\ f \in Frames /\ Sendable(f) /\ BeginsWith(b \o wire, f)
      /\ frames = SubSeq(sent, 1, k)
  BY <1>0, <1>1, AlignedLine
<1>4. PICK pos : Place(L, sent, pos, pos[k + 1], k, b \o wire)
  BY <1>1, AlignedLine
<1>5. FrameOf(b) = f /\ Total(b) = Size(f) /\ Total(b) \in 1..Len(b)
  <2> HIDE DEF b, f
  <2> QED
    BY <1>0, <1>1, <1>2, <1>3, SeenIsSent, FrameProperties
<1>6. frames' = SubSeq(sent, 1, k + 1) /\ Len(frames') = k + 1
  <2>1. SubSeq(sent, 1, k + 1) = SubSeq(sent, 1, k + 1 - 1) \o <<sent[k + 1]>>
    <3>1. PICK m : m = k + 1
      OBVIOUS
    <3>2. 1 \in 1..Len(sent) /\ m \in 1..Len(sent)
      BY <1>0, <1>3, <3>1
    <3>3. SubSeq(sent, 1, m) = SubSeq(sent, 1, m - 1) \o <<sent[m]>>
      BY <1>0, <3>2, SubSeqRecursiveSecond
    <3> QED
      BY <3>1, <3>3
  <2>2. k + 1 - 1 = k /\ Append(frames, f) = frames \o <<f>> /\ Len(Append(frames, f)) = k + 1
    BY <1>0, <1>3
  <2> QED
    BY <1>1, <1>3, <1>5, <2>1, <2>2
<1>7. pos[k + 1] + Total(b) = pos[k + 1 + 1] /\ pos[k + 1 + 1] \in 0..Len(L) /\ pos[k + 1] \in 0..Len(L)
  <2>1. pos[k + 1 + 1] = pos[k + 1] + Size(f)
    BY <1>3, <1>4 DEF Place, Carries
  <2>2. pos \in [1 .. Len(sent) + 1 -> 0 .. Len(L)]
    BY <1>4 DEF Place
  <2>3. k + 1 \in 1 .. Len(sent) + 1 /\ k + 1 + 1 \in 1 .. Len(sent) + 1
    BY <1>0, <1>3
  <2> QED
    BY <1>5, <2>1, <2>2, <2>3
<1>8. buf' \o wire = Drop(L, pos[k + 1 + 1])
  <2>1. Drop(b, Total(b)) \o wire = Drop(b \o wire, Total(b))
    <3>1. Total(b) \in 0..Len(b)
      BY <1>5
    <3> HIDE DEF b
    <3> QED
      BY <1>0, <1>2, <3>1, DropConcat
  <2>2. b \o wire = Drop(L, pos[k + 1])
    BY <1>4 DEF Place
  <2>3. Drop(Drop(L, pos[k + 1]), Total(b)) = Drop(L, pos[k + 1] + Total(b))
    <3>1. Total(b) \in Nat /\ pos[k + 1] \in Nat /\ pos[k + 1] + Total(b) <= Len(L)
      BY <1>5, <1>7
    <3> HIDE DEF L, b, k
    <3> QED
      BY <1>2, <3>1, DropTwice
  <2> QED
    BY <1>1, <1>7, <2>1, <2>2, <2>3
<1>9. Place(L, sent, pos, pos[k + 1 + 1], k + 1, buf' \o wire)
  <2>1. pos \in [1 .. Len(sent) + 1 -> 0 .. Len(L)] /\ Carries(L, sent, pos)
    BY <1>4 DEF Place
  <2>2. k + 1 \in 0..Len(sent)
    BY <1>0, <1>3
  <2>3. pos[k + 1 + 1] <= pos[k + 1 + 1]
    BY <1>7
  <2> HIDE DEF L, k
  <2> QED
    BY <1>7, <1>8, <2>1, <2>2, <2>3 DEF Place
<1> QED
  BY <1>1, <1>6, <1>9 DEF LineInv

LEMMA NextLineInv == FramerInv /\ LineInv /\ [Next]_vars => LineInv'
<1> SUFFICES ASSUME FramerInv, LineInv, [Next]_vars PROVE LineInv'
  OBVIOUS
<1>1. CASE UNCHANGED vars
  BY <1>1 DEF LineInv, vars
<1> QED
  BY <1>1, ReadLine, NoPreambleLine, NeedMoreLine, ResyncLine, ReturnLine DEF Next, NextIteration

\* On a line that carries frames the framer stays at a frame boundary.
THEOREM LineInvariant == Spec => []LineInv
BY InitLineInv, NextLineInv, FramerInvariant, PTL DEF Spec

\* The frames returned are a prefix of those sent, and all of them with an
\* empty buffer once the bytes are read (framing.go, Next).
THEOREM DeviceFramesArrive == Spec => []Reassembles
<1>1. FramerInv /\ ScanInv /\ LineInv => Reassembles
  <2> SUFFICES ASSUME FramerInv, ScanInv, LineInv, sent /= <<>>
               PROVE  /\ frames = SubSeq(sent, 1, Len(frames))
                      /\ reading /\ wire = <<>> => frames = sent /\ buf = <<>>
    BY DEF Reassembles
  <2>0. /\ wire \in Seq(Byte) /\ buf \in Seq(Byte) /\ stream \in Seq(Byte) /\ sent \in Seq(Frames)
        /\ frames \in Seq(Frames)
    BY DEF FramerInv, TypeOK
  <2> DEFINE L == stream \o wire
             x == buf \o wire
             k == Len(frames)
  <2>1. PICK pos, q : Place(L, sent, pos, q, k, x) /\ frames = SubSeq(sent, 1, k)
    BY DEF LineInv
  <2>2. L \in Seq(Byte) /\ x \in Seq(Byte)
    BY <2>0, ConcatProperties
  <2>3. ASSUME reading, wire = <<>>
        PROVE  frames = sent /\ buf = <<>>
    <3>1. x = buf /\ Decode(x) = <<>>
      BY <2>0, <2>3, ConcatEmptySeq DEF ScanInv
    <3>2. k = Len(sent)
      <4> SUFFICES ASSUME k /= Len(sent) PROVE FALSE
        OBVIOUS
      <4> HIDE DEF L, x, k
      <4>1. PICK r \in 0..Len(x) :
              /\ BeginsWith(Drop(x, r), sent[k + 1]) /\ Sendable(sent[k + 1])
              /\ \A i \in 1..r : ~IsPreamble(x, i)
        <5>1. sent \in Seq(Frames) /\ Place(L, sent, pos, q, k, x)
          BY <2>0, <2>1
        <5> QED
          BY <2>2, <5>1, FrameAhead
      <4>2. Decode(x) = Decode(Drop(x, r))
        BY <2>2, <4>1, DecodeSkip
      <4> DEFINE t == Drop(x, r)
                 f == sent[k + 1]
      <4>3. f \in Frames
        <5>1. k \in 0..Len(sent)
          BY <2>1 DEF Place
        <5>2. k + 1 \in 1..Len(sent)
          BY <2>0, <5>1
        <5> QED
          BY <2>0, <5>2
      <4>4. t \in Seq(Byte) /\ Sendable(f) /\ BeginsWith(t, f)
        BY <2>2, <4>1, DropProperties
      <4> HIDE DEF t, f
      <4>5. /\ IsPreamble(t, 1) /\ Complete(t) /\ FrameOf(t) = f /\ f.payload[1] \in Known
            /\ Total(t) = Size(f) /\ Len(t) /= 0
        BY <4>3, <4>4, EncodedIsRead
      <4>6. Decode(t) = <<f>> \o Decode(Drop(t, Total(t)))
        BY <4>4, <4>5, DecodeStep
      <4> DEFINE D == Decode(Drop(t, Total(t)))
      <4>7. D \in Seq(Frames)
        <5>1. Total(t) \in 0..Len(t)
          BY <4>4, <4>5, FrameProperties
        <5>2. Drop(t, Total(t)) \in Seq(Byte)
          BY <4>4, <5>1, DropProperties
        <5> QED
          BY <5>2, DecodeType
      <4>8. <<f>> \o D = <<>>
        BY <3>1, <4>2, <4>6 DEF t
      <4> HIDE DEF D
      <4>9. <<f>> \in Seq(Frames) /\ <<f>> /= <<>>
        BY <4>3
      <4> QED
        BY <4>7, <4>8, <4>9, ConcatEqualIffEmpty
    <3>3. frames = sent
      BY <2>0, <2>1, <3>2, SubSeqFull
    <3>4. q = Len(L) /\ x = Drop(L, q)
      <4>1. k /= 0
        BY <2>0, <3>2
      <4> QED
        BY <2>1, <3>2, <4>1 DEF Place, Carries
    <3>5. Drop(L, Len(L)) = <<>>
      <4>1. Len(L) + 1 \in Int /\ Len(L) \in Int /\ Len(L) < Len(L) + 1
        BY <2>2
      <4> QED
        BY <4>1, SubSeqEmpty DEF Drop
    <3> QED
      BY <3>1, <3>3, <3>4, <3>5
  <2> QED
    BY <2>1, <2>3
<1> QED
  BY <1>1, FramerInvariant, ScanInvariant, LineInvariant, PTL
================================================================================
