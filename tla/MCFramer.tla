-------------------------------- MODULE MCFramer -------------------------------
(* Small instances of Framer for TLC: three byte values, a preamble of two    *)
(* zeros and a checksum of one byte; a corrupted line, on which any bytes     *)
(* arrive, and a device that sends frames after noise without zeros.          *)
EXTENDS Framer

CONSTANT StreamSize   \* length of the streams of a corrupted line

SeqsOf(S, n) == [1..n -> S]

Corrupted == [bytes : SeqsOf(Byte, StreamSize), sent : {<<>>}]

Encode(f) ==
  [n \in 1..PreambleSize |-> 0] \o <<Len(f.payload) \div Base, Len(f.payload) % Base>>
    \o f.payload \o f.crc

EncodeAll(fs) ==
  LET encoded[n \in 0..Len(fs)] == IF n = 0 THEN <<>> ELSE encoded[n - 1] \o Encode(fs[n])
  IN  encoded[Len(fs)]

ShortFrames == {[payload |-> p, crc |-> c] :
                  p \in {q \in SeqsOf(Byte, 1) \union SeqsOf(Byte, 2) : q[1] \in Known},
                  c \in SeqsOf(Byte, CRCSize)}
UpToTwo     == UNION {SeqsOf(ShortFrames, n) : n \in 1..2}
NonZero     == UNION {SeqsOf(Byte \ {0}, n) : n \in 0..1}

Encoded == {[bytes |-> g \o EncodeAll(fs), sent |-> fs] : g \in NonZero, fs \in UpToTwo}

AnyLine == Corrupted \union Encoded
================================================================================
