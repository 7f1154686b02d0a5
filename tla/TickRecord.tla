----------------------------- MODULE TickRecord ------------------------------
(***************************************************************************)
(* svdc-core's record of one tick and its integrity code.  A 32-bit word   *)
(* of the CRC is the set of its bits that are 1, so that xor is the        *)
(* symmetric difference and a shift moves every element.                   *)
(***************************************************************************)
EXTENDS Integers, SequencesExt

Invalid == 0
Live == 1
Interpolated == 2
QseEstimated == 3

Complete == 1

Sample(value, quality, origin) ==
  [value |-> value, quality |-> quality, origin |-> origin, reserved |-> 0]

\* TickRecord::empty; the slots past n_channels are left out.
Empty(id, ts) == [id |-> id, ts |-> ts, flags |-> {}, crc |-> {}, samples |-> <<>>]

-------------------------------------------------------------------------------
Xor(a, b) == (a \ b) \cup (b \ a)
AllOnes == 0 .. 31

\* 0xEDB88320
Poly == {5, 8, 9, 15, 19, 20, 21, 23, 24, 26, 27, 29, 30, 31}

Shift(word, n) == {b - n : b \in {c \in word : c >= n}}

\* One turn of update's inner loop.
CrcBit(word, bit) == IF (0 \in word) # bit THEN Xor(Shift(word, 1), Poly) ELSE Shift(word, 1)

\* update of one byte: the eight turns are linear in the word, so its upper
\* bits shift through and its low byte goes with the incoming one.
EightTurns == [byte \in SUBSET (0 .. 7) |->
                 FoldLeft(CrcBit, {}, [i \in 1 .. 8 |-> i - 1 \in byte])]
CrcByte(word, byte) == Xor(Shift(word, 8), EightTurns[Xor(word \cap (0 .. 7), byte)])

\* The low n bytes of an integer, least significant first.
LittleEndian(v, n) ==
  [i \in 1 .. n |-> {b \in 0 .. 7 : ((v \div 256 ^ (i - 1)) \div 2 ^ b) % 2 = 1}]

\* Mutant of SampleBytes: the quality is left out.
SampleBytesBare(s) ==
  LittleEndian(s.value, 4) \o LittleEndian(s.origin, 1) \o LittleEndian(s.reserved, 2)

SampleBytes(s) ==
  LittleEndian(s.value, 4) \o LittleEndian(s.quality, 1) \o LittleEndian(s.origin, 1)
    \o LittleEndian(s.reserved, 2)

Crc32(bytes) ==
  LET state[n \in 0 .. Len(bytes)] ==
        IF n = 0 THEN AllOnes ELSE UNION {CrcByte(word, bytes[n]) : word \in {state[n - 1]}}
  IN  Xor(AllOnes, state[Len(bytes)])

ComputeCrc(tick) ==
  Crc32(FlattenSeq([c \in DOMAIN tick.samples |-> SampleBytes(tick.samples[c])]))
StampCrc(tick) == [tick EXCEPT !.crc = ComputeCrc(tick)]
Verifies(tick) == ComputeCrc(tick) = tick.crc
===============================================================================
