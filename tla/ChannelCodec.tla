---------------------------- MODULE ChannelCodec ----------------------------
(***************************************************************************)
(* How a channel's integer becomes bytes of the process image and back     *)
(* (PowerlinkStack._encode_int, _decode_int), how a digital channel's bits *)
(* are picked from its byte (api.py) and how volts become counts           *)
(* (scaling.py). Bytes have ByteBits bits: 8 in the code, fewer in small   *)
(* instances. Python's integers are unbounded, and so are these.           *)
(***************************************************************************)
EXTENDS Integers, SequencesExt

CONSTANT ByteBits

ASSUME ByteBitsAssumption == ByteBits \in Nat \ {0}

\* 2 ** n, and 1 << n.
TwoTo[n \in Nat] == IF n = 0 THEN 1 ELSE 2 * TwoTo[n - 1]

Base == TwoTo[ByteBits]                  \* values of one byte
Values(size) == TwoTo[ByteBits * size]   \* values of so many bytes

ByteSize(ch) == (ch.bits + ByteBits - 1) \div ByteBits

-----------------------------------------------------------------------------
(* Integers and bytes, least significant byte first. *)

\* What int.to_bytes(size, "little", signed=value < 0) accepts; anything else
\* is an OverflowError.
Encodable(value, size) ==
  IF value < 0 THEN value >= -(Values(size) \div 2) ELSE value < Values(size)

\* Mutant: what is left of the value is not cut to a byte.
EncodeIntUncut(value, size) == [k \in 1 .. size |-> value \div Values(k - 1)]

\* \div and % round to minus infinity: this is two's complement when value < 0.
EncodeInt(value, size) ==
  [k \in 1 .. size |-> (value \div Values(k - 1)) % Base]

Magnitude(raw) ==
  LET sum[k \in 0 .. Len(raw)] ==
        IF k = 0 THEN 0 ELSE sum[k - 1] + raw[k] * Values(k - 1)
  IN  sum[Len(raw)]

\* Mutant: the sign is ignored.
DecodeIntUnsigned(raw, signed) == IF raw = <<>> THEN 0 ELSE Magnitude(raw)

\* A call that was refused returns no bytes, which decode to 0.
DecodeInt(raw, signed) ==
  IF raw = <<>> THEN 0
  ELSE IF signed /\ Magnitude(raw) >= Values(Len(raw)) \div 2
         THEN Magnitude(raw) - Values(Len(raw))
         ELSE Magnitude(raw)

-----------------------------------------------------------------------------
(* Bits of an integer: (v >> b) & 1, v | (1 << b), v & ~(1 << b), v & 0xFF. *)

BitOf(v, b) == (v \div TwoTo[b]) % 2
SetBit(v, b) == v + (1 - BitOf(v, b)) * TwoTo[b]
ClearBit(v, b) == v - BitOf(v, b) * TwoTo[b]

LowByte(v) == v % Base

-----------------------------------------------------------------------------
(* Volts. A voltage is the fraction num/den of the full scale, den > 0. *)

Int16Max == Values(2) \div 2 - 1
Int16Min == -(Values(2) \div 2)

\* round(): to the nearest integer, ties to the even one.
Round(num, den) ==
  LET down == num \div den
      twice == 2 * (num % den)
  IN  IF twice > den \/ (twice = den /\ down % 2 = 1) THEN down + 1 ELSE down

Clamp(v) == IF v > Int16Max THEN Int16Max ELSE IF v < Int16Min THEN Int16Min ELSE v

\* full_scale_raw is Int16Max, the default of PowerlinkIO.
VoltsToRaw(num, den) == Clamp(Round(num * Int16Max, den))
=============================================================================
