----------------------------- MODULE ImageData -----------------------------
(***************************************************************************)
(* The process image as data: two raw byte buffers, the windows that       *)
(* callers name by offset and length, and the calls of the shim's I/O ABI. *)
(* Shared by AtomicImage and by ImageExchange, which implements it.        *)
(***************************************************************************)
EXTENDS Integers

CONSTANTS
  Callers,            \* threads that read and write the image
  InSize, OutSize,    \* bytes of the "in" (MN->CN) and of the "out" image
  Byte, Zero,         \* what a byte holds, and the byte ctypes buffers start with
  Windows,            \* the <<offset, length>> pairs that callers ask for
  HeartbeatModulus    \* the heartbeat counter wraps here (2^32 in the code)

ASSUME SizesAssumption == InSize \in Nat \ {0} /\ OutSize \in Nat \ {0}
ASSUME ByteAssumption == Zero \in Byte
ASSUME WindowsAssumption == Windows \subseteq Nat \X (Nat \ {0})
ASSUME ModulusAssumption == HeartbeatModulus \in Nat \ {0}

\* "in" is oplk_getProcessImageIn(): the outputs the MN writes to the CN.
\* "out" is oplk_getProcessImageOut(): the inputs the MN reads from the CN.
Images == {"in", "out"}
Cap == [i \in Images |-> IF i = "in" THEN InSize ELSE OutSize]
Contents(i) == [0 .. Cap[i] - 1 -> Byte]
BothContents == [in : Contents("in"), out : Contents("out")]

\* plw_read_pi_out, plw_read_pi_in and plw_write_pi_in.
Ops == {[img |-> "out", write |-> FALSE],
        [img |-> "in",  write |-> FALSE],
        [img |-> "in",  write |-> TRUE]}
Request(op, w) == [op |-> op, off |-> w[1], len |-> w[2]]
Requests == {Request(op, w) : op \in Ops, w \in Windows}
NoRequest == Request([img |-> "in", write |-> FALSE], <<0, 0>>)

Span(q) == q.off .. q.off + q.len - 1       \* the bytes a request names
Zeros(q) == [b \in Span(q) |-> Zero]

\* What a caller passes: its data, or for a read a zeroed ctypes array.
Buffers(q) == IF q.op.write THEN [Span(q) -> Byte] ELSE {Zeros(q)}

\* How far a cycle's exchange gets: out then in, out only, or neither.
Outcomes == {"both", "out", "none"}
=============================================================================
