--------------------------- MODULE MCPowerlinkIO ---------------------------
(* A small xap.xml for TLC, with bytes of two bits.                         *)
EXTENDS PowerlinkIO

CONSTANTS t1, t2

Ch(words, dataType, dataSize, offset) ==
  [tag |-> "Channel", words |-> words, dataType |-> dataType, dataSize |-> dataSize,
   offset |-> offset]

\* Outputs: two digital bytes, one of them named after nothing, and a signed
\* analog word. Inputs: a digital byte, and an analog word outside the image.
\* An output block that a later one replaces, and an element of another kind.
MCDoc == <<
  [tag |-> "ProcessImage", type |-> "input", size |-> 1,
   channels |-> <<Ch({"analog"}, "integer", 2, 0)>>],
  [tag |-> "Other", type |-> "output", size |-> 3, channels |-> <<>>],
  [tag |-> "ProcessImage", type |-> "output", size |-> 1,
   channels |-> <<Ch({"digital"}, "unsigned8", 2, 0),
                  Ch({"analog"}, "integer", 4, 0)>>],
  [tag |-> "ProcessImage", type |-> "input", size |-> 4,
   channels |-> <<Ch({"digital", "analog"}, "unsigned8", 2, 0),
                  [Ch({}, "unsigned8", 2, 1) EXCEPT !.tag = "Comment"],
                  Ch({}, "unsigned8", 1, 1),
                  Ch({"analog"}, "integer", 4, 2)>>]>>

\* Each byte to one thread: both digital bytes and the word to different
\* threads, or both digital bytes to one.
MCOwners == {[b \in 0 .. 3 |-> IF b = 0 THEN t1 ELSE t2],
             [b \in 0 .. 3 |-> IF b < 2 THEN t1 ELSE t2]}

\* write_do_all with one digital byte, with all of both, and with too many.
MCVectors == {<<1, 0>>, <<0, 1, 1>>, <<1, 0, 0, 1>>}

\* Over the maximum of the signed word (it reads back as negative), and too
\* large for the word; half of full scale, and beyond it.
MCRaws == {9, 16}
MCVolts == {<<1, 2>>, <<-4, 1>>}

MCFrames == {[b \in {0} |-> v] : v \in {1, 2}}
=============================================================================
