---------------------------- MODULE PowerlinkIO ----------------------------
(***************************************************************************)
(* PowerlinkIO (api.py) over a running PowerlinkStack: threads that read   *)
(* and write named channels while cycles exchange the process image and    *)
(* the stack may be stopped and started again.                             *)
(*                                                                         *)
(* Every plw_read_pi_* and plw_write_pi_in call is one step here, since    *)
(* ImageExchange implements AtomicImage: it takes effect at one instant    *)
(* between its call and its return. What api.py makes of several such      *)
(* calls is not atomic, and is modelled call by call.                      *)
(***************************************************************************)
EXTENDS ChannelCodec, Xap

CONSTANTS
  Threads,     \* threads that use one PowerlinkIO
  Doc,         \* the xap.xml document
  Owners,      \* ways to divide the output bytes: functions to Threads
  Vectors,     \* the value lists that threads pass to write_do_all
  Raws,        \* the integers that threads pass to write_ao
  Volts,       \* <<num, den>>: the fractions of full scale passed to write_ao_volts
  FirstBytes,  \* bound: a new image holds one of these in every byte
  Frames       \* bound: what the CN sends, contents of the out image

Layout == ParseXap(Doc)

\* start() hands the sizes to plw_alloc_pi(inSize, outSize).
Size == [in |-> Layout.output_size, out |-> Layout.input_size]
Contents(i) == [0 .. Size[i] - 1 -> 0 .. Base - 1]

Flatten(channels) ==
  FlattenSeq([k \in DOMAIN channels |->
                [b \in 1 .. channels[k].bits |-> [ch |-> channels[k], bit |-> b - 1]]])

DiBits == Flatten(OfKind(Layout.inputs, "digital"))
DoBits == Flatten(OfKind(Layout.outputs, "digital"))
Ai == OfKind(Layout.inputs, "analog")
Ao == OfKind(Layout.outputs, "analog")

Span(ch) == ch.off .. ch.off + ByteSize(ch) - 1

ChannelType == [kind : Kinds, off : Nat, bits : Nat \ {0}, signed : BOOLEAN]

\* Offsets are not negative and every channel has bits (xap.py:34-35). api.py
\* takes the rest for granted: see its comment at line 55.
ASSUME LayoutAssumption ==
  /\ Parsed(Layout)
  /\ Layout.inputs \in Seq(ChannelType) /\ Layout.outputs \in Seq(ChannelType)
  /\ Layout.input_size \in Nat /\ Layout.output_size \in Nat
  /\ \A k \in DOMAIN DoBits : DoBits[k].ch.bits <= ByteBits
  /\ \A c, d \in DOMAIN Layout.outputs :
       c # d => Span(Layout.outputs[c]) \cap Span(Layout.outputs[d]) = {}

ASSUME ImageAssumption ==
  /\ Owners \subseteq [0 .. Size["in"] - 1 -> Threads]
  /\ FirstBytes \subseteq 0 .. Base - 1
  /\ Frames \subseteq Contents("out")

\* What callers pass: lists of Booleans (an empty one is no write at all),
\* integers, and fractions.
ASSUME ValuesAssumption ==
  /\ Vectors \subseteq Seq({0, 1}) \ {<<>>}
  /\ Raws \subseteq Int
  /\ Volts \subseteq Int \X (Nat \ {0})

VARIABLES
  attached,  \* the image may be accessed: plw_alloc_pi done, plw_shutdown not
  img,       \* the contents of both images
  owner,     \* the application's rule: which thread writes which output byte
  pc,        \* "idle"; in write_do "bit" or "modify"; in a read_*: its name
  todo,      \* in write_do and write_do_all: the channels and values to go
  current,   \* in write_do: the byte read back
  result,    \* in read_*: the values read so far
  asked,     \* history: what was last written to each output, {} if unknown
  steady     \* history: the image stayed attached since the thread's write_do began

vars == <<attached, img, owner, pc, todo, current, result, asked, steady>>

Nothing == [do |-> [k \in DOMAIN DoBits |-> {}], ao |-> [k \in DOMAIN Ao |-> {}]]

Init ==
  /\ attached = FALSE
  /\ img \in {[i \in {"in", "out"} |-> [b \in 0 .. Size[i] - 1 |-> v]] : v \in FirstBytes}
  /\ owner \in Owners
  /\ pc = [t \in Threads |-> "idle"]
  /\ todo = [t \in Threads |-> <<>>]
  /\ current = [t \in Threads |-> 0]
  /\ result = [t \in Threads |-> <<>>]
  /\ asked = Nothing
  /\ steady = [t \in Threads |-> FALSE]

-----------------------------------------------------------------------------
(* PowerlinkStack's typed channel access. *)

Accessible(i, ch) == attached /\ ch.off + ByteSize(ch) <= Size[i]

\* read_channel_int and read_output_channel_int
ChannelInt(i, ch) ==
  DecodeInt(IF Accessible(i, ch)
              THEN [k \in 1 .. ByteSize(ch) |-> img[i][ch.off + k - 1]]
              ELSE <<>>,
            ch.signed)

\* write_channel_int; a window that does not fit is dropped without an error.
WriteChannelInt(ch, value) ==
  LET raw == EncodeInt(value, ByteSize(ch))
  IN  img' = IF Accessible("in", ch)
               THEN [img EXCEPT !["in"] =
                       [b \in DOMAIN @ |-> IF b \in Span(ch) THEN raw[b - ch.off + 1]
                                                             ELSE @[b]]]
               ELSE img

-----------------------------------------------------------------------------
(* write_do, and write_do_all as one write_do after another. *)

Owns(t, ch) == \A b \in Span(ch) : owner[b] = t

\* The items of write_do(k, v), and those of write_do_all(values).
OneOutput == {<<[k |-> k, v |-> v]>> : k \in -1 .. Len(DoBits), v \in {0, 1}}
AllOutputs == {[j \in DOMAIN vs |-> [k |-> j - 1, v |-> vs[j]]] : vs \in Vectors}

InRange(k) == 0 <= k /\ k < Len(DoBits)

CallWriteDo(t, items) ==
  /\ pc[t] = "idle"
  /\ \A j \in DOMAIN items : InRange(items[j].k) => Owns(t, DoBits[items[j].k + 1].ch)
  /\ pc' = [pc EXCEPT ![t] = "bit"]
  /\ todo' = [todo EXCEPT ![t] = items]
  /\ steady' = [steady EXCEPT ![t] = attached]
  /\ UNCHANGED <<attached, img, owner, current, result, asked>>

\* IndexError: what write_do_all has written before stays written.
RaiseIndexError(t) ==
  /\ pc[t] = "bit"
  /\ ~InRange(Head(todo[t]).k)
  /\ pc' = [pc EXCEPT ![t] = "idle"]
  /\ todo' = [todo EXCEPT ![t] = <<>>]
  /\ steady' = [steady EXCEPT ![t] = FALSE]
  /\ UNCHANGED <<attached, img, owner, current, result, asked>>

\* Mutant: write_do reads the byte with read_channel_int, from the other image.
ReadBackInput(t) ==
  /\ pc[t] = "bit"
  /\ InRange(Head(todo[t]).k)
  /\ pc' = [pc EXCEPT ![t] = "modify"]
  /\ current' = [current EXCEPT ![t] = ChannelInt("out", DoBits[Head(todo[t]).k + 1].ch)]
  /\ UNCHANGED <<attached, img, owner, todo, result, asked, steady>>

\* Mutant: write_do does not read the byte back.
ReadBackNothing(t) ==
  /\ pc[t] = "bit"
  /\ InRange(Head(todo[t]).k)
  /\ pc' = [pc EXCEPT ![t] = "modify"]
  /\ current' = [current EXCEPT ![t] = 0]
  /\ UNCHANGED <<attached, img, owner, todo, result, asked, steady>>

ReadBack(t) ==
  /\ pc[t] = "bit"
  /\ InRange(Head(todo[t]).k)
  /\ pc' = [pc EXCEPT ![t] = "modify"]
  /\ current' = [current EXCEPT ![t] = ChannelInt("in", DoBits[Head(todo[t]).k + 1].ch)]
  /\ UNCHANGED <<attached, img, owner, todo, result, asked, steady>>

Modified(t) ==
  LET item == Head(todo[t])
      bit == DoBits[item.k + 1].bit
  IN  LowByte(IF item.v = 1 THEN SetBit(current[t], bit) ELSE ClearBit(current[t], bit))

WriteBit(t) ==
  LET item == Head(todo[t])
      ch == DoBits[item.k + 1].ch
  IN  /\ pc[t] = "modify"
      /\ WriteChannelInt(ch, Modified(t))
      /\ asked' = IF Accessible("in", ch)
                    THEN [asked EXCEPT !.do[item.k + 1] = {item.v}] ELSE asked
      /\ todo' = [todo EXCEPT ![t] = Tail(@)]
      /\ pc' = [pc EXCEPT ![t] = IF Len(todo[t]) = 1 THEN "idle" ELSE "bit"]
      /\ current' = [current EXCEPT ![t] = 0]
      /\ steady' = [steady EXCEPT ![t] = @ /\ Len(todo[t]) > 1]
      /\ UNCHANGED <<attached, owner, result>>

-----------------------------------------------------------------------------
(* write_ao and write_ao_volts: one call of the shim. A channel that does    *)
(* not exist and a value that does not fit raise and change nothing.         *)

WriteAo(t, k, raw) ==
  /\ pc[t] = "idle"
  /\ Owns(t, Ao[k])
  /\ Encodable(raw, ByteSize(Ao[k]))
  /\ WriteChannelInt(Ao[k], raw)
  /\ asked' = IF Accessible("in", Ao[k]) THEN [asked EXCEPT !.ao[k] = {raw}] ELSE asked
  /\ UNCHANGED <<attached, owner, pc, todo, current, result, steady>>

WriteAoVolts(t, k, v) == WriteAo(t, k, VoltsToRaw(v[1], v[2]))

-----------------------------------------------------------------------------
(* read_di, read_do, read_ai and read_ao: one shim call for every element,   *)
(* also for every bit of one byte.                                           *)

Table == [read_di |-> DiBits, read_do |-> DoBits, read_ai |-> Ai, read_ao |-> Ao]
Reads == DOMAIN Table

Element(r, k) ==
  CASE r = "read_di" -> BitOf(ChannelInt("out", DiBits[k].ch), DiBits[k].bit)
    [] r = "read_do" -> BitOf(ChannelInt("in", DoBits[k].ch), DoBits[k].bit)
    [] r = "read_ai" -> ChannelInt("out", Ai[k])
    [] r = "read_ao" -> ChannelInt("in", Ao[k])

CallRead(t, r) ==
  /\ pc[t] = "idle"
  /\ pc' = [pc EXCEPT ![t] = r]
  /\ UNCHANGED <<attached, img, owner, todo, current, result, asked, steady>>

ReadElement(t) ==
  /\ pc[t] \in Reads
  /\ Len(result[t]) < Len(Table[pc[t]])
  /\ result' = [result EXCEPT ![t] = Append(@, Element(pc[t], Len(@) + 1))]
  /\ UNCHANGED <<attached, img, owner, pc, todo, current, asked, steady>>

ReturnRead(t) ==
  /\ pc[t] \in Reads
  /\ Len(result[t]) = Len(Table[pc[t]])
  /\ pc' = [pc EXCEPT ![t] = "idle"]
  /\ result' = [result EXCEPT ![t] = <<>>]
  /\ UNCHANGED <<attached, img, owner, todo, current, asked, steady>>

-----------------------------------------------------------------------------
(* The stack below: AtomicImage's Exchange, Attach with Prepare, and Detach. *)

Exchange ==
  /\ attached
  /\ \E frame \in Frames : img' = [img EXCEPT !["out"] = frame]
  /\ UNCHANGED <<attached, owner, pc, todo, current, result, asked, steady>>

Attach ==
  /\ ~attached
  /\ attached' = TRUE
  /\ img' \in {[i \in {"in", "out"} |-> [b \in 0 .. Size[i] - 1 |-> v]] : v \in FirstBytes}
  /\ UNCHANGED <<owner, pc, todo, current, result, asked, steady>>

Detach ==
  /\ attached
  /\ attached' = FALSE
  /\ asked' = Nothing
  /\ steady' = [t \in Threads |-> FALSE]
  /\ UNCHANGED <<img, owner, pc, todo, current, result>>

-----------------------------------------------------------------------------
Thread(t) ==
  \/ \E items \in OneOutput \cup AllOutputs : CallWriteDo(t, items)
  \/ RaiseIndexError(t)
  \/ ReadBack(t)
  \/ WriteBit(t)
  \/ \E k \in DOMAIN Ao : \/ \E raw \in Raws : WriteAo(t, k, raw)
                          \/ \E v \in Volts : WriteAoVolts(t, k, v)
  \/ \E r \in Reads : CallRead(t, r)
  \/ ReadElement(t)
  \/ ReturnRead(t)

Next ==
  \/ \E t \in Threads : Thread(t)
  \/ Exchange
  \/ Attach
  \/ Detach

Spec == Init /\ [][Next]_vars

-----------------------------------------------------------------------------
(* Properties *)

\* The state stays well formed; a byte of the image never leaves its range,
\* whatever write_do and write_ao compute (api.py:106-124, stack.py:231-243).
TypeOK ==
  /\ attached \in BOOLEAN
  /\ DOMAIN img = {"in", "out"} /\ \A i \in {"in", "out"} : img[i] \in Contents(i)
  /\ owner \in Owners
  /\ pc \in [Threads -> {"idle", "bit", "modify"} \cup Reads]
  /\ todo \in [Threads -> Seq([k : Int, v : {0, 1}])]
  /\ current \in [Threads -> Int]
  /\ result \in [Threads -> Seq(Int)]
  /\ \A t \in Threads : /\ todo[t] # <<>> <=> pc[t] \in {"bit", "modify"}
                        /\ result[t] # <<>> => pc[t] \in Reads
  /\ asked \in [do : [DOMAIN DoBits -> SUBSET {0, 1}], ao : [DOMAIN Ao -> SUBSET Int]]
  /\ steady \in [Threads -> BOOLEAN]

OutputBit(k) == BitOf(ChannelInt("in", DoBits[k].ch), DoBits[k].bit)

\* Under the rule that each output byte has one writer (Owners), the image holds
\* in every output what was last written to it in this session: no
\* read-modify-write of write_do (api.py:106-115) undoes an earlier one, of a
\* neighbouring bit or of a write_do_all that was cut short by an IndexError.
\* Two writers of one byte, and what a restart loses, are outside of it.
OutputsKept ==
  /\ \A k \in DOMAIN DoBits : \A v \in asked.do[k] : OutputBit(k) = v
  /\ \A k \in DOMAIN Ao : \A raw \in asked.ao[k] :
       EncodeInt(ChannelInt("in", Ao[k]), ByteSize(Ao[k])) = EncodeInt(raw, ByteSize(Ao[k]))

\* Inside what a channel's declared type can tell apart.
Representable(ch, raw) ==
  LET values == Values(ByteSize(ch))
  IN  IF ch.signed THEN -(values \div 2) <= raw /\ raw < values \div 2
                   ELSE 0 <= raw /\ raw < values

\* A thread that reads back outputs of its own (api.py:129-137) gets what it
\* wrote, bit for bit and in the order of the channel table; an analog value
\* comes back as itself if the channel's type can represent it.
OwnOutputsReadBack ==
  \A t \in Threads : \A k \in DOMAIN result[t] :
    /\ pc[t] = "read_do" /\ Owns(t, DoBits[k].ch) =>
         \A v \in asked.do[k] : result[t][k] = v
    /\ pc[t] = "read_ao" /\ Owns(t, Ao[k]) =>
         \A raw \in asked.ao[k] : Representable(Ao[k], raw) => result[t][k] = raw

\* In one session, and with one writer for each output byte (Owners), the write
\* of a digital output changes that bit and no other output of the image
\* (test_write_digital_output_sets_only_that_bit), also of bits nobody has
\* written yet and with other threads' calls and cycles in between.
OnlyThatBit ==
  [][\A t \in Threads :
       pc[t] = "modify" /\ todo'[t] # todo[t] /\ steady[t] =>
         \A ch \in {Layout.outputs[c] : c \in DOMAIN Layout.outputs} :
           \A b \in 0 .. ch.bits - 1 :
             [ch |-> ch, bit |-> b] # DoBits[Head(todo[t]).k + 1] =>
               BitOf(ChannelInt("in", ch), b)' = BitOf(ChannelInt("in", ch), b)]_vars
=============================================================================
