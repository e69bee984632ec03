-------------------------------- MODULE Xap --------------------------------
(***************************************************************************)
(* parse_xap (xap.py): from the elements of an xap.xml to the sizes of the *)
(* two process images and their channels. An element of the document is a  *)
(* record [tag, type, size, channels]; a channel element is a record       *)
(* [tag, words, dataType, dataSize, offset], where words are the words     *)
(* "digital" and "analog" that its name mentions. Reading XML and          *)
(* converting the attributes are left to the library.                      *)
(*                                                                         *)
(* The names turn around: type "output" is what the MN reads from the CN.  *)
(***************************************************************************)
EXTENDS SequencesExt

Kinds == {"digital", "analog"}

Classify(el) ==
  IF "digital" \in el.words THEN "digital"
  ELSE IF "analog" \in el.words THEN "analog"
  ELSE IF el.dataType = "unsigned8" THEN "digital" ELSE "analog"

Channel(el) ==
  [kind |-> Classify(el), off |-> el.offset, bits |-> el.dataSize,
   signed |-> el.dataType = "integer"]

Channels(block) ==
  LET els == SelectSeq(block.channels, LAMBDA el : el.tag = "Channel")
  IN  [k \in DOMAIN els |-> Channel(els[k])]

\* Of several blocks of a type the last one counts, with its size and channels.
LastBlock(doc, type) ==
  LET k == SelectLastInSeq(doc, LAMBDA el : el.tag = "ProcessImage" /\ el.type = type)
  IN  IF k = 0 THEN [size |-> 0, channels |-> <<>>]
      ELSE [size |-> doc[k].size, channels |-> Channels(doc[k])]

ParseXap(doc) ==
  [input_size  |-> LastBlock(doc, "output").size,
   inputs      |-> LastBlock(doc, "output").channels,
   output_size |-> LastBlock(doc, "input").size,
   outputs     |-> LastBlock(doc, "input").channels]

\* Otherwise XapError.
Parsed(image) == image.inputs # <<>> \/ image.outputs # <<>>

\* digital_inputs, analog_inputs, digital_outputs, analog_outputs.
OfKind(channels, kind) ==
  FlattenSeq([k \in DOMAIN channels |->
                IF channels[k].kind = kind THEN <<channels[k]>> ELSE <<>>])
=============================================================================
