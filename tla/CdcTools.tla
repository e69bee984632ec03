------------------------------ MODULE CdcTools ------------------------------
(***************************************************************************)
(* The concise device configuration (mnobd.cdc) and what fix_cdc.py and    *)
(* dump_cdc.py make of it. A file is the entry count its header declares,  *)
(* the entries that follow it, and the bytes left over behind the last one *)
(* (fewer than the 7 of an entry's header). Only the last entry can be cut *)
(* short: behind a size that is too large everything is payload.           *)
(***************************************************************************)
EXTENDS Integers, SequencesExt

CONSTANTS
  Subs,        \* subindices: node numbers
  MaxEntries,  \* bound: entries of a file
  MaxCount,    \* bound: the count a header declares
  MaxRest      \* bound: bytes left over

\* The count of the entries that are there fits the header.
ASSUME CdcAssumption ==
  /\ MaxEntries \in Nat /\ MaxCount \in Nat /\ MaxRest \in Nat
  /\ MaxEntries <= MaxCount

\* The bits of a NodeAssignment value the tools know by name. VALID is in its
\* last byte, the others in its first.
CnBits == {"EXISTS", "IS_CN", "START_CN"}
Bits == CnBits \cup {"VALID"}

\* size: the bytes declared; present: the bytes that are there; bits: those of
\* Bits that the little-endian value of the bytes has.
Entry ==
  {e \in [index : {"NodeAssignment", "other"}, sub : Subs, size : {2, 4},
          present : {0, 2, 4}, bits : SUBSET Bits] :
     /\ e.present <= e.size
     /\ e.present < 4 => "VALID" \notin e.bits
     /\ e.present = 0 => e.bits = {}}

CutShort(e) == e.present < e.size

Files ==
  {f \in [declared : 0 .. MaxCount, rest : 0 .. MaxRest,
          entries : UNION {[1 .. n -> Entry] : n \in 0 .. MaxEntries}] :
     \A k \in DOMAIN f.entries :
       CutShort(f.entries[k]) => k = Len(f.entries) /\ f.rest = 0}

-----------------------------------------------------------------------------
(* fix(src, dst): walk the entries, then rewrite the count and the values.   *)

IsAssignment(e) == e.index = "NodeAssignment" /\ e.size = 4

\* Mutant: the value is written, not or-ed into what is there.
MendedByWriting(e) == IF IsAssignment(e) THEN [e EXCEPT !.bits = CnBits] ELSE e

\* Mutant: START_CN is left out.
MendedWithoutStart(e) ==
  IF IsAssignment(e) THEN [e EXCEPT !.bits = @ \cup {"EXISTS", "IS_CN"}] ELSE e

Mended(e) == IF IsAssignment(e) THEN [e EXCEPT !.bits = @ \cup CnBits] ELSE e

\* Mutant: the walk begins to count at one.
CountedFromOne(f) == Len(f.entries) + 1

\* The n of the walk over the real entries.
Counted(f) == Len(f.entries)

\* Exit status 2, and nothing is written.
Refused(f) == \E k \in DOMAIN f.entries : CutShort(f.entries[k])

Fix(f) == [f EXCEPT !.declared = Counted(f),
                    !.entries = [k \in DOMAIN @ |-> Mended(@[k])]]

-----------------------------------------------------------------------------
(* dump_cdc.py, which reads a file cut short as far as it goes, and the      *)
(* stack, which replays exactly as many entries as the header declares.      *)

NodesAsCn(f) ==
  {f.entries[k].sub : k \in {j \in DOMAIN f.entries :
     f.entries[j].index = "NodeAssignment" /\ {"EXISTS", "IS_CN"} \subseteq f.entries[j].bits}}

Replayed(f) == IF f.declared > Len(f.entries) THEN f.entries
               ELSE SubSeq(f.entries, 1, f.declared)

-----------------------------------------------------------------------------
VARIABLES
  file,   \* the configuration, fixed in place
  exit    \* the exit status of the last fix_cdc.py, "none" before the first

vars == <<file, exit>>

Init == file \in Files /\ exit = "none"

FixWrites ==
  /\ ~Refused(file)
  /\ file' = Fix(file)
  /\ exit' = "0"

FixRefuses ==
  /\ Refused(file)
  /\ exit' = "2"
  /\ UNCHANGED file

Next == FixWrites \/ FixRefuses

Spec == Init /\ [][Next]_vars

-----------------------------------------------------------------------------
(* Properties *)

\* The records stay what the tools take them for.
TypeOK == file \in Files /\ exit \in {"none", "0", "2"}

\* After a successful fix the stack replays every entry of the file, and the
\* nodes it then starts as CNs are all nodes that have a NodeAssignment of 4
\* bytes: none of these is left in the state the header of fix_cdc.py complains
\* of, and dump_cdc.py lists each of them. A NodeAssignment of another size is
\* left as it is (fix_cdc.py:39).
FixedStartsEveryNode ==
  exit = "0" =>
    /\ Replayed(file) = file.entries
    /\ \A e \in Range(Replayed(file)) :
         IsAssignment(e) => CnBits \subseteq e.bits /\ e.sub \in NodesAsCn(file)

\* Fixing keeps what an entry says beyond those bits, VALID above all, and a
\* fixed file is left as it is by another fix ("It does not change anything
\* else", fix_cdc.py:15).
FixChangesNothingElse ==
  [][/\ Len(file'.entries) = Len(file.entries) /\ file'.rest = file.rest
     /\ \A k \in DOMAIN file.entries :
          LET e == file.entries[k]
              g == file'.entries[k]
          IN  /\ g = [e EXCEPT !.bits = g.bits]
              /\ e.bits \subseteq g.bits /\ g.bits \subseteq e.bits \cup CnBits
              /\ g.bits # e.bits => e.index = "NodeAssignment"
     /\ exit # "none" => file' = file]_vars
=============================================================================
