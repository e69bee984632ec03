----------------------------- MODULE CdcTools_proofs -----------------------------
(***************************************************************************)
(* Theorems about CdcTools for every set of nodes and files of any size.   *)
(***************************************************************************)
EXTENDS CdcTools, SequenceTheorems, TLAPS

Lists == UNION {[1 .. n -> Entry] : n \in 0 .. MaxEntries}

LEMMA FileParts ==
  ASSUME NEW f \in Files
  PROVE  /\ f = [declared |-> f.declared, rest |-> f.rest, entries |-> f.entries]
         /\ f.declared \in 0 .. MaxCount /\ f.rest \in 0 .. MaxRest
         /\ f.entries \in Lists /\ f.entries \in Seq(Entry)
         /\ Len(f.entries) \in 0 .. MaxEntries /\ DOMAIN f.entries = 1 .. Len(f.entries)
         /\ f.entries \in [1 .. Len(f.entries) -> Entry]
         /\ \A k \in DOMAIN f.entries : f.entries[k] \in Entry
<1>1. /\ f = [declared |-> f.declared, rest |-> f.rest, entries |-> f.entries]
      /\ f.declared \in 0 .. MaxCount /\ f.rest \in 0 .. MaxRest /\ f.entries \in Lists
  BY DEF Files, Lists
<1>2. PICK n \in 0 .. MaxEntries : f.entries \in [1 .. n -> Entry]
  BY <1>1 DEF Lists
<1>3. n \in Nat /\ f.entries \in Seq(Entry)
  BY <1>2, CdcAssumption, SeqDef
<1>4. Len(f.entries) = n
  BY <1>2, <1>3, LenProperties
<1> QED
  BY <1>1, <1>2, <1>3, <1>4

\* The fields of an entry.
LEMMA EntryParts ==
  ASSUME NEW e \in Entry
  PROVE  /\ e = [index |-> e.index, sub |-> e.sub, size |-> e.size, present |-> e.present,
                 bits |-> e.bits]
         /\ e.index \in {"NodeAssignment", "other"} /\ e.sub \in Subs /\ e.size \in {2, 4}
         /\ e.present \in {0, 2, 4} /\ e.bits \subseteq Bits
         /\ e.present < 4 => "VALID" \notin e.bits
         /\ e.present = 0 => e.bits = {}
BY DEF Entry

\* What mending keeps of a complete entry, and what it adds.
LEMMA MendedEntry ==
  ASSUME NEW e \in Entry, ~CutShort(e)
  PROVE  /\ Mended(e) \in Entry
         /\ ~CutShort(Mended(e))
         /\ Mended(e) = [e EXCEPT !.bits = Mended(e).bits]
         /\ e.bits \subseteq Mended(e).bits /\ Mended(e).bits \subseteq e.bits \cup CnBits
         /\ Mended(e).bits # e.bits => e.index = "NodeAssignment"
         /\ Mended(Mended(e)) = Mended(e)
         /\ IsAssignment(Mended(e)) => CnBits \subseteq Mended(e).bits
<1>a. /\ e = [index |-> e.index, sub |-> e.sub, size |-> e.size, present |-> e.present,
              bits |-> e.bits]
      /\ e.size \in {2, 4} /\ e.present \in {0, 2, 4} /\ e.bits \subseteq Bits
  BY EntryParts
<1>1. CASE IsAssignment(e)
  <2> DEFINE m == [e EXCEPT !.bits = e.bits \cup CnBits]
  <2>1. Mended(e) = m
    BY <1>1 DEF Mended
  <2>2. /\ m.index = e.index /\ m.sub = e.sub /\ m.size = e.size /\ m.present = e.present
        /\ m.bits = e.bits \cup CnBits
        /\ m = [index |-> e.index, sub |-> e.sub, size |-> e.size, present |-> e.present,
                bits |-> e.bits \cup CnBits]
    BY <1>a
  <2>3. e.size = 4 /\ e.present = 4 /\ e.index = "NodeAssignment"
    BY <1>1, <1>a DEF IsAssignment, CutShort
  <2>4. m \in Entry
    <3>1. e.bits \cup CnBits \in SUBSET Bits
      BY <1>a DEF Bits
    <3>2. e.sub \in Subs
      BY EntryParts
    <3> QED
      BY <2>2, <2>3, <3>1, <3>2 DEF Entry
  <2>5. ~CutShort(m) /\ IsAssignment(m)
    BY <2>2, <2>3 DEF CutShort, IsAssignment
  <2>6. Mended(m) = m
    <3>1. Mended(m) = [m EXCEPT !.bits = m.bits \cup CnBits]
      BY <2>5 DEF Mended
    <3>2. m.bits \cup CnBits = m.bits
      BY <2>2
    <3> HIDE DEF m
    <3> QED
      BY <2>2, <3>1, <3>2
  <2>7. m = [e EXCEPT !.bits = m.bits]
    BY <2>2
  <2> HIDE DEF m
  <2> QED
    BY <2>1, <2>2, <2>3, <2>4, <2>5, <2>6, <2>7
<1>2. CASE ~IsAssignment(e)
  <2>1. Mended(e) = e
    BY <1>2 DEF Mended
  <2>2. e = [e EXCEPT !.bits = e.bits]
    BY <1>a
  <2> QED
    BY <1>2, <2>1, <2>2
<1> QED
  BY <1>1, <1>2

\* A file that is not refused is mended entry by entry, and its count told.
LEMMA FixedFile ==
  ASSUME NEW f \in Files, ~Refused(f)
  PROVE  /\ Fix(f) \in Files /\ ~Refused(Fix(f))
         /\ Fix(f).declared = Len(Fix(f).entries) /\ Fix(f).rest = f.rest
         /\ Len(Fix(f).entries) = Len(f.entries)
         /\ DOMAIN Fix(f).entries = DOMAIN f.entries
         /\ \A k \in DOMAIN f.entries : Fix(f).entries[k] = Mended(f.entries[k])
<1> DEFINE n == Len(f.entries)
           m == [k \in 1 .. n |-> Mended(f.entries[k])]
<1>1. /\ f = [declared |-> f.declared, rest |-> f.rest, entries |-> f.entries]
      /\ f.rest \in 0 .. MaxRest /\ n \in 0 .. MaxEntries /\ DOMAIN f.entries = 1 .. n
      /\ \A k \in 1 .. n : f.entries[k] \in Entry /\ ~CutShort(f.entries[k])
  BY FileParts DEF Refused
<1>2. n \in Nat /\ n \in 0 .. MaxCount
  BY <1>1, CdcAssumption
<1>3. m \in [1 .. n -> Entry] /\ \A k \in 1 .. n : ~CutShort(m[k])
  BY <1>1, MendedEntry
<1>4. m \in Seq(Entry) /\ Len(m) = n /\ DOMAIN m = 1 .. n
  BY <1>2, <1>3, SeqDef, LenProperties
<1>5. Fix(f) = [declared |-> n, rest |-> f.rest, entries |-> m]
  <2>1. [k \in DOMAIN f.entries |-> Mended(f.entries[k])] = m
    BY <1>1
  <2>2. Fix(f) = [f EXCEPT !.declared = n, !.entries = m]
    BY <2>1 DEF Fix, Counted
  <2> HIDE DEF n, m
  <2> QED
    BY <1>1, <2>2
<1>6. m \in UNION {[1 .. i -> Entry] : i \in 0 .. MaxEntries}
  BY <1>1, <1>3
<1> HIDE DEF n, m
<1>7. Fix(f) \in Files
  BY <1>1, <1>2, <1>3, <1>4, <1>5, <1>6 DEF Files
<1>8. ~Refused(Fix(f))
  BY <1>3, <1>4, <1>5 DEF Refused
<1> QED
  BY <1>1, <1>4, <1>5, <1>7, <1>8 DEF n, m

\* Fixing a fixed file changes nothing.
LEMMA FixedTwice ==
  ASSUME NEW f \in Files, ~Refused(f)
  PROVE  Fix(Fix(f)) = Fix(f)
<1> DEFINE g == Fix(f)
           h == Fix(g)
<1>1. /\ g \in Files /\ ~Refused(g) /\ g.declared = Len(g.entries)
      /\ DOMAIN g.entries = DOMAIN f.entries
      /\ \A k \in DOMAIN f.entries : g.entries[k] = Mended(f.entries[k])
  BY FixedFile
<1> HIDE DEF g
<1>2. /\ h \in Files /\ h.declared = Len(h.entries) /\ h.rest = g.rest
      /\ Len(h.entries) = Len(g.entries) /\ DOMAIN h.entries = DOMAIN g.entries
      /\ \A k \in DOMAIN g.entries : h.entries[k] = Mended(g.entries[k])
  BY <1>1, FixedFile
<1> HIDE DEF h
<1>3. \A k \in DOMAIN f.entries : Mended(Mended(f.entries[k])) = Mended(f.entries[k])
  BY FileParts, MendedEntry DEF Refused
<1>4. \A k \in DOMAIN g.entries : h.entries[k] = g.entries[k]
  BY <1>1, <1>2, <1>3
<1>5. g.entries \in Seq(Entry) /\ h.entries \in Seq(Entry)
  BY <1>1, <1>2, FileParts
<1>6. h.entries = g.entries
  BY <1>2, <1>4, <1>5, SeqEqual, LenProperties
<1>7. /\ g = [declared |-> g.declared, rest |-> g.rest, entries |-> g.entries]
      /\ h = [declared |-> h.declared, rest |-> h.rest, entries |-> h.entries]
  BY <1>1, <1>2, FileParts
<1>8. h = g
  BY <1>1, <1>2, <1>6, <1>7
<1> QED
  BY <1>8 DEF g, h

-----------------------------------------------------------------------------
(* The inductive invariant: the exit status tells what the file is like.    *)

Told ==
  /\ file \in Files
  /\ exit \in {"none", "0", "2"}
  /\ exit = "0" => ~Refused(file) /\ \E f \in Files : ~Refused(f) /\ file = Fix(f)
  /\ exit = "2" => Refused(file)

LEMMA InitTold == Init => Told
BY DEF Init, Told

LEMMA NextTold == Told /\ [Next]_vars => Told'
<1> SUFFICES ASSUME Told, [Next]_vars PROVE Told'
  OBVIOUS
<1>1. CASE FixWrites
  <2>1. ~Refused(file) /\ file' = Fix(file) /\ exit' = "0" /\ file \in Files
    BY <1>1 DEF FixWrites, Told
  <2>2. Fix(file) \in Files /\ ~Refused(Fix(file))
    BY <2>1, FixedFile
  <2>3. ~Refused(file)'
    BY <2>1, <2>2 DEF Refused
  <2> QED
    BY <2>1, <2>2, <2>3 DEF Told
<1>2. CASE FixRefuses
  BY <1>2 DEF FixRefuses, Told, Refused
<1>3. CASE UNCHANGED vars
  BY <1>3 DEF vars, Told, Refused
<1> QED
  BY <1>1, <1>2, <1>3 DEF Next

LEMMA ToldHolds == Spec => []Told
BY InitTold, NextTold, PTL DEF Spec

\* The file stays a configuration whose count and entries fit.
THEOREM CdcTypeCorrect == Spec => []TypeOK
<1>1. Told => TypeOK
  BY DEF Told, TypeOK
<1> QED
  BY <1>1, ToldHolds, PTL

\* After status 0 the stack replays every entry, and starts every node that has
\* a NodeAssignment; dump_cdc.py lists each of them.
THEOREM FixedFilesStartNodes == Spec => []FixedStartsEveryNode
<1>1. Told => FixedStartsEveryNode
  <2> SUFFICES ASSUME Told, exit = "0"
               PROVE  /\ Replayed(file) = file.entries
                      /\ \A e \in Range(Replayed(file)) :
                           IsAssignment(e) => CnBits \subseteq e.bits /\ e.sub \in NodesAsCn(file)
    BY DEF FixedStartsEveryNode
  <2>1. PICK f \in Files : ~Refused(f) /\ file = Fix(f)
    BY DEF Told
  <2>2. /\ file \in Files /\ file.declared = Len(file.entries)
        /\ DOMAIN file.entries = DOMAIN f.entries
        /\ \A k \in DOMAIN f.entries : file.entries[k] = Mended(f.entries[k])
    BY <2>1, FixedFile
  <2>3. file.entries \in Seq(Entry) /\ Len(file.entries) \in Nat
    BY <2>2, FileParts
  <2>4. Replayed(file) = file.entries
    BY <2>2, <2>3, SubSeqFull DEF Replayed
  <2>5. \A k \in DOMAIN file.entries :
          IsAssignment(file.entries[k]) => CnBits \subseteq file.entries[k].bits
    BY <2>1, <2>2, FileParts, MendedEntry DEF Refused
  <2>6. \A k \in DOMAIN file.entries :
          IsAssignment(file.entries[k]) => file.entries[k].sub \in NodesAsCn(file)
    BY <2>5 DEF NodesAsCn, IsAssignment, CnBits
  <2> QED
    BY <2>4, <2>5, <2>6 DEF Range
<1> QED
  BY <1>1, ToldHolds, PTL

\* Fixing keeps whatever it does not add, and a fixed file as a whole.
THEOREM FixingKeeps == Spec => FixChangesNothingElse
<1>1. ASSUME Told, [Next]_vars
      PROVE [/\ Len(file'.entries) = Len(file.entries) /\ file'.rest = file.rest
             /\ \A k \in DOMAIN file.entries :
                  LET e == file.entries[k]
                      g == file'.entries[k]
                  IN  /\ g = [e EXCEPT !.bits = g.bits]
                      /\ e.bits \subseteq g.bits /\ g.bits \subseteq e.bits \cup CnBits
                      /\ g.bits # e.bits => e.index = "NodeAssignment"
             /\ exit # "none" => file' = file]_vars
  <2>1. CASE FixWrites
    <3>1. ~Refused(file) /\ file' = Fix(file) /\ file \in Files
      BY <1>1, <2>1 DEF FixWrites, Told
    <3>2. /\ Fix(file).rest = file.rest /\ Len(Fix(file).entries) = Len(file.entries)
          /\ \A k \in DOMAIN file.entries : Fix(file).entries[k] = Mended(file.entries[k])
      BY <3>1, FixedFile
    <3>3. \A k \in DOMAIN file.entries : file.entries[k] \in Entry /\ ~CutShort(file.entries[k])
      BY <3>1, FileParts DEF Refused
    <3>4. exit # "none" => file' = file
      <4>1. exit # "none" => \E f \in Files : ~Refused(f) /\ file = Fix(f)
        BY <1>1, <3>1 DEF Told
      <4> QED
        BY <3>1, <4>1, FixedTwice
    <3>5. \A k \in DOMAIN file.entries :
            LET e == file.entries[k]
                g == file'.entries[k]
            IN  /\ g = [e EXCEPT !.bits = g.bits]
                /\ e.bits \subseteq g.bits /\ g.bits \subseteq e.bits \cup CnBits
                /\ g.bits # e.bits => e.index = "NodeAssignment"
      BY <3>1, <3>2, <3>3, MendedEntry
    <3> QED
      BY <3>1, <3>2, <3>4, <3>5
  <2>2. CASE FixRefuses
    <3>1. file' = file /\ file \in Files
      BY <1>1, <2>2 DEF FixRefuses, Told
    <3>2. \A k \in DOMAIN file.entries :
            file.entries[k] = [file.entries[k] EXCEPT !.bits = file.entries[k].bits]
      BY <3>1, FileParts, EntryParts
    <3> QED
      BY <3>1, <3>2
  <2>3. CASE UNCHANGED vars
    BY <2>3
  <2> QED
    BY <1>1, <2>1, <2>2, <2>3 DEF Next
<1> QED
  BY <1>1, ToldHolds, PTL DEF Spec, FixChangesNothingElse
=============================================================================
