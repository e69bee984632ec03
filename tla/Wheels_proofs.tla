------------------------------ MODULE Wheels_proofs ------------------------------
(***************************************************************************)
(* Theorems about Wheels for every set of directories, every command line, *)
(* and any number of runs and versions.                                    *)
(***************************************************************************)
EXTENDS Wheels, SequenceTheorems, FiniteSetTheorems, TLAPS

Places == {"absent", "native", "tmp", "lost"}
Wheel == [version : 1 .. version, ships : SUBSET (Dirs \X Libs)]
TaggedWheel == [version : 1 .. version, platform : Tagged, ships : SUBSET (Dirs \X Libs)]

-----------------------------------------------------------------------------
(* Sequences and the sets of their elements. *)

LEMMA SetOfAppend ==
  ASSUME NEW S, NEW s \in Seq(S), NEW e \in S
  PROVE  ToSet(Append(s, e)) = ToSet(s) \cup {e}
BY AppendProperties, LenProperties DEF ToSet

LEMMA SetOfTail ==
  ASSUME NEW S, NEW s \in Seq(S), s # <<>>
  PROVE  ToSet(s) = {Head(s)} \cup ToSet(Tail(s))
<1>1. /\ Len(s) \in Nat /\ Len(s) # 0 /\ DOMAIN s = 1 .. Len(s) /\ Head(s) = s[1]
      /\ Tail(s) \in Seq(S) /\ Len(Tail(s)) = Len(s) - 1
      /\ DOMAIN Tail(s) = 1 .. Len(s) - 1
      /\ \A i \in 1 .. Len(Tail(s)) : Tail(s)[i] = s[i + 1]
  BY HeadTailProperties, LenProperties, EmptySeq
<1>2. \A i \in DOMAIN s : i = 1 \/ (i - 1 \in DOMAIN Tail(s) /\ Tail(s)[i - 1] = s[i])
  BY <1>1
<1>3. \A i \in DOMAIN Tail(s) : i + 1 \in DOMAIN s /\ Tail(s)[i] = s[i + 1]
  BY <1>1
<1>4. 1 \in DOMAIN s
  BY <1>1
<1>5. ToSet(s) \subseteq {Head(s)} \cup ToSet(Tail(s))
  BY <1>1, <1>2 DEF ToSet
<1>6. Head(s) \in ToSet(s) /\ ToSet(Tail(s)) \subseteq ToSet(s)
  BY <1>1, <1>3, <1>4 DEF ToSet
<1> QED
  BY <1>5, <1>6

LEMMA SetOfEmpty == ToSet(<<>>) = {}
BY DEF ToSet

LEMMA SetOfSeq == ASSUME NEW S, NEW s \in Seq(S) PROVE ToSet(s) \subseteq S
BY LenProperties, ElementOfSeq DEF ToSet

\* No element twice.
Distinct(s) == \A i, j \in DOMAIN s : i # j => s[i] # s[j]

LEMMA DistinctAppend ==
  ASSUME NEW S, NEW s \in Seq(S), NEW e \in S, Distinct(s), e \notin ToSet(s)
  PROVE  Distinct(Append(s, e))
<1>1. /\ Len(s) \in Nat /\ DOMAIN s = 1 .. Len(s)
      /\ DOMAIN Append(s, e) = 1 .. Len(s) + 1 /\ Append(s, e)[Len(s) + 1] = e
      /\ \A i \in 1 .. Len(s) : Append(s, e)[i] = s[i] /\ s[i] # e
  BY AppendProperties, LenProperties DEF ToSet
<1>2. \A i \in 1 .. Len(s) + 1 : i \in 1 .. Len(s) \/ i = Len(s) + 1
  BY <1>1
<1> QED
  BY <1>1, <1>2 DEF Distinct

LEMMA DistinctTail ==
  ASSUME NEW S, NEW s \in Seq(S), s # <<>>, Distinct(s)
  PROVE  Distinct(Tail(s)) /\ Head(s) \notin ToSet(Tail(s))
<1>1. /\ Len(s) \in Nat /\ Len(s) # 0 /\ DOMAIN s = 1 .. Len(s) /\ Head(s) = s[1]
      /\ Tail(s) \in Seq(S) /\ Len(Tail(s)) = Len(s) - 1
      /\ DOMAIN Tail(s) = 1 .. Len(s) - 1
      /\ \A i \in 1 .. Len(Tail(s)) : Tail(s)[i] = s[i + 1]
  BY HeadTailProperties, LenProperties, EmptySeq
<1>2. \A i \in DOMAIN Tail(s) : i + 1 \in DOMAIN s /\ i + 1 # 1 /\ Tail(s)[i] = s[i + 1]
  BY <1>1
<1>3. 1 \in DOMAIN s
  BY <1>1
<1>4. \A i, j \in DOMAIN Tail(s) : i # j => i + 1 # j + 1
  BY <1>1
<1>5. \A i \in DOMAIN Tail(s) : Tail(s)[i] # Head(s)
  BY <1>1, <1>2, <1>3 DEF Distinct
<1> QED
  BY <1>2, <1>4, <1>5 DEF Distinct, ToSet

LEMMA DistinctEmpty == Distinct(<<>>)
BY DEF Distinct

\* The directories of a command line, and of the listing of _native/.
LEMMA Lists == Arguments \cup AllPresent \subseteq Seq(Dirs)
<1>1. Arguments \subseteq Seq(Dirs)
  BY BoundsAssumption, SeqDef DEF Arguments, BoundedSeq, SeqOf
<1>2. AllPresent \subseteq Seq(Dirs)
  <2> DEFINE S == {d \in Tagged : Present(d)}
  <2>1. S \subseteq Dirs
    BY DEF Tagged
  <2>2. Cardinality(S) \in Nat
    BY <2>1, DirsAssumption, FS_Subset, FS_CardinalityType
  <2> HIDE DEF S
  <2>3. SetToSeqs(S) \subseteq [1 .. Cardinality(S) -> S]
    BY DEF SetToSeqs
  <2>4. [1 .. Cardinality(S) -> S] \subseteq [1 .. Cardinality(S) -> Dirs]
    BY <2>1
  <2>5. [1 .. Cardinality(S) -> Dirs] \subseteq Seq(Dirs)
    BY <2>2, SeqDef
  <2> QED
    BY <2>3, <2>4, <2>5 DEF AllPresent, S
<1> QED
  BY <1>1, <1>2

-----------------------------------------------------------------------------
(* The inductive invariant. *)

Working == step \in {"hide", "build", "restore", "retag"}

Typed ==
  /\ where \in [Dirs -> Places]
  /\ before \in [Dirs -> Places]
  /\ built \subseteq Dirs \X Libs
  /\ version \in 1 .. MaxVersions
  /\ step \in {"idle", "next", "hide", "build", "restore", "retag"}
  /\ targets \in Seq(Dirs)
  /\ asked \in Seq(Dirs)
  /\ hidden \in Seq(Tagged)
  /\ raised \in BOOLEAN
  /\ mishap \in BOOLEAN
  /\ pure \subseteq Wheel
  /\ dist \subseteq TaggedWheel
  /\ exit \in {"none", "0", "error"}

\* The platform that is built stays, and what is hidden is hidden once.
Aside ==
  /\ Working => /\ targets # <<>>
                /\ Head(targets) \in Tagged
                /\ where[Head(targets)] = "native"
                /\ \E l \in Libs : <<Head(targets), l>> \in built
                /\ Head(targets) \notin ToSet(hidden)
  /\ step \in {"idle", "next", "retag"} => hidden = <<>>
  /\ \A d \in ToSet(hidden) : where[d] = "tmp"
  /\ Distinct(hidden)

\* Everything but the hidden directories is where it was, and those were there.
Kept ==
  /\ step # "idle" => ~mishap
  /\ ~mishap => \A d \in Dirs : IF d \in ToSet(hidden) THEN before[d] = "native"
                                                      ELSE where[d] = before[d]

\* A wheel for p: it has the libraries of p that are there, and of no other
\* platform with a tag.
FitFor(w, p) ==
  /\ Carried(w) \cap Tagged = {p}
  /\ ({p} \X Libs) \cap built \subseteq w.ships

\* The wheel just built is for its platform.
JustBuilt == \E w \in pure : w.version = version /\ FitFor(w, Head(targets))

Packed ==
  /\ \A v, w \in pure : v.version = w.version => v = w
  /\ step = "build" => Others = {}
  /\ step = "retag" \/ (step = "restore" /\ ~raised) => JustBuilt
  /\ \A w \in dist : FitFor(w, w.platform)

Delivered(p) == \E w \in dist : w.platform = p /\ w.version = version

\* What was asked for is made, or still to be made.
Pending ==
  /\ step # "idle" => exit = "none" /\ \A p \in ToSet(asked) : p \in ToSet(targets) \/ Delivered(p)
  /\ ExitZeroDelivers

WheelsInv == Typed /\ Aside /\ Kept /\ Packed /\ Pending

LEMMA InitHolds == Init => WheelsInv
<1> SUFFICES ASSUME Init PROVE WheelsInv
  OBVIOUS
<1>1. <<>> \in Seq(Dirs) /\ <<>> \in Seq(Tagged) /\ 1 \in 1 .. MaxVersions
  BY BoundsAssumption
<1>2. Typed
  BY <1>1 DEF Init, Typed, Places
<1>3. Aside /\ Kept
  BY SetOfEmpty, DistinctEmpty DEF Init, Aside, Kept, Working
<1>4. Packed /\ Pending
  BY DEF Init, Packed, Pending, ExitZeroDelivers
<1> QED
  BY <1>2, <1>3, <1>4 DEF WheelsInv

-----------------------------------------------------------------------------
(* Types. *)

LEMMA EndRunTyped ==
  ASSUME NEW e \in {"0", "error"}, EndRun(e)
  PROVE  /\ step' = "idle" /\ targets' = <<>> /\ hidden' = <<>> /\ raised' = FALSE
         /\ targets' \in Seq(Dirs) /\ hidden' \in Seq(Tagged)
         /\ exit' \in {"none", "0", "error"}
BY DEF EndRun

LEMMA DeletedTyped ==
  ASSUME Typed, NEW torn PROVE Deleted(torn) \in [Dirs -> Places]
BY DEF Typed, Deleted, Places

LEMMA NewWheelTyped == Typed => WithNewWheel \subseteq Wheel
<1> SUFFICES ASSUME Typed PROVE WithNewWheel \subseteq Wheel
  OBVIOUS
<1>1. version \in 1 .. version
  BY BoundsAssumption DEF Typed
<1>2. NewWheel \in Wheel
  BY <1>1 DEF NewWheel, Wheel, Typed
<1> QED
  BY <1>2 DEF WithNewWheel, Typed

\* The latest wheel is the one of the current version, if there is one.
LEMMA LatestIsNewest ==
  ASSUME Typed, NEW w \in pure, w.version = version,
         \A v, u \in pure : v.version = u.version => v = u
  PROVE  Latest = w
<1>1. \A v \in pure : v.version \in 1 .. version
  BY DEF Typed, Wheel
<1>2. version \in Nat
  BY DEF Typed
<1>3. \A v \in pure : v.version <= w.version
  BY <1>1, <1>2
<1>4. \A u \in pure : (\A v \in pure : v.version <= u.version) => u = w
  <2> SUFFICES ASSUME NEW u \in pure, \A v \in pure : v.version <= u.version PROVE u = w
    OBVIOUS
  <2>1. u.version = w.version
    BY <1>1, <1>2
  <2> QED
    BY <2>1
<1> QED
  BY <1>3, <1>4 DEF Latest

LEMMA NextTyped == WheelsInv /\ [Next]_vars => Typed'
<1> SUFFICES ASSUME WheelsInv, [Next]_vars PROVE Typed'
  OBVIOUS
<1>a. Typed /\ Aside /\ Packed
  BY DEF WheelsInv
<1> USE DEF files, wheels, history
<1>b. UNCHANGED version => Wheel' = Wheel /\ TaggedWheel' = TaggedWheel
  BY DEF Wheel, TaggedWheel
<1>1. CASE RunScript
  <2>1. targets' \in Seq(Dirs) /\ asked' \in Seq(Dirs)
    BY <1>1, Lists DEF RunScript
  <2>2. UNCHANGED <<where, built, version, hidden, raised, pure, dist>> /\ before' = where
        /\ mishap' = FALSE
    BY <1>1 DEF RunScript
  <2>3. step' \in {"idle", "next"} /\ exit' \in {"none", "error"}
    BY <1>1 DEF RunScript
  <2> QED
    BY <1>a, <1>b, <2>1, <2>2, <2>3 DEF Typed
<1>2. CASE NewVersion
  <2>1. version' \in 1 .. MaxVersions /\ 1 .. version \subseteq 1 .. version'
    <3>1. version \in 1 .. MaxVersions
      BY <1>a DEF Typed
    <3> QED
      BY <1>2, <3>1, BoundsAssumption DEF NewVersion
  <2>2. Wheel \subseteq Wheel' /\ TaggedWheel \subseteq TaggedWheel'
    BY <2>1 DEF Wheel, TaggedWheel
  <2>3. UNCHANGED <<where, built, step, targets, hidden, raised, pure, dist, before, asked, mishap>>
        /\ exit' = "none"
    BY <1>2 DEF NewVersion
  <2> QED
    BY <1>a, <2>1, <2>2, <2>3 DEF Typed
<1>3. CASE Refuse \/ MainReturns \/ RetagFails
  <2>1. PICK e \in {"0", "error"} : EndRun(e)
    BY <1>3 DEF Refuse, MainReturns, RetagFails
  <2>2. UNCHANGED <<where, built, version, pure, dist, before, asked, mishap>>
    BY <1>3 DEF Refuse, MainReturns, RetagFails
  <2> QED
    BY <1>a, <1>b, <2>1, <2>2, EndRunTyped DEF Typed
<1>4. CASE BeginOne \/ AllHidden
  <2>1. UNCHANGED <<where, built, version, targets, hidden, raised, pure, dist, exit, before, asked, mishap>>
        /\ step' \in {"hide", "build"}
    BY <1>4 DEF BeginOne, AllHidden
  <2> QED
    BY <1>a, <1>b, <2>1 DEF Typed
<1>5. CASE Hide
  <2>1. PICK d \in Others : where' = [where EXCEPT ![d] = "tmp"] /\ hidden' = Append(hidden, d)
    BY <1>5 DEF Hide
  <2>2. d \in Tagged /\ hidden' \in Seq(Tagged) /\ where' \in [Dirs -> Places]
    BY <1>a, <2>1, AppendProperties DEF Others, Typed, Places
  <2>3. UNCHANGED <<built, version, step, targets, raised, pure, dist, exit, before, asked, mishap>>
    BY <1>5 DEF Hide
  <2> QED
    BY <1>a, <1>b, <2>2, <2>3 DEF Typed
<1>6. CASE HideCut \/ RestoreCut \/ Killed
  <2>1. EndRun("error") /\ mishap' = TRUE
        /\ UNCHANGED <<version, pure, dist, before, asked>> /\ built' \subseteq built
    BY <1>6 DEF HideCut, RestoreCut, Killed
  <2>2. where' \in [Dirs -> Places]
    <3>1. CASE HideCut
      BY <1>a, <3>1, DeletedTyped DEF HideCut
    <3>2. CASE RestoreCut
      BY <1>a, <3>2, DeletedTyped DEF RestoreCut, Places
    <3>3. CASE Killed
      BY <1>a, <3>3 DEF Killed, Typed
    <3> QED
      BY <1>6, <3>1, <3>2, <3>3
  <2> QED
    BY <1>a, <1>b, <2>1, <2>2, EndRunTyped DEF Typed
<1>7. CASE Build \/ BuildFails
  <2>1. pure' \subseteq Wheel
    BY <1>7, <1>a, NewWheelTyped DEF Build, BuildFails, Typed
  <2>2. UNCHANGED <<where, built, version, targets, hidden, dist, exit, before, asked, mishap>>
        /\ step' = "restore" /\ raised' \in {raised, TRUE}
    BY <1>7 DEF Build, BuildFails
  <2> QED
    BY <1>a, <1>b, <2>1, <2>2 DEF Typed
<1>8. CASE Restore
  <2>1. hidden' \in Seq(Tagged)
    BY <1>8, <1>a, HeadTailProperties DEF Restore, Typed
  <2>2. where' \in [Dirs -> Places]
    BY <1>8, <1>a DEF Restore, Typed, Places
  <2>3. UNCHANGED <<built, version, step, targets, raised, pure, dist, exit, before, asked, mishap>>
    BY <1>8 DEF Restore
  <2> QED
    BY <1>a, <1>b, <2>1, <2>2, <2>3 DEF Typed
<1>9. CASE AllRestored
  <2>1. where' \in [Dirs -> Places]
    BY <1>9, <1>a, DeletedTyped DEF AllRestored
  <2>2. \/ EndRun("error")
        \/ step' = "retag" /\ UNCHANGED <<targets, hidden, raised, exit>>
    BY <1>9 DEF AllRestored
  <2>3. UNCHANGED <<built, version, pure, dist, before, asked, mishap>>
    BY <1>9 DEF AllRestored
  <2> QED
    BY <1>a, <1>b, <2>1, <2>2, <2>3, EndRunTyped DEF Typed
<1>10. CASE Retag
  <2>1. PICK w \in pure : w.version = version /\ FitFor(w, Head(targets))
    BY <1>10, <1>a DEF Retag, Packed, JustBuilt
  <2>2. Latest \in Wheel
    BY <1>a, <2>1, LatestIsNewest DEF Packed, Typed
  <2>3. Head(targets) \in Tagged /\ Tail(targets) \in Seq(Dirs)
    BY <1>10, <1>a, HeadTailProperties DEF Retag, Aside, Working, Typed
  <2>4. [version |-> Latest.version, platform |-> Head(targets), ships |-> Latest.ships] \in TaggedWheel
    BY <2>2, <2>3 DEF Wheel, TaggedWheel
  <2>5. dist' \subseteq TaggedWheel /\ pure' \subseteq Wheel
    BY <1>10, <1>a, <2>4 DEF Retag, Typed
  <2>6. UNCHANGED <<where, built, version, hidden, raised, exit, before, asked, mishap>>
        /\ targets' = Tail(targets) /\ step' = "next"
    BY <1>10 DEF Retag
  <2> QED
    BY <1>a, <1>b, <2>3, <2>5, <2>6 DEF Typed
<1>11. CASE Done \/ UNCHANGED vars
  <2>1. UNCHANGED vars
    BY <1>11 DEF Done
  <2> QED
    BY <1>a, <1>b, <2>1 DEF vars, Typed
<1> QED
  BY <1>1, <1>2, <1>3, <1>4, <1>5, <1>6, <1>7, <1>8, <1>9, <1>10, <1>11 DEF Next

-----------------------------------------------------------------------------
(* Where the directories are. *)

LEMMA EndRunAside == ASSUME NEW e, EndRun(e) PROVE Aside'
BY SetOfEmpty, DistinctEmpty DEF EndRun, Aside, Working

LEMMA NextAside == WheelsInv /\ [Next]_vars => Aside'
<1> SUFFICES ASSUME WheelsInv, [Next]_vars PROVE Aside'
  OBVIOUS
<1>a. Typed /\ Aside
  BY DEF WheelsInv
<1>t. where = [d \in Dirs |-> where[d]] /\ hidden \in Seq(Tagged) /\ Tagged \subseteq Dirs
      /\ targets \in Seq(Dirs)
  BY <1>a DEF Typed, Tagged
<1> USE DEF files, wheels, history
<1>1. CASE RunScript
  BY <1>1, <1>a DEF RunScript, Aside, Working
<1>2. CASE NewVersion
  BY <1>2, <1>a DEF NewVersion, Aside, Working
<1>3. CASE Refuse \/ MainReturns \/ RetagFails \/ HideCut \/ RestoreCut \/ Killed
  BY <1>3, EndRunAside DEF Refuse, MainReturns, RetagFails, HideCut, RestoreCut, Killed
<1>4. CASE BeginOne
  BY <1>4, <1>a, SetOfEmpty DEF BeginOne, Present, Aside, Working
<1>5. CASE Hide
  <2>1. PICK d \in Others : where' = [where EXCEPT ![d] = "tmp"] /\ hidden' = Append(hidden, d)
    BY <1>5 DEF Hide
  <2>2. d \in Tagged /\ d # Head(targets) /\ where[d] = "native"
    BY <2>1 DEF Others
  <2>3. step = "hide" /\ step' = "hide" /\ UNCHANGED <<targets, built>>
    BY <1>5 DEF Hide
  <2>4. d \notin ToSet(hidden) /\ ToSet(hidden) \subseteq Tagged
    BY <1>a, <1>t, <2>2, SetOfSeq DEF Aside
  <2>5. ToSet(hidden') = ToSet(hidden) \cup {d}
    BY <1>t, <2>1, <2>2, SetOfAppend
  <2>6. Distinct(hidden')
    BY <1>a, <1>t, <2>1, <2>2, <2>4, DistinctAppend DEF Aside
  <2>7. where'[d] = "tmp" /\ \A c \in Dirs : c # d => where'[c] = where[c]
    BY <1>t, <2>1, <2>2
  <2> QED
    BY <1>a, <1>t, <2>2, <2>3, <2>4, <2>5, <2>6, <2>7 DEF Aside, Working
<1>6. CASE AllHidden
  BY <1>6, <1>a DEF AllHidden, Aside, Working
<1>7. CASE Build \/ BuildFails
  BY <1>7, <1>a DEF Build, BuildFails, Aside, Working
<1>8. CASE Restore
  <2>1. /\ hidden # <<>> /\ hidden' = Tail(hidden) /\ step = "restore" /\ step' = "restore"
        /\ where' = [where EXCEPT ![Head(hidden)] = "native"] /\ UNCHANGED <<targets, built>>
    BY <1>8 DEF Restore
  <2>2. ToSet(hidden) = {Head(hidden)} \cup ToSet(hidden') /\ Head(hidden) \notin ToSet(hidden')
        /\ Distinct(hidden')
    BY <1>a, <1>t, <2>1, SetOfTail, DistinctTail DEF Aside
  <2>3. Head(hidden) \in Dirs /\ ToSet(hidden') \subseteq Dirs
    BY <1>t, <2>2, SetOfSeq
  <2>4. \A c \in Dirs : c # Head(hidden) => where'[c] = where[c]
    BY <1>t, <2>1
  <2>5. Head(targets) # Head(hidden) /\ Head(targets) \in Dirs
    BY <1>a, <1>t, <2>1, <2>2 DEF Aside, Working
  <2> QED
    BY <1>a, <1>t, <2>1, <2>2, <2>3, <2>4, <2>5 DEF Aside, Working
<1>9. CASE AllRestored
  <2>1. step = "restore" /\ hidden = <<>>
    BY <1>9 DEF AllRestored, SkipsRestore
  <2>2. where' = where
    BY <1>9, <1>t, <2>1, SetOfEmpty DEF AllRestored, Deleted
  <2>3. CASE raised
    BY <1>9, <2>3, EndRunAside DEF AllRestored
  <2>4. CASE ~raised
    BY <1>9, <1>a, <2>1, <2>2, <2>4 DEF AllRestored, Aside, Working
  <2> QED
    BY <2>3, <2>4
<1>10. CASE Retag
  BY <1>10, <1>a, SetOfEmpty, DistinctEmpty DEF Retag, Aside, Working
<1>11. CASE Done \/ UNCHANGED vars
  BY <1>11, <1>a DEF Done, vars, Aside, Working
<1> QED
  BY <1>1, <1>2, <1>3, <1>4, <1>5, <1>6, <1>7, <1>8, <1>9, <1>10, <1>11 DEF Next

\* A run that ends where nothing is hidden has kept everything.
LEMMA EndRunKept ==
  ASSUME NEW e, EndRun(e), Kept, hidden = <<>>, UNCHANGED <<where, before, mishap>>
  PROVE  Kept'
BY SetOfEmpty DEF EndRun, Kept

LEMMA NextKept == WheelsInv /\ [Next]_vars => Kept'
<1> SUFFICES ASSUME WheelsInv, [Next]_vars PROVE Kept'
  OBVIOUS
<1>a. Typed /\ Aside /\ Kept
  BY DEF WheelsInv
<1>t. where = [d \in Dirs |-> where[d]] /\ hidden \in Seq(Tagged) /\ Tagged \subseteq Dirs
  BY <1>a DEF Typed, Tagged
<1> USE DEF files, wheels, history
<1>1. CASE RunScript
  BY <1>1, <1>a, SetOfEmpty DEF RunScript, Aside, Kept
<1>2. CASE NewVersion
  BY <1>2, <1>a DEF NewVersion, Kept
<1>3. CASE Refuse \/ MainReturns \/ RetagFails
  BY <1>3, <1>a, EndRunKept DEF Refuse, MainReturns, RetagFails, Aside
<1>4. CASE HideCut \/ RestoreCut \/ Killed
  BY <1>4 DEF HideCut, RestoreCut, Killed, EndRun, Kept
<1>5. CASE BeginOne \/ AllHidden \/ Build \/ BuildFails
  BY <1>5, <1>a DEF BeginOne, AllHidden, Build, BuildFails, Kept
<1>6. CASE Hide
  <2>1. PICK d \in Others : where' = [where EXCEPT ![d] = "tmp"] /\ hidden' = Append(hidden, d)
    BY <1>6 DEF Hide
  <2>2. d \in Tagged /\ where[d] = "native"
    BY <2>1 DEF Others
  <2>3. step = "hide" /\ UNCHANGED <<step, before, mishap>>
    BY <1>6 DEF Hide
  <2>4. d \notin ToSet(hidden)
    BY <1>a, <2>2 DEF Aside
  <2>5. ToSet(hidden') = ToSet(hidden) \cup {d}
    BY <1>t, <2>1, <2>2, SetOfAppend
  <2>6. \A c \in Dirs : c # d => where'[c] = where[c]
    BY <1>t, <2>1
  <2> QED
    BY <1>a, <1>t, <2>2, <2>3, <2>4, <2>5, <2>6 DEF Kept
<1>7. CASE Restore
  <2>1. /\ hidden # <<>> /\ hidden' = Tail(hidden) /\ step = "restore"
        /\ where' = [where EXCEPT ![Head(hidden)] = "native"] /\ UNCHANGED <<step, before, mishap>>
    BY <1>7 DEF Restore
  <2>2. ToSet(hidden) = {Head(hidden)} \cup ToSet(hidden') /\ Head(hidden) \notin ToSet(hidden')
    BY <1>a, <1>t, <2>1, SetOfTail, DistinctTail DEF Aside
  <2>3. Head(hidden) \in Dirs
    BY <1>t, <2>2, SetOfSeq
  <2>4. where'[Head(hidden)] = "native" /\ \A c \in Dirs : c # Head(hidden) => where'[c] = where[c]
    BY <1>t, <2>1, <2>3
  <2> QED
    BY <1>a, <2>1, <2>2, <2>3, <2>4 DEF Kept
<1>8. CASE AllRestored
  <2>1. step = "restore" /\ hidden = <<>> /\ UNCHANGED <<before, mishap>>
    BY <1>8 DEF AllRestored, SkipsRestore
  <2>2. where' = where
    BY <1>8, <1>t, <2>1, SetOfEmpty DEF AllRestored, Deleted
  <2>3. CASE raised
    BY <1>8, <1>a, <2>1, <2>2, <2>3, EndRunKept DEF AllRestored
  <2>4. CASE ~raised
    BY <1>8, <1>a, <2>1, <2>2, <2>4 DEF AllRestored, Kept
  <2> QED
    BY <2>3, <2>4
<1>9. CASE Retag
  BY <1>9, <1>a DEF Retag, Kept
<1>10. CASE Done \/ UNCHANGED vars
  BY <1>10, <1>a DEF Done, vars, Kept
<1> QED
  BY <1>1, <1>2, <1>3, <1>4, <1>5, <1>6, <1>7, <1>8, <1>9, <1>10 DEF Next

-----------------------------------------------------------------------------
(* What the wheels carry. *)

\* Libraries only go away.
LEMMA NothingAdded == [Next]_vars => built' \subseteq built
<1> SUFFICES ASSUME [Next]_vars PROVE built' \subseteq built
  OBVIOUS
<1> USE DEF files, wheels, history
<1>1. CASE HideCut \/ RestoreCut
  BY <1>1 DEF HideCut, RestoreCut
<1>2. CASE RunScript \/ NewVersion \/ Refuse \/ BeginOne \/ MainReturns \/ Hide \/ AllHidden
  BY <1>2 DEF RunScript, NewVersion, Refuse, BeginOne, MainReturns, Hide, AllHidden
<1>3. CASE Build \/ BuildFails \/ Restore \/ AllRestored \/ Retag \/ RetagFails \/ Killed
  BY <1>3 DEF Build, BuildFails, Restore, AllRestored, Retag, RetagFails, Killed
<1>4. CASE Done \/ UNCHANGED vars
  BY <1>4 DEF Done, vars
<1> QED
  BY <1>1, <1>2, <1>3, <1>4 DEF Next

LEMMA FitStays == ASSUME built' \subseteq built, NEW w, NEW p, FitFor(w, p) PROVE FitFor(w, p)'
BY DEF FitFor, Carried

LEMMA NextPacked == WheelsInv /\ [Next]_vars => Packed'
<1> SUFFICES ASSUME WheelsInv, [Next]_vars PROVE Packed'
  OBVIOUS
<1>a. Typed /\ Aside /\ Packed
  BY DEF WheelsInv
<1>f. \A w, p : FitFor(w, p) => FitFor(w, p)'
  BY NothingAdded, FitStays
<1>d. ASSUME dist' = dist PROVE \A w \in dist' : FitFor(w, w.platform)'
  BY <1>a, <1>d, <1>f DEF Packed
<1> USE DEF files, wheels, history
\* Steps that write no wheel, and begin neither to build nor to name one.
<1>b. ASSUME UNCHANGED <<pure, dist>>, step' \in {"idle", "next", "hide"} PROVE Packed'
  BY <1>a, <1>b, <1>d DEF Packed
\* Steps while the wheel just built waits for its name.
<1>j. ASSUME JustBuilt, UNCHANGED <<version, targets, pure>> PROVE JustBuilt'
  BY <1>f, <1>j DEF JustBuilt
<1>1. CASE RunScript \/ NewVersion \/ BeginOne \/ Hide
  BY <1>1, <1>b DEF RunScript, NewVersion, BeginOne, Hide
<1>2. CASE Refuse \/ MainReturns \/ RetagFails \/ HideCut \/ RestoreCut \/ Killed
  BY <1>2, <1>b DEF Refuse, MainReturns, RetagFails, HideCut, RestoreCut, Killed, EndRun
<1>3. CASE AllHidden
  <2>1. Others' = {}
    BY <1>3 DEF AllHidden, Others
  <2>2. step' = "build" /\ UNCHANGED <<pure, dist>>
    BY <1>3 DEF AllHidden
  <2> QED
    BY <1>a, <1>d, <2>1, <2>2 DEF Packed
<1>4. CASE Build \/ BuildFails
  <2>1. step = "build" /\ step' = "restore" /\ UNCHANGED <<version, targets, dist, built>>
        /\ pure' \in {pure, WithNewWheel} /\ (~raised' => pure' = WithNewWheel)
    BY <1>4 DEF Build, BuildFails
  <2>2. FitFor(NewWheel, Head(targets))
    <3>1. /\ Head(targets) \in Tagged /\ where[Head(targets)] = "native"
          /\ \E l \in Libs : <<Head(targets), l>> \in built
      BY <1>a, <2>1 DEF Aside, Working
    <3>2. \A d \in Tagged : d # Head(targets) => where[d] # "native"
      BY <1>a, <2>1 DEF Packed, Others
    <3>3. \A d \in Dirs, l \in Libs :
            <<d, l>> \in NewWheel.ships <=> <<d, l>> \in built /\ where[d] = "native"
      BY DEF NewWheel
    <3>4. Carried(NewWheel) \cap Tagged = {Head(targets)}
      BY <3>1, <3>2, <3>3 DEF Carried, Tagged
    <3>5. ({Head(targets)} \X Libs) \cap built \subseteq NewWheel.ships
      BY <3>1, <3>3 DEF Tagged
    <3> QED
      BY <3>4, <3>5 DEF FitFor
  <2>3. NewWheel.version = version /\ NewWheel \in WithNewWheel
    BY DEF NewWheel, WithNewWheel
  <2>4. \A v, w \in WithNewWheel : v.version = w.version => v = w
    BY <1>a, <2>3 DEF WithNewWheel, Packed
  <2>5. pure' = WithNewWheel => JustBuilt'
    <3>1. PICK w \in WithNewWheel : w.version = version /\ FitFor(w, Head(targets))
      BY <2>2, <2>3, Zenon
    <3>2. PICK p : p = Head(targets)
      OBVIOUS
    <3>3. FitFor(w, p)'
      BY <1>f, <3>1, <3>2
    <3> QED
      BY <2>1, <3>1, <3>2, <3>3 DEF JustBuilt
  <2> QED
    BY <1>a, <1>d, <2>1, <2>4, <2>5 DEF Packed
<1>5. CASE Restore
  <2>1. step = "restore" /\ UNCHANGED <<step, version, targets, raised, pure, dist>>
    BY <1>5 DEF Restore
  <2> QED
    BY <1>a, <1>d, <1>j, <2>1 DEF Packed
<1>6. CASE AllRestored
  <2>1. step = "restore" /\ UNCHANGED <<version, pure, dist>>
    BY <1>6 DEF AllRestored
  <2>2. CASE raised
    BY <1>6, <1>b, <2>1, <2>2 DEF AllRestored, EndRun
  <2>3. CASE ~raised
    <3>1. step' = "retag" /\ targets' = targets
      BY <1>6, <2>3 DEF AllRestored
    <3> QED
      BY <1>a, <1>d, <1>j, <2>1, <2>3, <3>1 DEF Packed
  <2> QED
    BY <2>2, <2>3
<1>7. CASE Retag
  <2>1. PICK w \in pure : w.version = version /\ FitFor(w, Head(targets))
    BY <1>7, <1>a DEF Retag, Packed, JustBuilt
  <2>2. Latest = w
    BY <1>a, <2>1, LatestIsNewest DEF Packed
  <2> DEFINE new == [version |-> w.version, platform |-> Head(targets), ships |-> w.ships]
  <2>3. \A v \in dist' : v \in dist \/ v = new
    BY <1>7, <2>2 DEF Retag
  <2>4. pure' \subseteq pure /\ step' = "next"
    BY <1>7 DEF Retag
  <2>5. FitFor(new, new.platform)
    BY <2>1 DEF FitFor, Carried
  <2> HIDE DEF new
  <2>6. \A v \in dist' : FitFor(v, v.platform)
    BY <1>a, <2>3, <2>5 DEF Packed
  <2>7. \A v \in dist' : FitFor(v, v.platform)'
    BY <1>f, <2>6
  <2> QED
    BY <1>a, <2>4, <2>7 DEF Packed
<1>8. CASE Done \/ UNCHANGED vars
  <2>1. UNCHANGED vars
    BY <1>8 DEF Done
  <2>2. UNCHANGED <<step, version, targets, raised, pure, dist, where>>
    BY <2>1 DEF vars
  <2>3. Others' = Others
    BY <2>2 DEF Others
  <2> QED
    BY <1>a, <1>d, <1>j, <2>2, <2>3 DEF Packed
<1> QED
  BY <1>1, <1>2, <1>3, <1>4, <1>5, <1>6, <1>7, <1>8 DEF Next

-----------------------------------------------------------------------------
(* What the exit status says. *)

LEMMA NextPending == WheelsInv /\ [Next]_vars => Pending'
<1> SUFFICES ASSUME WheelsInv, [Next]_vars PROVE Pending'
  OBVIOUS
<1>a. Typed /\ Aside /\ Packed /\ Pending
  BY DEF WheelsInv
<1> USE DEF files, wheels, history
<1>b. ASSUME UNCHANGED <<version, dist>> PROVE \A p : Delivered(p)' <=> Delivered(p)
  BY <1>b DEF Delivered
<1>1. CASE RunScript
  <2>1. CASE targets' = <<>>
    BY <1>1, <2>1 DEF RunScript, Pending, ExitZeroDelivers
  <2>2. CASE targets' # <<>>
    BY <1>1, <2>2 DEF RunScript, Pending, ExitZeroDelivers
  <2> QED
    BY <2>1, <2>2
<1>2. CASE NewVersion
  BY <1>2 DEF NewVersion, Pending, ExitZeroDelivers
<1>3. CASE Refuse \/ RetagFails \/ HideCut \/ RestoreCut \/ Killed
  BY <1>3 DEF Refuse, RetagFails, HideCut, RestoreCut, Killed, EndRun, Pending, ExitZeroDelivers
<1>4. CASE MainReturns
  BY <1>4, <1>a, SetOfEmpty DEF MainReturns, EndRun, Pending, ExitZeroDelivers, Delivered
<1>5. CASE BeginOne \/ Hide \/ AllHidden \/ Build \/ BuildFails \/ Restore
  <2>1. UNCHANGED <<version, dist, exit, asked, targets>> /\ step # "idle" /\ step' # "idle"
    BY <1>5 DEF BeginOne, Hide, AllHidden, Build, BuildFails, Restore
  <2> QED
    BY <1>a, <1>b, <2>1 DEF Pending, ExitZeroDelivers
<1>6. CASE AllRestored
  <2>1. CASE raised
    BY <1>6, <2>1 DEF AllRestored, EndRun, Pending, ExitZeroDelivers
  <2>2. CASE ~raised
    <3>1. UNCHANGED <<version, dist, exit, asked, targets>> /\ step # "idle" /\ step' # "idle"
      BY <1>6, <2>2 DEF AllRestored
    <3> QED
      BY <1>a, <1>b, <3>1 DEF Pending, ExitZeroDelivers
  <2> QED
    BY <2>1, <2>2
<1>7. CASE Retag
  <2>1. PICK w \in pure : w.version = version /\ FitFor(w, Head(targets))
    BY <1>7, <1>a DEF Retag, Packed, JustBuilt
  <2>2. Latest.version = version
    BY <1>a, <2>1, LatestIsNewest DEF Packed
  <2>3. step = "retag" /\ step' = "next" /\ UNCHANGED <<version, exit, asked>> /\ targets' = Tail(targets)
    BY <1>7 DEF Retag
  <2>4. \A p : p = Head(targets) => Delivered(p)'
    <3> DEFINE new == [version |-> Latest.version, platform |-> Head(targets), ships |-> Latest.ships]
    <3>1. new \in dist'
      BY <1>7 DEF Retag
    <3>2. new.platform = Head(targets) /\ new.version = version'
      BY <2>2, <2>3
    <3> HIDE DEF new
    <3> QED
      BY <3>1, <3>2 DEF Delivered
  <2>5. \A p : p # Head(targets) /\ Delivered(p) => Delivered(p)'
    BY <1>7, <2>2 DEF Retag, Delivered
  <2>6. ToSet(targets) = {Head(targets)} \cup ToSet(targets')
    BY <1>a, <2>3, SetOfTail DEF Typed, Aside, Working
  <2> QED
    BY <1>a, <2>3, <2>4, <2>5, <2>6 DEF Pending, ExitZeroDelivers
<1>8. CASE Done \/ UNCHANGED vars
  BY <1>8, <1>a DEF Done, vars, Pending, ExitZeroDelivers, Delivered
<1> QED
  BY <1>1, <1>2, <1>3, <1>4, <1>5, <1>6, <1>7, <1>8 DEF Next

LEMMA WheelsInvHolds == Spec => []WheelsInv
<1>1. WheelsInv /\ [Next]_vars => WheelsInv'
  BY NextTyped, NextAside, NextKept, NextPacked, NextPending DEF WheelsInv
<1> QED
  BY InitHolds, <1>1, PTL DEF Spec

-----------------------------------------------------------------------------
(* The theorems. *)

\* Every variable keeps a value of its kind, and what is noted as hidden is in
\* the temporary directory.
THEOREM WheelsTypeCorrect == Spec => []TypeOK
<1>1. WheelsInv => TypeOK
  <2> SUFFICES ASSUME WheelsInv PROVE TypeOK
    OBVIOUS
  <2>1. ToSet(targets) \subseteq Dirs /\ ToSet(hidden) \subseteq Tagged
    BY SetOfSeq DEF WheelsInv, Typed
  <2>2. ToSet(hidden) \subseteq {d \in Tagged : where[d] = "tmp"}
    BY <2>1 DEF WheelsInv, Aside
  <2> QED
    BY <2>1, <2>2 DEF TypeOK, WheelsInv, Typed, Places, Wheel, TaggedWheel
<1> QED
  BY <1>1, WheelsInvHolds, PTL

\* However a build ends, the binaries it has hidden are back, unless a move was
\* cut short or the process killed.
THEOREM BinariesAreKept == Spec => []BinariesKept
<1>1. WheelsInv => BinariesKept
  BY SetOfEmpty DEF WheelsInv, Typed, Aside, Kept, BinariesKept
<1> QED
  BY <1>1, WheelsInvHolds, PTL

\* A wheel has the binaries of its platform and of no other that has a tag,
\* whatever earlier runs have left behind.
THEOREM WheelsShipTheirOwn == Spec => []NoOtherTagged
<1>1. WheelsInv => NoOtherTagged
  BY DEF WheelsInv, Packed, FitFor, NoOtherTagged
<1> QED
  BY <1>1, WheelsInvHolds, PTL

\* Status 0 says that every wheel asked for is there, in the current version.
THEOREM ZeroMeansDelivered == Spec => []ExitZeroDelivers
<1>1. WheelsInv => ExitZeroDelivers
  BY DEF WheelsInv, Pending
<1> QED
  BY <1>1, WheelsInvHolds, PTL

\* Where a wheel is for, the loader looks into its directory, and finds both
\* libraries there if both were there to be packed.
THEOREM LoaderFindsItsBinaries == Spec => []InstalledLoads
<1>1. \A p \in DOMAIN PlatformTags : \A machine \in Admits[PlatformTags[p]] : LooksFor(machine) = p
  <2>1. DOMAIN PlatformTags = {"linux_x86_64", "linux_aarch64", "linux_armhf", "windows_amd64"}
    BY DEF PlatformTags
  <2>2. /\ Admits[PlatformTags["linux_x86_64"]] = {<<"Linux", "x86_64">>}
        /\ Admits[PlatformTags["linux_aarch64"]] = {<<"Linux", "aarch64">>}
        /\ Admits[PlatformTags["linux_armhf"]] = {<<"Linux", "armv7l">>}
        /\ Admits[PlatformTags["windows_amd64"]] = {<<"Windows", "amd64">>}
    BY DEF PlatformTags, Admits
  <2>3. /\ LooksFor(<<"Linux", "x86_64">>) = "linux_x86_64"
        /\ LooksFor(<<"Linux", "aarch64">>) = "linux_aarch64"
        /\ LooksFor(<<"Linux", "armv7l">>) = "linux_armhf"
        /\ LooksFor(<<"Windows", "amd64">>) = "windows_amd64"
    BY DEF LooksFor, Arm
  <2> QED
    BY <2>1, <2>2, <2>3
<1>2. WheelsInv => InstalledLoads
  <2> SUFFICES ASSUME WheelsInv, NEW w \in dist, {w.platform} \X Libs \subseteq built,
                      NEW machine \in Admits[PlatformTags[w.platform]]
               PROVE  {LooksFor(machine)} \X Libs \subseteq w.ships
    BY DEF InstalledLoads, Loads
  <2>1. w.platform \in Tagged /\ FitFor(w, w.platform)
    BY DEF WheelsInv, Typed, TaggedWheel, Packed
  <2>2. LooksFor(machine) = w.platform
    BY <1>1, <2>1 DEF Tagged
  <2> QED
    BY <2>1, <2>2 DEF FitFor
<1> QED
  BY <1>2, WheelsInvHolds, PTL
=============================================================================
