------------------------- MODULE StatusLatch_proofs -------------------------
(***************************************************************************)
(* Proofs about StatusLatch, for any number of readers and any width of    *)
(* the heartbeat.                                                          *)
(***************************************************************************)
EXTENDS StatusLatch, TLAPS

-----------------------------------------------------------------------------
(* Counting modulo m. *)

\* A remainder is the only one of its size.
LEMMA Remainder ==
  ASSUME NEW m \in Nat \ {0}, NEW q \in Nat, NEW s \in Nat, s < m
  PROVE  (m * q + s) % m = s
<1> DEFINE x == m * q + s
           d == x \div m
           r == x % m
<1>1. x \in Nat
  BY Z3T(30)
<1>2. r \in Nat /\ r < m /\ d \in Int /\ x = m * d + r
  BY <1>1, Z3T(30)
<1>3. m * (q - d) = r - s
  BY <1>2, Z3T(30)
<1>4. -m < r - s /\ r - s < m
  BY <1>2, Z3T(30)
<1> HIDE DEF x, d, r
<1>5. q - d = 0
  <2>1. ASSUME q - d >= 1 PROVE FALSE
    <3>1. m * (q - d) >= m
      BY <2>1, <1>2, Z3T(30)
    <3> QED
      BY <3>1, <1>2, <1>3, <1>4, Z3T(30)
  <2>2. ASSUME q - d <= -1 PROVE FALSE
    <3>1. m * (q - d) <= -m
      BY <2>2, <1>2, Z3T(30)
    <3> QED
      BY <3>1, <1>2, <1>3, <1>4, Z3T(30)
  <2> QED
    BY <2>1, <2>2, <1>2, Z3T(30)
<1>6. r = s
  BY <1>2, <1>3, <1>5, Z3T(30)
<1> QED
  BY <1>6 DEF r, x

LEMMA Division ==
  ASSUME NEW m \in Nat \ {0}, NEW c \in Nat
  PROVE  c % m \in 0 .. m - 1 /\ c \div m \in Nat /\ c = m * (c \div m) + (c % m)
BY Z3T(30)

\* Beating the remainder of a count is the remainder of one more.
LEMMA OneMore ==
  ASSUME NEW m \in Nat \ {0}, NEW c \in Nat
  PROVE  ((c % m) + 1) % m = (c + 1) % m
<1> DEFINE q == c \div m
           r == c % m
<1>1. r \in Nat /\ r < m /\ q \in Nat /\ c = m * q + r
  BY Division
<1> HIDE DEF q, r
<1>2. CASE r + 1 < m
  <2>1. (m * 0 + (r + 1)) % m = r + 1 /\ (m * q + (r + 1)) % m = r + 1
    BY <1>1, <1>2, Remainder
  <2>2. m * 0 + (r + 1) = r + 1 /\ m * q + (r + 1) = c + 1
    BY <1>1, Z3T(30)
  <2> QED
    BY <2>1, <2>2 DEF r
<1>3. CASE r + 1 = m
  <2>1. (m * 1 + 0) % m = 0 /\ (m * (q + 1) + 0) % m = 0
    BY <1>1, Remainder
  <2>2. m * 1 + 0 = r + 1 /\ m * (q + 1) + 0 = c + 1
    BY <1>1, <1>3, Z3T(30)
  <2> QED
    BY <2>1, <2>2 DEF r
<1> QED
  BY <1>1, <1>2, <1>3, Z3T(30)

\* A counter comes back to where it was after whole rounds only.
LEMMA WholeRounds ==
  ASSUME NEW m \in Nat \ {0}, NEW h \in 0 .. m - 1, NEW c \in Nat
  PROVE  (h + c) % m = h <=> c % m = 0
<1> DEFINE q == c \div m
           r == c % m
<1>1. r \in Nat /\ r < m /\ q \in Nat /\ c = m * q + r
  BY Division
<1> HIDE DEF q, r
<1>2. CASE h + r < m
  <2>1. (m * q + (h + r)) % m = h + r
    BY <1>1, <1>2, Remainder
  <2>2. m * q + (h + r) = h + c
    BY <1>1, Z3T(30)
  <2>3. h + r = h <=> r = 0
    BY <1>1, Z3T(30)
  <2> QED
    BY <2>1, <2>2, <2>3 DEF r
<1>3. CASE h + r >= m
  <2>1. (m * (q + 1) + (h + r - m)) % m = h + r - m
    <3>1. h + r - m \in Nat /\ h + r - m < m /\ q + 1 \in Nat
      BY <1>1, <1>3, Z3T(30)
    <3> QED
      BY <3>1, Remainder
  <2>2. m * (q + 1) + (h + r - m) = h + c
    BY <1>1, Z3T(30)
  <2>3. h + r - m # h /\ r # 0
    BY <1>1, <1>3, Z3T(30)
  <2> QED
    BY <2>1, <2>2, <2>3 DEF r
<1> QED
  BY <1>1, <1>2, <1>3, Z3T(30)

-----------------------------------------------------------------------------
(* What processEvents has still to store. *)

LEMMA Tails ==
  /\ Head(<<"mn_nmt_state", "mn", "running">>) = "mn_nmt_state"
  /\ Tail(<<"mn_nmt_state", "mn", "running">>) = <<"mn", "running">>
  /\ Head(<<"mn", "running">>) = "mn" /\ Tail(<<"mn", "running">>) = <<"running">>
  /\ Head(<<"running">>) = "running" /\ Tail(<<"running">>) = <<>>
  /\ Head(<<"cn_nmt_state", "cn">>) = "cn_nmt_state" /\ Tail(<<"cn_nmt_state", "cn">>) = <<"cn">>
  /\ Head(<<"cn">>) = "cn" /\ Tail(<<"cn">>) = <<>>
  /\ Len(<<"mn_nmt_state", "mn", "running">>) = 3 /\ Len(<<"mn", "running">>) = 2
  /\ Len(<<"running">>) = 1 /\ Len(<<"cn_nmt_state", "cn">>) = 2 /\ Len(<<"cn">>) = 1
OBVIOUS
-----------------------------------------------------------------------------
(* The inductive invariants. *)

MnStages == {<<"mn_nmt_state", "mn", "running">>, <<"mn", "running">>, <<"running">>}
CnStages == {<<"cn_nmt_state", "cn">>, <<"cn">>}

\* Types, and how far the callback of an event may have come.
Typed ==
  /\ up \in BOOLEAN /\ clean \in BOOLEAN
  /\ status \in Structs
  /\ sync \in {"waiting", "loaded", "beaten"} /\ load \in Beats
  /\ event \in Events \cup {"none"}
  /\ pc \in [Readers -> PcOfReader]
  /\ snap \in [Readers -> Structs]
  /\ todo \in [Readers -> SUBSET Fields]
  /\ h0 \in [Readers -> Beats]
  /\ cycles \in [Readers -> Nat]
  /\ anew \in [Readers -> BOOLEAN]
  /\ quiet \in [Readers -> BOOLEAN]

Stage ==
  \/ event = "none" /\ stores = <<>>
  \/ event \in NmtEvents /\ stores \in MnStages
  \/ event \in {"cs_op", "cs_other"} /\ stores \in CnStages
  \/ event = "error" /\ stores = <<"cn">>

\* Without a stack no callback is under way.
Ended == ~up => sync = "waiting" /\ stores = <<>>

\* In a session that found no stack, the two counters differ only between their
\* increments, and the heartbeat that was read is the one that is there.
Counted ==
  clean =>
    /\ status.heartbeat = (IF sync = "beaten" THEN status.cycle_count + 1
                           ELSE status.cycle_count) % HeartbeatModulus
    /\ sync = "loaded" => load = status.heartbeat

\* In such a session the fields agree but for the stores that are due.
Latched ==
  clean =>
    /\ stores # <<"mn", "running">> => (status.flags.mn <=> status.mn_nmt_state = "op")
    /\ stores \notin {<<"mn", "running">>, <<"running">>} =>
         (status.flags.running <=> status.mn_nmt_state \notin {"zero", "off"})
    /\ stores \in {<<"mn", "running">>, <<"running">>} => status.mn_nmt_state = event
    /\ stores # <<"cn">> => (status.flags.cn => status.cn_nmt_state = "op")
    /\ stores = <<"cn">> /\ event = "cs_op" => status.cn_nmt_state = "op"

\* What a quiet copy holds so far is the struct as it is now.
Copied ==
  \A r \in Readers : pc[r] = "status" /\ quiet[r] =>
    /\ sync = "waiting" /\ stores = <<>>
    /\ \A f \in Fields \ todo[r] : snap[r][f] = status[f]

\* The heartbeat has gone on from h0 by the cycles counted since.
Gone ==
  \A r \in Readers :
    /\ pc[r] = "first" /\ todo[r] # {} => cycles[r] = 0
    /\ ~anew[r] /\ pc[r] = "first" /\ todo[r] = {} =>
         status.heartbeat = (snap[r].heartbeat + cycles[r]) % HeartbeatModulus
    /\ ~anew[r] /\ (pc[r] = "asleep" \/ (pc[r] = "second" /\ todo[r] # {})) =>
         status.heartbeat = (h0[r] + cycles[r]) % HeartbeatModulus
    /\ ~anew[r] /\ pc[r] = "second" /\ todo[r] = {} =>
         snap[r].heartbeat = (h0[r] + cycles[r]) % HeartbeatModulus
    /\ pc[r] \in {"first", "second"} => todo[r] \subseteq {"heartbeat"}

\* While a reader counts, the heartbeat that heartbeat++ has read is still there.
Fresh == \A r \in Readers : Counting(r) /\ sync = "loaded" => load = status.heartbeat

LatchInv == Typed /\ Stage /\ Ended /\ Counted /\ Latched /\ Copied /\ Gone /\ Fresh

LEMMA ZeroIsStruct == Zero \in Structs
BY LatchAssumption DEF Zero, Structs, Beats, Flags, MnStates, CnStates

LEMMA FieldNames == Fields = {"heartbeat", "flags", "mn_nmt_state", "cn_nmt_state", "cycle_count"}
BY DEF Fields, Zero

LEMMA InitHolds == Init => LatchInv
<1> SUFFICES ASSUME Init PROVE LatchInv
  OBVIOUS
<1> USE DEF Init
<1>1. Typed
  <2>1. 0 \in Beats
    BY LatchAssumption DEF Beats
  <2> QED
    BY <2>1, ZeroIsStruct DEF Typed, PcOfReader
<1>2. Stage /\ Ended
  BY DEF Stage, Ended
<1>3. Counted
  <2>1. (HeartbeatModulus * 0 + 0) % HeartbeatModulus = 0
    BY LatchAssumption, Remainder
  <2>2. 0 % HeartbeatModulus = 0
    BY <2>1, LatchAssumption
  <2> QED
    BY <2>2 DEF Counted, Zero
<1>4. Latched /\ Copied /\ Gone /\ Fresh
  BY DEF Latched, Copied, Gone, Fresh, Zero
<1> QED
  BY <1>1, <1>2, <1>3, <1>4 DEF LatchInv

LEMMA PlwInitKeeps == LatchInv /\ PlwInit => LatchInv'
<1> SUFFICES ASSUME LatchInv, PlwInit PROVE LatchInv'
  OBVIOUS
<1> USE DEF PlwInit, Disturbed
<1>0. Typed /\ Stage /\ Ended /\ Gone
  BY DEF LatchInv
<1>1. Typed'
  BY <1>0, ZeroIsStruct DEF Typed
<1>2. Stage' /\ Ended'
  BY <1>0 DEF Stage, Ended
\* If no stack is there, no callback is under way; and otherwise nothing is said.
<1>c. clean' => sync' = "waiting" /\ stores' = <<>>
  BY <1>0 DEF Ended
<1>3. Counted'
  <2>1. (HeartbeatModulus * 0 + 0) % HeartbeatModulus = 0
    BY LatchAssumption, Remainder
  <2>2. 0 % HeartbeatModulus = 0
    BY <2>1, LatchAssumption
  <2> QED
    BY <1>c, <2>2 DEF Counted, Zero
<1>4. Latched'
  BY <1>c DEF Latched, Zero
<1>5. Copied'
  BY <1>0 DEF Copied
<1>6. \A r \in Readers : pc[r] \in {"first", "asleep", "second"} => anew'[r]
  OBVIOUS
<1>7. Gone' /\ Fresh'
  BY <1>0, <1>6 DEF Gone, Fresh, Counting
<1> QED
  BY <1>1, <1>2, <1>3, <1>4, <1>5, <1>7 DEF LatchInv

LEMMA PlwShutdownKeeps == LatchInv /\ PlwShutdown => LatchInv'
<1> SUFFICES ASSUME LatchInv, PlwShutdown PROVE LatchInv'
  OBVIOUS
<1> USE DEF PlwShutdown
<1>0. Typed /\ Stage /\ Counted /\ Latched /\ Copied /\ Gone /\ Fresh
  BY DEF LatchInv
<1>1. Typed' /\ Stage' /\ Counted' /\ Latched'
  BY <1>0 DEF Typed, Stage, Counted, Latched
<1>2. Copied' /\ Gone' /\ Fresh'
  BY <1>0 DEF Copied, Gone, Fresh, Counting
<1>3. sync = "waiting" /\ stores = <<>>
  BY <1>0 DEF Busy, Typed
<1> QED
  BY <1>1, <1>2, <1>3 DEF LatchInv, Ended

LEMMA SyncLoadKeeps == LatchInv /\ SyncLoad => LatchInv'
<1> SUFFICES ASSUME LatchInv, SyncLoad PROVE LatchInv'
  OBVIOUS
<1> USE DEF SyncLoad, Disturbed
<1>0. Typed /\ Stage /\ Ended /\ Counted /\ Latched /\ Gone
  BY DEF LatchInv
<1>1. status.heartbeat \in Beats
  BY <1>0 DEF Typed, Structs
<1>2. Typed'
  BY <1>0, <1>1 DEF Typed
<1>3. Stage' /\ Ended' /\ Counted' /\ Latched'
  BY <1>0 DEF Stage, Ended, Counted, Latched
<1>4. Copied' /\ Gone' /\ Fresh'
  BY <1>0 DEF Copied, Gone, Fresh
<1> QED
  BY <1>2, <1>3, <1>4 DEF LatchInv

LEMMA SyncBeatKeeps == LatchInv /\ SyncBeat => LatchInv'
<1> SUFFICES ASSUME LatchInv, SyncBeat PROVE LatchInv'
  OBVIOUS
<1> DEFINE m == HeartbeatModulus
<1> USE DEF SyncBeat, Disturbed
<1>0. Typed /\ Stage /\ Ended /\ Counted /\ Latched /\ Gone /\ Fresh
  BY DEF LatchInv
<1>1. /\ m \in Nat \ {0} /\ status \in Structs /\ load \in Beats /\ load \in Nat
      /\ status.cycle_count \in Nat /\ status.heartbeat \in Beats
      /\ status' = [status EXCEPT !.heartbeat = (load + 1) % m]
      /\ 0 \in Beats
  BY <1>0, LatchAssumption DEF Typed, Structs, Beaten, Beats
<1>2. (load + 1) % m \in Beats
  BY <1>1, Division DEF Beats
<1>3. Typed'
  <2>1. status' \in Structs
    BY <1>1, <1>2 DEF Structs
  <2>2. cycles' \in [Readers -> Nat]
    BY <1>0 DEF Typed
  <2> QED
    BY <1>0, <1>1, <2>1, <2>2 DEF Typed
<1>4. Stage' /\ Ended'
  BY <1>0 DEF Stage, Ended
<1>5. /\ status'.heartbeat = (load + 1) % m
      /\ status'.cycle_count = status.cycle_count /\ status'.flags = status.flags
      /\ status'.mn_nmt_state = status.mn_nmt_state
      /\ status'.cn_nmt_state = status.cn_nmt_state
  BY <1>1 DEF Structs
<1>6. Counted'
  <2>1. clean => load = status.cycle_count % m
    BY <1>0 DEF Counted
  <2> QED
    BY <1>1, <1>5, <2>1, OneMore DEF Counted
<1>7. Latched'
  BY <1>0, <1>5 DEF Latched
<1>8. Copied' /\ Fresh'
  BY <1>0 DEF Copied, Typed, Fresh
<1>9. Gone'
  <2>1. ASSUME NEW h \in Beats, NEW c \in Nat, load = (h + c) % m
        PROVE  status'.heartbeat = (h + (c + 1)) % m
    <3>1. h + c \in Nat /\ (h + c) + 1 = h + (c + 1)
      BY <1>1 DEF Beats
    <3> QED
      BY <1>1, <1>5, <2>1, <3>1, OneMore
  <2>2. SUFFICES ASSUME NEW r \in Readers
        PROVE /\ pc[r] = "first" /\ todo[r] # {} => cycles'[r] = 0
              /\ ~anew[r] /\ pc[r] = "first" /\ todo[r] = {} =>
                   status'.heartbeat = (snap[r].heartbeat + cycles'[r]) % m
              /\ ~anew[r] /\ (pc[r] = "asleep" \/ (pc[r] = "second" /\ todo[r] # {})) =>
                   status'.heartbeat = (h0[r] + cycles'[r]) % m
              /\ ~anew[r] /\ pc[r] = "second" /\ todo[r] = {} =>
                   snap[r].heartbeat = (h0[r] + cycles'[r]) % m
              /\ pc[r] \in {"first", "second"} => todo[r] \subseteq {"heartbeat"}
    BY DEF Gone
  <2>3. cycles[r] \in Nat /\ h0[r] \in Beats /\ snap[r].heartbeat \in Beats
    BY <1>0 DEF Typed, Structs
  <2>4. cycles'[r] = IF Counting(r) THEN cycles[r] + 1 ELSE cycles[r]
    OBVIOUS
  <2>5. CASE Counting(r)
    <3>1. load = status.heartbeat
      BY <1>0, <2>5 DEF Fresh
    <3> QED
      BY <1>0, <3>1, <2>1, <2>3, <2>4, <2>5 DEF Gone, Counting
  <2>6. CASE ~Counting(r)
    BY <1>0, <2>4, <2>6 DEF Gone, Counting
  <2> QED
    BY <2>5, <2>6
<1> QED
  BY <1>3, <1>4, <1>6, <1>7, <1>8, <1>9 DEF LatchInv

LEMMA SyncCountKeeps == LatchInv /\ SyncCount => LatchInv'
<1> SUFFICES ASSUME LatchInv, SyncCount PROVE LatchInv'
  OBVIOUS
<1> USE DEF SyncCount, Disturbed
<1>0. Typed /\ Stage /\ Ended /\ Counted /\ Latched /\ Gone /\ Fresh
  BY DEF LatchInv
<1>1. /\ status' \in Structs
      /\ status'.heartbeat = status.heartbeat /\ status'.flags = status.flags
      /\ status'.cycle_count = status.cycle_count + 1
      /\ status'.mn_nmt_state = status.mn_nmt_state
      /\ status'.cn_nmt_state = status.cn_nmt_state
  BY <1>0 DEF Typed, Structs
<1>2. Typed'
  BY <1>0, <1>1 DEF Typed
<1>3. Stage' /\ Ended' /\ Counted' /\ Latched'
  BY <1>0, <1>1 DEF Stage, Ended, Counted, Latched
<1>4. Copied' /\ Gone' /\ Fresh'
  BY <1>0, <1>1 DEF Copied, Gone, Fresh
<1> QED
  BY <1>2, <1>3, <1>4 DEF LatchInv

LEMMA EventBeginsKeeps == LatchInv /\ EventBegins => LatchInv'
<1> SUFFICES ASSUME LatchInv, EventBegins PROVE LatchInv'
  OBVIOUS
<1> USE DEF EventBegins, Disturbed
<1>0. Typed /\ Stage /\ Ended /\ Counted /\ Latched /\ Gone /\ Fresh
  BY DEF LatchInv
<1>1. event' \in NmtEvents \cup NodeEvents
  BY EventsAssumption
<1>2. /\ event' \in NmtEvents => stores' = <<"mn_nmt_state", "mn", "running">>
      /\ event' = "error" => stores' = <<"cn">>
      /\ event' \in {"cs_op", "cs_other"} => stores' = <<"cn_nmt_state", "cn">>
  BY DEF StoresOf, NmtEvents
<1>3. Stage'
  BY <1>1, <1>2 DEF Stage, NmtEvents, NodeEvents, MnStages, CnStages
<1>4. stores' \in {<<"mn_nmt_state", "mn", "running">>, <<"cn_nmt_state", "cn">>, <<"cn">>}
  BY <1>1, <1>2 DEF NodeEvents
<1>5. stores' # <<"mn", "running">> /\ stores' # <<"running">>
      /\ (stores' = <<"cn">> => event' = "error")
  BY <1>1, <1>2, <1>4, Tails DEF NodeEvents
<1>6. Latched'
  BY <1>0, <1>5, Tails DEF Latched
<1>7. Typed' /\ Ended' /\ Counted' /\ Copied' /\ Gone' /\ Fresh'
  BY <1>0 DEF Typed, Ended, Counted, Copied, Gone, Fresh, Counting
<1> QED
  BY <1>3, <1>6, <1>7 DEF LatchInv

\* The five stores of processEvents, each with the stage it is made in.
LEMMA EventStoresKeeps == LatchInv /\ EventStores => LatchInv'
<1> SUFFICES ASSUME LatchInv, EventStores PROVE LatchInv'
  OBVIOUS
<1> DEFINE target == Head(stores)
<1>0. Typed /\ Stage /\ Ended /\ Counted /\ Latched /\ Gone /\ Fresh
  BY DEF LatchInv
<1>1. /\ stores # <<>> /\ stores' = Tail(stores)
      /\ event' = IF Len(stores) = 1 THEN "none" ELSE event
      /\ quiet' = [r \in Readers |-> FALSE]
      /\ UNCHANGED <<up, sync, load, clean, pc, snap, todo, h0, cycles, anew>>
  BY DEF EventStores, Disturbed
<1>2. \/ event \in NmtEvents /\ stores \in MnStages
      \/ event \in {"cs_op", "cs_other"} /\ stores \in CnStages
      \/ event = "error" /\ stores = <<"cn">>
  BY <1>0, <1>1 DEF Stage
<1>c. clean' = clean
  BY <1>1
<1>4. status \in Structs /\ status.flags \in Flags
  BY <1>0 DEF Typed, Structs
<1>5. /\ status' \in Structs /\ status'.heartbeat = status.heartbeat
      /\ status'.cycle_count = status.cycle_count
      /\ Latched' /\ Stage'
  <2>1. CASE stores = <<"mn_nmt_state", "mn", "running">>
    <3>1. event \in NmtEvents /\ stores' = <<"mn", "running">> /\ event' = event
      BY <1>1, <1>2, <2>1, Tails DEF CnStages
    <3>2. status' = [status EXCEPT !.mn_nmt_state = event]
      BY <2>1, Tails DEF EventStores
    <3>3. /\ status' \in Structs /\ status'.heartbeat = status.heartbeat
          /\ status'.cycle_count = status.cycle_count /\ status'.flags = status.flags
          /\ status'.mn_nmt_state = event /\ status'.cn_nmt_state = status.cn_nmt_state
      BY <1>4, <3>1, <3>2 DEF Structs, NmtEvents, MnStates
    <3>4. Latched'
      BY <1>0, <1>c, <2>1, <3>1, <3>3, Tails DEF Latched
    <3>5. Stage'
      BY <3>1 DEF Stage, MnStages
    <3> QED
      BY <3>3, <3>4, <3>5
  <2>2. CASE stores = <<"mn", "running">>
    <3>1. event \in NmtEvents /\ stores' = <<"running">> /\ event' = event
      BY <1>1, <1>2, <2>2, Tails DEF CnStages
    <3>2. status' = [status EXCEPT !.flags.mn = (event = "op")]
      BY <2>2, Tails DEF EventStores
    <3>3. /\ status' \in Structs /\ status'.heartbeat = status.heartbeat
          /\ status'.cycle_count = status.cycle_count
          /\ status'.flags.mn = (event = "op") /\ status'.flags.cn = status.flags.cn
          /\ status'.mn_nmt_state = status.mn_nmt_state
          /\ status'.cn_nmt_state = status.cn_nmt_state
      BY <1>4, <3>2 DEF Structs, Flags
    <3>4. Latched'
      BY <1>0, <1>c, <2>2, <3>1, <3>3, Tails DEF Latched
    <3>5. Stage'
      BY <3>1 DEF Stage, MnStages
    <3> QED
      BY <3>3, <3>4, <3>5
  <2>3. CASE stores = <<"running">>
    <3>1. event \in NmtEvents /\ stores' = <<>> /\ event' = "none"
      BY <1>1, <1>2, <2>3, Tails DEF CnStages
    <3>2. status' = [status EXCEPT !.flags.running = (event # "off")]
      BY <2>3, Tails DEF EventStores
    <3>3. /\ status' \in Structs /\ status'.heartbeat = status.heartbeat
          /\ status'.cycle_count = status.cycle_count
          /\ status'.flags.running = (event # "off") /\ status'.flags.cn = status.flags.cn
          /\ status'.flags.mn = status.flags.mn
          /\ status'.mn_nmt_state = status.mn_nmt_state
          /\ status'.cn_nmt_state = status.cn_nmt_state
      BY <1>4, <3>2 DEF Structs, Flags
    <3>4. Latched'
      BY <1>0, <1>c, <2>3, <3>1, <3>3, Tails DEF Latched, NmtEvents
    <3>5. Stage'
      BY <3>1 DEF Stage
    <3> QED
      BY <3>3, <3>4, <3>5
  <2>4. CASE stores = <<"cn_nmt_state", "cn">>
    <3>1. event \in {"cs_op", "cs_other"} /\ stores' = <<"cn">> /\ event' = event
      BY <1>1, <1>2, <2>4, Tails DEF MnStages
    <3>2. status' = [status EXCEPT !.cn_nmt_state = CnState(event)]
      BY <2>4, Tails DEF EventStores
    <3>3. /\ status' \in Structs /\ status'.heartbeat = status.heartbeat
          /\ status'.cycle_count = status.cycle_count /\ status'.flags = status.flags
          /\ status'.mn_nmt_state = status.mn_nmt_state
          /\ status'.cn_nmt_state = CnState(event)
      BY <1>4, <3>2 DEF Structs, CnState, CnStates
    <3>4. Latched'
      BY <1>0, <1>c, <2>4, <3>1, <3>3, Tails DEF Latched, CnState
    <3>5. Stage'
      BY <3>1 DEF Stage, CnStages
    <3> QED
      BY <3>3, <3>4, <3>5
  <2>5. CASE stores = <<"cn">>
    <3>1. event \in {"cs_op", "cs_other", "error"} /\ stores' = <<>> /\ event' = "none"
      BY <1>1, <1>2, <2>5, Tails DEF MnStages
    <3>2. status' = [status EXCEPT !.flags.cn = (event = "cs_op")]
      BY <2>5, Tails DEF EventStores
    <3>3. /\ status' \in Structs /\ status'.heartbeat = status.heartbeat
          /\ status'.cycle_count = status.cycle_count
          /\ status'.flags.running = status.flags.running
          /\ status'.flags.mn = status.flags.mn /\ status'.flags.cn = (event = "cs_op")
          /\ status'.mn_nmt_state = status.mn_nmt_state
          /\ status'.cn_nmt_state = status.cn_nmt_state
      BY <1>4, <3>2 DEF Structs, Flags
    <3>4. Latched'
      BY <1>0, <1>c, <2>5, <3>1, <3>3, Tails DEF Latched
    <3>5. Stage'
      BY <3>1 DEF Stage
    <3> QED
      BY <3>3, <3>4, <3>5
  <2> QED
    BY <1>2, <2>1, <2>2, <2>3, <2>4, <2>5 DEF MnStages, CnStages
<1>6. Typed' /\ Counted'
  BY <1>0, <1>1, <1>5 DEF Typed, Counted
<1>7. Ended'
  BY <1>0, <1>1 DEF Ended
<1>8. Copied' /\ Gone' /\ Fresh'
  BY <1>0, <1>1, <1>5 DEF Copied, Gone, Fresh, Counting
<1> QED
  BY <1>5, <1>6, <1>7, <1>8 DEF LatchInv

\* A reader's step leaves the struct and the callbacks alone.
LEMMA ReaderKeepsLatch ==
  ASSUME LatchInv, UNCHANGED latch
  PROVE  Stage' /\ Ended' /\ Counted' /\ Latched'
BY DEF LatchInv, latch, Stage, Ended, Counted, Latched

LEMMA BeginKeeps ==
  ASSUME LatchInv, NEW r \in Readers, CallStatus(r) \/ CallIsAlive(r) \/ Awake(r)
  PROVE  LatchInv'
<1> USE DEF CallStatus, CallIsAlive, Awake, BeginCopy
<1>0. Typed /\ Copied /\ Gone /\ Fresh
  BY DEF LatchInv
<1>1. UNCHANGED latch
  OBVIOUS
<1>2. UNCHANGED status /\ UNCHANGED sync /\ UNCHANGED stores
  BY <1>1 DEF latch
<1>3. {"heartbeat"} \in SUBSET Fields /\ {"heartbeat"} # {}
  BY FieldNames
<1>4. Typed'
  <2>1. PICK next \in {"status", "first", "second"}, fields \in SUBSET Fields :
          /\ pc' = [pc EXCEPT ![r] = next]
          /\ snap' = [snap EXCEPT ![r] = Zero]
          /\ todo' = [todo EXCEPT ![r] = fields]
          /\ quiet' = [quiet EXCEPT ![r] = next = "status" /\ ~Busy]
    BY <1>3
  <2>2. /\ cycles' = cycles \/ cycles' = [cycles EXCEPT ![r] = 0]
        /\ h0' = h0 /\ anew' = anew
    OBVIOUS
  <2> USE <1>0 DEF Typed
  <2>3. pc' \in [Readers -> PcOfReader]
    BY <2>1 DEF PcOfReader
  <2>4. snap' \in [Readers -> Structs]
    BY <2>1, ZeroIsStruct
  <2>5. todo' \in [Readers -> SUBSET Fields]
    BY <2>1
  <2>6. quiet' \in [Readers -> BOOLEAN]
    BY <2>1 DEF Busy
  <2>7. cycles' \in [Readers -> Nat]
    BY <2>2
  <2>8. UNCHANGED <<up, clean, status, sync, load, event>>
    BY <1>1 DEF latch
  <2> QED
    BY <2>2, <2>3, <2>4, <2>5, <2>6, <2>7, <2>8
<1>5. Copied'
  <2> SUFFICES ASSUME NEW s \in Readers, pc'[s] = "status", quiet'[s]
               PROVE  /\ sync = "waiting" /\ stores = <<>>
                      /\ \A f \in Fields \ todo'[s] : snap'[s][f] = status[f]
    BY <1>2 DEF Copied
  <2>1. CASE s = r
    <3>1. quiet'[r] => ~Busy
      BY <1>0 DEF Typed
    <3>2. todo'[r] = Fields
      BY <1>0, <2>1 DEF Typed
    <3> QED
      BY <2>1, <3>1, <3>2 DEF Busy
  <2>2. CASE s # r
    BY <1>0, <2>2 DEF Copied, Typed
  <2> QED
    BY <2>1, <2>2
<1>6. Gone'
  <2> SUFFICES ASSUME NEW s \in Readers
      PROVE /\ pc'[s] = "first" /\ todo'[s] # {} => cycles'[s] = 0
            /\ ~anew'[s] /\ pc'[s] = "first" /\ todo'[s] = {} =>
                 status.heartbeat = (snap'[s].heartbeat + cycles'[s]) % HeartbeatModulus
            /\ ~anew'[s] /\ (pc'[s] = "asleep" \/ (pc'[s] = "second" /\ todo'[s] # {})) =>
                 status.heartbeat = (h0'[s] + cycles'[s]) % HeartbeatModulus
            /\ ~anew'[s] /\ pc'[s] = "second" /\ todo'[s] = {} =>
                 snap'[s].heartbeat = (h0'[s] + cycles'[s]) % HeartbeatModulus
            /\ pc'[s] \in {"first", "second"} => todo'[s] \subseteq {"heartbeat"}
    BY <1>2 DEF Gone
  <2>1. CASE s = r
    <3>1. CASE CallStatus(r)
      BY <1>0, <2>1, <3>1 DEF Typed
    <3>2. CASE CallIsAlive(r)
      BY <1>0, <1>3, <2>1, <3>2 DEF Typed
    <3>3. CASE Awake(r)
      BY <1>0, <1>3, <2>1, <3>3 DEF Typed, Gone
    <3> QED
      BY <3>1, <3>2, <3>3
  <2>2. CASE s # r
    BY <1>0, <2>2 DEF Gone, Typed
  <2> QED
    BY <2>1, <2>2
<1>7. Fresh'
  <2> SUFFICES ASSUME NEW s \in Readers, Counting(s)', sync = "loaded" PROVE load = status.heartbeat
    BY <1>1, <1>2 DEF Fresh, latch
  <2>1. Counting(s)
    <3>1. CASE s = r /\ Awake(r)
      BY <1>0, <3>1 DEF Typed, Counting
    <3>2. CASE s = r /\ ~Awake(r)
      BY <1>0, <1>3, <3>2 DEF Typed, Counting
    <3>3. CASE s # r
      BY <1>0, <3>3 DEF Typed, Counting
    <3> QED
      BY <3>1, <3>2, <3>3
  <2> QED
    BY <1>0, <2>1 DEF Fresh
<1> QED
  BY <1>1, <1>4, <1>5, <1>6, <1>7, ReaderKeepsLatch DEF LatchInv

LEMMA CopyFieldKeeps ==
  ASSUME LatchInv, NEW r \in Readers, NEW f \in Fields, CopyField(r, f)
  PROVE  LatchInv'
<1> USE DEF CopyField
<1>0. Typed /\ Copied /\ Gone /\ Fresh
  BY DEF LatchInv
<1>1. UNCHANGED latch
  OBVIOUS
<1>2. UNCHANGED status /\ UNCHANGED sync /\ UNCHANGED stores
  BY <1>1 DEF latch
<1>3. snap[r] \in Structs /\ status \in Structs /\ snap'[r] = [snap[r] EXCEPT ![f] = status[f]]
      /\ todo'[r] = todo[r] \ {f}
  BY <1>0 DEF Typed
<1>4. /\ snap'[r] \in Structs /\ snap'[r][f] = status[f]
      /\ \A g \in Fields \ {f} : snap'[r][g] = snap[r][g]
  BY <1>3, FieldNames DEF Structs
<1>5. Typed'
  <2>1. snap' \in [Readers -> Structs]
    BY <1>0, <1>4 DEF Typed
  <2>2. anew' \in [Readers -> BOOLEAN]
    BY <1>0 DEF Typed, Overtaken
  <2> QED
    BY <1>0, <1>1, <2>1, <2>2 DEF Typed, latch
<1>6. Copied'
  <2> SUFFICES ASSUME NEW s \in Readers, pc[s] = "status", quiet[s]
               PROVE  /\ sync = "waiting" /\ stores = <<>>
                      /\ \A g \in Fields \ todo'[s] : snap'[s][g] = status[g]
    BY <1>2 DEF Copied
  <2>1. CASE s = r
    BY <1>0, <1>3, <1>4, <2>1 DEF Copied
  <2>2. CASE s # r
    BY <1>0, <2>2 DEF Copied, Typed
  <2> QED
    BY <2>1, <2>2
<1>7. Gone'
  <2> SUFFICES ASSUME NEW s \in Readers
      PROVE /\ pc[s] = "first" /\ todo'[s] # {} => cycles[s] = 0
            /\ ~anew'[s] /\ pc[s] = "first" /\ todo'[s] = {} =>
                 status.heartbeat = (snap'[s].heartbeat + cycles[s]) % HeartbeatModulus
            /\ ~anew'[s] /\ (pc[s] = "asleep" \/ (pc[s] = "second" /\ todo'[s] # {})) =>
                 status.heartbeat = (h0[s] + cycles[s]) % HeartbeatModulus
            /\ ~anew'[s] /\ pc[s] = "second" /\ todo'[s] = {} =>
                 snap'[s].heartbeat = (h0[s] + cycles[s]) % HeartbeatModulus
            /\ pc[s] \in {"first", "second"} => todo'[s] \subseteq {"heartbeat"}
    BY <1>2 DEF Gone
  <2>1. CASE s = r
    <3>1. CASE pc[r] = "first"
      <4>1. f = "heartbeat" /\ cycles[r] = 0 /\ todo'[r] = {}
        BY <1>0, <1>3, <3>1 DEF Gone
      <4>2. snap'[r].heartbeat = status.heartbeat
        BY <1>4, <4>1
      <4>3. status.heartbeat \in Beats
        BY <1>3 DEF Structs
      <4>4. (HeartbeatModulus * 0 + status.heartbeat) % HeartbeatModulus = status.heartbeat
        BY <4>3, Remainder, LatchAssumption DEF Beats
      <4>5. (status.heartbeat + 0) % HeartbeatModulus = status.heartbeat
        BY <4>3, <4>4, LatchAssumption DEF Beats
      <4> QED
        BY <2>1, <3>1, <4>1, <4>2, <4>5
    <3>2. CASE pc[r] = "second"
      <4>1. f = "heartbeat" /\ todo'[r] = {} /\ todo[r] # {}
        BY <1>0, <1>3, <3>2 DEF Gone
      <4>2. snap'[r].heartbeat = status.heartbeat /\ anew'[r] = anew[r]
        BY <1>0, <1>4, <3>2, <4>1 DEF Typed
      <4> QED
        BY <1>0, <2>1, <3>2, <4>1, <4>2 DEF Gone
    <3>3. CASE pc[r] \notin {"first", "second"}
      BY <1>0, <2>1, <3>3 DEF Gone, Typed
    <3> QED
      BY <3>1, <3>2, <3>3
  <2>2. CASE s # r
    BY <1>0, <2>2 DEF Gone, Typed
  <2> QED
    BY <2>1, <2>2
<1>8. Fresh'
  <2> SUFFICES ASSUME NEW s \in Readers, Counting(s)', sync = "loaded" PROVE load = status.heartbeat
    BY <1>1, <1>2 DEF Fresh, latch
  <2>1. CASE s = r /\ pc[r] = "first"
    <3>1. f = "heartbeat" \/ todo'[r] # {}
      BY <1>0, <1>3, <2>1 DEF Gone
    <3>2. f = "heartbeat"
      BY <2>1, <3>1 DEF Counting
    <3>3. anew'[r] = Overtaken
      BY <1>0, <2>1, <3>2 DEF Typed
    <3> QED
      BY <2>1, <3>3 DEF Counting, Overtaken
  <2>2. CASE s # r \/ pc[r] # "first"
    <3>1. anew'[s] = anew[s]
      BY <1>0, <2>2 DEF Typed
    <3>2. Counting(s)
      BY <1>0, <2>2, <3>1 DEF Typed, Counting
    <3> QED
      BY <1>0, <3>2 DEF Fresh
  <2> QED
    BY <2>1, <2>2
<1> QED
  BY <1>1, <1>5, <1>6, <1>7, <1>8, ReaderKeepsLatch DEF LatchInv

LEMMA EndKeeps ==
  ASSUME LatchInv, NEW r \in Readers, Asleep(r) \/ Answer(r)
  PROVE  LatchInv'
<1> USE DEF Asleep, Answer
<1>0. Typed /\ Copied /\ Gone /\ Fresh
  BY DEF LatchInv
<1>1. UNCHANGED latch
  OBVIOUS
<1>2. UNCHANGED status /\ UNCHANGED sync /\ UNCHANGED stores
  BY <1>1 DEF latch
<1>3. 0 \in Beats /\ snap[r].heartbeat \in Beats
  BY <1>0, LatchAssumption DEF Typed, Structs, Beats
<1>4. Typed'
  <2> USE <1>0 DEF Typed
  <2>1. pc' \in [Readers -> PcOfReader]
    BY DEF PcOfReader
  <2>2. snap' \in [Readers -> Structs]
    BY ZeroIsStruct
  <2>3. h0' \in [Readers -> Beats]
    BY <1>3
  <2>4. cycles' \in [Readers -> Nat]
    <3>1. cycles' = cycles \/ cycles' = [cycles EXCEPT ![r] = 0]
      OBVIOUS
    <3> QED
      BY <3>1
  <2>5. anew' \in [Readers -> BOOLEAN]
    <3>1. anew' = anew \/ anew' = [anew EXCEPT ![r] = FALSE]
      OBVIOUS
    <3> QED
      BY <3>1
  <2>6. UNCHANGED <<up, clean, status, sync, load, event>>
    BY <1>1 DEF latch
  <2>7. todo' = todo /\ quiet' \in [Readers -> BOOLEAN]
    <3>1. quiet' = quiet \/ quiet' = [quiet EXCEPT ![r] = FALSE]
      OBVIOUS
    <3> QED
      BY <3>1
  <2>8. /\ up \in BOOLEAN /\ clean \in BOOLEAN /\ status \in Structs
        /\ sync \in {"waiting", "loaded", "beaten"} /\ load \in Beats
        /\ event \in Events \cup {"none"} /\ todo \in [Readers -> SUBSET Fields]
    OBVIOUS
  <2> HIDE DEF Asleep, Answer
  <2> QED
    BY <2>1, <2>2, <2>3, <2>4, <2>5, <2>6, <2>7, <2>8
<1>5. Copied'
  <2> SUFFICES ASSUME NEW s \in Readers, pc'[s] = "status", quiet'[s]
               PROVE  /\ sync = "waiting" /\ stores = <<>>
                      /\ \A f \in Fields \ todo'[s] : snap'[s][f] = status[f]
    BY <1>2 DEF Copied
  <2>1. s # r
    BY <1>0 DEF Typed
  <2>2. pc[s] = "status" /\ quiet[s] /\ todo'[s] = todo[s] /\ snap'[s] = snap[s]
    BY <1>0, <2>1 DEF Typed
  <2> QED
    BY <1>0, <2>2 DEF Copied
<1>6. Gone'
  BY <1>0, <1>2 DEF Gone, Typed
<1>7. Fresh'
  <2> SUFFICES ASSUME NEW s \in Readers, Counting(s)', sync = "loaded" PROVE load = status.heartbeat
    BY <1>1, <1>2 DEF Fresh, latch
  <2>1. Counting(s)
    BY <1>0 DEF Typed, Counting
  <2> QED
    BY <1>0, <2>1 DEF Fresh
<1> QED
  BY <1>1, <1>4, <1>5, <1>6, <1>7, ReaderKeepsLatch DEF LatchInv

-----------------------------------------------------------------------------
LEMMA NextKeeps == LatchInv /\ [Next]_vars => LatchInv'
<1> SUFFICES ASSUME LatchInv, [Next]_vars PROVE LatchInv'
  OBVIOUS
<1>1. CASE PlwInit \/ PlwShutdown \/ SyncLoad \/ SyncBeat \/ SyncCount
  BY <1>1, PlwInitKeeps, PlwShutdownKeeps, SyncLoadKeeps, SyncBeatKeeps, SyncCountKeeps
<1>2. CASE EventBegins \/ EventStores
  BY <1>2, EventBeginsKeeps, EventStoresKeeps
<1>3. CASE \E r \in Readers : Reader(r)
  BY <1>3, BeginKeeps, CopyFieldKeeps, EndKeeps DEF Reader
<1>4. CASE UNCHANGED vars
  BY <1>4 DEF vars, latch, LatchInv, Typed, Stage, Ended, Counted, Latched, Copied, Gone,
              Fresh, Counting
<1> QED
  BY <1>1, <1>2, <1>3, <1>4 DEF Next

LEMMA LatchInvHolds == Spec => []LatchInv
BY InitHolds, NextKeeps, PTL DEF Spec

\* Unless plw_init has run under callbacks, a snapshot taken while no callback
\* was at work is consistent: plw_status (oplkwrap.c:337-344) needs no lock.
THEOREM QuietSnapshotsAgree == Spec => []QuietSnapshotAgrees
<1>1. LatchInv => QuietSnapshotAgrees
  <2> SUFFICES ASSUME LatchInv, NEW r \in Readers,
                      pc[r] = "status", todo[r] = {}, quiet[r], clean
               PROVE  Agree(snap[r])
    BY DEF QuietSnapshotAgrees
  <2>1. /\ sync = "waiting" /\ stores = <<>>
        /\ \A f \in Fields : snap[r][f] = status[f]
    BY DEF LatchInv, Copied
  <2>2. /\ snap[r].heartbeat = status.heartbeat /\ snap[r].flags = status.flags
        /\ snap[r].cycle_count = status.cycle_count
        /\ snap[r].mn_nmt_state = status.mn_nmt_state
        /\ snap[r].cn_nmt_state = status.cn_nmt_state
    BY <2>1, FieldNames
  <2>3. Counted /\ Latched
    BY DEF LatchInv
  <2> QED
    BY <2>1, <2>2, <2>3 DEF Agree, Counted, Latched
<1> QED
  BY <1>1, LatchInvHolds, PTL

\* is_alive (api.py:156-159) says False exactly when the cycles in between
\* are whole rounds of the counter, for a counter of any width.
THEOREM AliveAnswersForCycles == Spec => []AliveCountsCycles
<1>1. LatchInv => AliveCountsCycles
  <2> SUFFICES ASSUME LatchInv, NEW r \in Readers,
                      pc[r] = "second", todo[r] = {}, ~anew[r]
               PROVE  Alive(r) <=> cycles[r] % HeartbeatModulus # 0
    BY DEF AliveCountsCycles
  <2>1. snap[r].heartbeat = (h0[r] + cycles[r]) % HeartbeatModulus
    BY DEF LatchInv, Gone
  <2>2. h0[r] \in 0 .. HeartbeatModulus - 1 /\ cycles[r] \in Nat
    BY DEF LatchInv, Typed, Beats
  <2>3. (h0[r] + cycles[r]) % HeartbeatModulus = h0[r] <=> cycles[r] % HeartbeatModulus = 0
    BY <2>2, WholeRounds, LatchAssumption
  <2> QED
    BY <2>1, <2>3 DEF Alive
<1> QED
  BY <1>1, LatchInvHolds, PTL

-----------------------------------------------------------------------------
(* Types. The cycles stay within the bound, and copies within the calls.    *)

Due == IF sync = "beaten" THEN 1 ELSE 0

InBounds ==
  /\ status.cycle_count <= MaxCycles
  /\ sync # "waiting" => status.cycle_count < MaxCycles
  /\ \A r \in Readers : todo[r] # {} => pc[r] \in {"status", "first", "second"}
  /\ \A r \in Readers : cycles[r] <= status.cycle_count + Due

LEMMA InitInBounds == Init => InBounds
BY LatchAssumption DEF Init, Zero, InBounds, Due

LEMMA NextInBounds == LatchInv /\ InBounds /\ [Next]_vars => InBounds'
<1> SUFFICES ASSUME LatchInv, InBounds, [Next]_vars PROVE InBounds'
  OBVIOUS
<1>a. /\ status.cycle_count \in Nat /\ MaxCycles \in Nat
      /\ status = [f \in Fields |-> status[f]] /\ cycles \in [Readers -> Nat]
  BY LatchAssumption, FieldNames DEF LatchInv, Typed, Structs
<1>b. todo \in [Readers -> SUBSET Fields] /\ pc = [r \in Readers |-> pc[r]]
  BY DEF LatchInv, Typed
<1>1. CASE PlwInit
  <2>1. status'.cycle_count = 0 /\ \A r \in Readers : cycles'[r] = 0
    BY <1>1 DEF PlwInit, Zero
  <2>2. UNCHANGED <<sync, todo, pc>>
    BY <1>1 DEF PlwInit
  <2> QED
    BY <1>a, <2>1, <2>2 DEF InBounds, Due
<1>2. CASE PlwShutdown
  BY <1>2 DEF PlwShutdown, InBounds, Due
<1>3. CASE SyncLoad
  <2>1. /\ sync = "waiting" /\ sync' = "loaded" /\ status.cycle_count < MaxCycles
        /\ UNCHANGED <<status, todo, pc, cycles>>
    BY <1>3 DEF SyncLoad
  <2> QED
    BY <2>1 DEF InBounds, Due
<1>4. CASE SyncBeat
  <2>1. status'.cycle_count = status.cycle_count
    BY <1>4, <1>a, FieldNames DEF SyncBeat
  <2>2. sync = "loaded" /\ sync' = "beaten" /\ UNCHANGED <<todo, pc>>
    BY <1>4 DEF SyncBeat
  <2>3. \A r \in Readers : cycles'[r] <= status.cycle_count + 1
    <3>1. \A r \in Readers : cycles'[r] \in {cycles[r], cycles[r] + 1}
      BY <1>4, <1>a DEF SyncBeat
    <3>2. \A r \in Readers : cycles[r] \in Nat /\ cycles[r] <= status.cycle_count
      BY <1>a, <2>2 DEF InBounds, Due
    <3>3. \A n, c, d \in Nat : c <= n /\ d \in {c, c + 1} => d <= n + 1
      OBVIOUS
    <3>4. \A r \in Readers : cycles'[r] \in Nat
      BY <3>1, <3>2
    <3> HIDE DEF SyncBeat
    <3> QED
      BY <1>a, <3>1, <3>2, <3>3, <3>4
  <2>4. status.cycle_count < MaxCycles
    BY <2>2 DEF InBounds
  <2>5. Due' = 1
    BY <2>2 DEF Due
  <2>6. \A r \in Readers : cycles'[r] <= status'.cycle_count + Due'
    BY <2>1, <2>3, <2>5
  <2>7. \A r \in Readers : todo'[r] # {} => pc'[r] \in {"status", "first", "second"}
    BY <2>2 DEF InBounds
  <2>8. status'.cycle_count <= MaxCycles /\ status'.cycle_count < MaxCycles
    BY <1>a, <2>1, <2>4
  <2> QED
    BY <2>6, <2>7, <2>8 DEF InBounds
<1>5. CASE SyncCount
  <2>1. status'.cycle_count = status.cycle_count + 1
    BY <1>5, <1>a, FieldNames DEF SyncCount
  <2>2. sync = "beaten" /\ sync' = "waiting" /\ UNCHANGED <<todo, pc, cycles>>
    BY <1>5 DEF SyncCount
  <2> QED
    BY <1>a, <2>1, <2>2 DEF InBounds, Due
<1>6. CASE EventBegins
  BY <1>6 DEF EventBegins, InBounds, Due
<1>7. CASE EventStores
  <2>1. status'.cycle_count = status.cycle_count
    BY <1>7, <1>a, FieldNames DEF EventStores
  <2>2. UNCHANGED <<sync, todo, pc, cycles>>
    BY <1>7 DEF EventStores
  <2> QED
    BY <2>1, <2>2 DEF InBounds, Due
<1>8. ASSUME NEW r \in Readers, Reader(r) PROVE InBounds'
  <2>1. UNCHANGED <<status, sync>>
    BY <1>8 DEF Reader, CallStatus, CallIsAlive, CopyField, Asleep, Awake, Answer, latch
  <2>2. \A q \in Readers : todo'[q] # {} => pc'[q] \in {"status", "first", "second"}
    <3>1. CASE CallStatus(r) \/ CallIsAlive(r) \/ Awake(r)
      BY <1>b, <3>1 DEF CallStatus, CallIsAlive, Awake, BeginCopy, InBounds
    <3>2. ASSUME NEW f \in Fields, CopyField(r, f)
          PROVE  \A q \in Readers : todo'[q] # {} => pc'[q] \in {"status", "first", "second"}
      <4>1. \A q \in Readers : todo'[q] # {} => todo[q] # {}
        BY <1>b, <3>2 DEF CopyField
      <4> QED
        BY <3>2, <4>1 DEF CopyField, InBounds
    <3>3. CASE Asleep(r) \/ Answer(r)
      BY <1>b, <3>3 DEF Asleep, Answer, InBounds
    <3> QED
      BY <1>8, <3>1, <3>2, <3>3 DEF Reader
  <2>3. cycles' = cycles \/ cycles' = [cycles EXCEPT ![r] = 0]
    BY <1>8 DEF Reader, CallStatus, CallIsAlive, CopyField, Asleep, Awake, Answer
  <2>4. \A q \in Readers : cycles'[q] \in {0, cycles[q]}
    BY <1>a, <2>3
  <2> QED
    BY <1>a, <2>1, <2>2, <2>4 DEF InBounds, Due
<1>9. CASE UNCHANGED vars
  BY <1>9 DEF vars, latch, InBounds, Due
<1> QED
  BY <1>1, <1>2, <1>3, <1>4, <1>5, <1>6, <1>7, <1>8, <1>9 DEF Next

\* Every variable keeps a value of its kind, whatever is reported and however
\* often the stack is started; the cycles a reader counts are of its session.
THEOREM LatchTypeCorrect == Spec => []TypeOK
<1>1. Init => LatchInv /\ InBounds
  BY InitHolds, InitInBounds
<1>2. LatchInv /\ InBounds /\ [Next]_vars => LatchInv' /\ InBounds'
  BY NextKeeps, NextInBounds
<1>3. LatchInv /\ InBounds => TypeOK
  <2> SUFFICES ASSUME LatchInv, InBounds PROVE TypeOK
    OBVIOUS
  <2>1. (event # "none") <=> (stores # <<>>)
    BY DEF LatchInv, Stage, MnStages, CnStages, NmtEvents
  <2> QED
    BY <2>1 DEF TypeOK, LatchInv, Typed, InBounds, Due
<1> QED
  BY <1>1, <1>2, <1>3, PTL DEF Spec
=============================================================================
