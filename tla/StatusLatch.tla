---------------------------- MODULE StatusLatch ----------------------------
(***************************************************************************)
(* status_l of oplkwrap.c, which nothing locks: the sync thread counts     *)
(* cycles in it, the event callback latches NMT states and flags, plw_init *)
(* clears it, and plw_status copies it for status() and is_alive(). Every  *)
(* store to a field and every copy of a field is a step. A struct copy may *)
(* take the fields in any order. plw_init may clear the struct under the   *)
(* callbacks of a stack that an interrupted start() left behind.           *)
(***************************************************************************)
EXTENDS Integers, Sequences

CONSTANTS
  Readers,           \* Python threads that call status() and is_alive()
  HeartbeatModulus,  \* the heartbeat wraps here (2^32 in the code)
  MaxCycles,         \* bound: cycles of a session
  Events             \* bound: what the stack reports, of NmtEvents and NodeEvents

ASSUME LatchAssumption == HeartbeatModulus \in Nat \ {0} /\ MaxCycles \in Nat

VARIABLES
  up,      \* the stack is created: callbacks may run
  status,  \* status_l
  sync,    \* processSync: "waiting", "loaded" (heartbeat++ has read it) or "beaten"
  load,    \* processSync: the heartbeat it has read
  event,   \* processEvents: what it is delivering, or "none"
  stores,  \* processEvents: its stores still to be made
  pc,      \* readers: "idle", "status", "first", "asleep" or "second"
  snap,    \* readers: the struct being filled by plw_status
  todo,    \* readers: the fields plw_status has still to copy
  h0,      \* readers: the first heartbeat of is_alive
  cycles,  \* history: cycles of this session since the reader copied h0
  anew,    \* history: plw_init cleared the heartbeat since the reader copied h0, or
           \* had done so under a heartbeat++ that was still to store
  clean,   \* history: no stack was there when plw_init last cleared status_l
  quiet    \* history: in status(), and no store was due or made since its copy began

latch == <<up, status, sync, load, event, stores, clean>>
vars == <<latch, pc, snap, todo, h0, cycles, anew, quiet>>

MnStates == {"zero", "off", "preop", "op"}
CnStates == {"zero", "other", "op"}
Flags == [running : BOOLEAN, mn : BOOLEAN, cn : BOOLEAN]
Zero == [heartbeat |-> 0, flags |-> [running |-> FALSE, mn |-> FALSE, cn |-> FALSE],
         mn_nmt_state |-> "zero", cn_nmt_state |-> "zero", cycle_count |-> 0]
Fields == DOMAIN Zero
Beats == 0 .. HeartbeatModulus - 1
Structs == [heartbeat : Beats, flags : Flags, mn_nmt_state : MnStates,
            cn_nmt_state : CnStates, cycle_count : Nat]

Init ==
  /\ up = FALSE
  /\ status = Zero
  /\ sync = "waiting"
  /\ load = 0
  /\ event = "none"
  /\ stores = <<>>
  /\ pc = [r \in Readers |-> "idle"]
  /\ snap = [r \in Readers |-> Zero]
  /\ todo = [r \in Readers |-> {}]
  /\ h0 = [r \in Readers |-> 0]
  /\ cycles = [r \in Readers |-> 0]
  /\ anew = [r \in Readers |-> FALSE]
  /\ clean = TRUE
  /\ quiet = [r \in Readers |-> FALSE]

Disturbed == quiet' = [r \in Readers |-> FALSE]
Busy == sync # "waiting" \/ stores # <<>>

-----------------------------------------------------------------------------
(* The session. Callbacks begin with oplk_create and end before oplk_destroy *)
(* returns; plw_shutdown leaves status_l as it is.                           *)

\* Nothing keeps plw_init from a stack that is up: start() comes again when an
\* interrupt ended it between plw_start and _started = True. oplk_create then
\* refuses, but status_l has been cleared under the callbacks.
PlwInit ==
  /\ up' \in {up, TRUE}  \* status_l is cleared even if the stack cannot be created
  /\ status' = Zero
  /\ clean' = ~up
  /\ anew' = [r \in Readers |-> pc[r] \notin {"idle", "status"}]
  /\ cycles' = [r \in Readers |-> 0]
  /\ Disturbed
  /\ UNCHANGED <<sync, load, event, stores, pc, snap, todo, h0>>

PlwShutdown ==
  /\ up
  /\ ~Busy
  /\ up' = FALSE
  /\ UNCHANGED <<status, sync, load, event, stores, pc, snap, todo, h0, cycles, anew, clean, quiet>>

-----------------------------------------------------------------------------
(* processSync counts every cycle, whether its exchange succeeded or not.    *)
(* heartbeat++ reads the counter and stores it later. The other two that     *)
(* read and store, cycle_count++ and the flags, are one step: the difference *)
(* shows only after a plw_init under callbacks, of which nothing is claimed. *)

\* Mutant: the heartbeat is wider than the field that is_alive compares.
BeatenUnwrapped(h) == h + 1

\* Mutant: the heartbeat stays at its maximum.
BeatenToTheTop(h) == IF h + 1 < HeartbeatModulus THEN h + 1 ELSE h

Beaten(h) == (h + 1) % HeartbeatModulus

\* Whether is_alive has h0 and has not yet copied the heartbeat to compare.
Counting(r) ==
  /\ ~anew[r]
  /\ \/ pc[r] = "first" /\ todo[r] = {}
     \/ pc[r] = "asleep"
     \/ pc[r] = "second" /\ todo[r] # {}

SyncLoad ==
  /\ up
  /\ sync = "waiting"
  /\ status.cycle_count < MaxCycles
  /\ sync' = "loaded"
  /\ load' = status.heartbeat
  /\ Disturbed
  /\ UNCHANGED <<up, status, event, stores, clean, pc, snap, todo, h0, cycles, anew>>

\* plw_init has cleared the heartbeat that heartbeat++ is about to store over.
Overtaken == sync = "loaded" /\ load # status.heartbeat

SyncBeat ==
  /\ sync = "loaded"
  /\ sync' = "beaten"
  /\ load' = 0
  /\ status' = [status EXCEPT !.heartbeat = Beaten(load)]
  /\ cycles' = [r \in Readers |-> IF Counting(r) THEN cycles[r] + 1 ELSE cycles[r]]
  /\ Disturbed
  /\ UNCHANGED <<up, event, stores, clean, pc, snap, todo, h0, anew>>

SyncCount ==
  /\ sync = "beaten"
  /\ sync' = "waiting"
  /\ status' = [status EXCEPT !.cycle_count = @ + 1]
  /\ Disturbed
  /\ UNCHANGED <<up, load, event, stores, clean, pc, snap, todo, h0, cycles, anew>>

-----------------------------------------------------------------------------
(* processEvents, one store after another.                                   *)

NmtEvents == {"off", "preop", "op"}           \* newNmtState of the MN
NodeEvents == {"cs_op", "cs_other", "error"}  \* of any node: its id is not looked at

ASSUME EventsAssumption == Events \subseteq NmtEvents \cup NodeEvents

\* Mutant: kNmtGsOff clears only the flag of the MN.
StoresOfOffKept(e) ==
  IF e \in NmtEvents
    THEN <<"mn_nmt_state", "mn">> \o IF e = "off" THEN <<>> ELSE <<"running">>
    ELSE IF e = "error" THEN <<"cn">> ELSE <<"cn_nmt_state", "cn">>

\* An error of a node clears its flag and leaves its state.
StoresOf(e) ==
  IF e \in NmtEvents THEN <<"mn_nmt_state", "mn", "running">>
  ELSE IF e = "error" THEN <<"cn">> ELSE <<"cn_nmt_state", "cn">>

CnState(e) == IF e = "cs_op" THEN "op" ELSE "other"

EventBegins ==
  /\ up
  /\ stores = <<>>
  /\ event' \in Events
  /\ stores' = StoresOf(event')
  /\ Disturbed
  /\ UNCHANGED <<up, status, sync, load, clean, pc, snap, todo, h0, cycles, anew>>

EventStores ==
  /\ stores # <<>>
  /\ LET target == Head(stores)
     IN  \/ target = "mn_nmt_state" /\ status' = [status EXCEPT !.mn_nmt_state = event]
         \/ target = "mn" /\ status' = [status EXCEPT !.flags.mn = (event = "op")]
         \/ target = "running" /\ status' = [status EXCEPT !.flags.running = (event # "off")]
         \/ target = "cn_nmt_state" /\ status' = [status EXCEPT !.cn_nmt_state = CnState(event)]
         \/ target = "cn" /\ status' = [status EXCEPT !.flags.cn = (event = "cs_op")]
  /\ stores' = Tail(stores)
  /\ event' = IF Len(stores) = 1 THEN "none" ELSE event
  /\ Disturbed
  /\ UNCHANGED <<up, sync, load, clean, pc, snap, todo, h0, cycles, anew>>

-----------------------------------------------------------------------------
(* status(), and is_alive(): two status() calls with a sleep in between.     *)

\* plw_status copies the whole struct; fields that nobody looks at are left out.
BeginCopy(r, next, fields) ==
  /\ pc' = [pc EXCEPT ![r] = next]
  /\ snap' = [snap EXCEPT ![r] = Zero]     \* PlwStatus() is zeroed
  /\ todo' = [todo EXCEPT ![r] = fields]
  /\ quiet' = [quiet EXCEPT ![r] = next = "status" /\ ~Busy]

CallStatus(r) ==
  /\ pc[r] = "idle"
  /\ BeginCopy(r, "status", Fields)
  /\ UNCHANGED <<latch, h0, cycles, anew>>

CallIsAlive(r) ==
  /\ pc[r] = "idle"
  /\ BeginCopy(r, "first", {"heartbeat"})
  /\ cycles' = [cycles EXCEPT ![r] = 0]
  /\ UNCHANGED <<latch, h0, anew>>

CopyField(r, f) ==
  /\ f \in todo[r]
  /\ snap' = [snap EXCEPT ![r][f] = status[f]]
  /\ todo' = [todo EXCEPT ![r] = @ \ {f}]
  /\ anew' = [anew EXCEPT ![r] = IF pc[r] = "first" /\ f = "heartbeat" THEN Overtaken ELSE @]
  /\ UNCHANGED <<latch, pc, h0, cycles, quiet>>

Asleep(r) ==
  /\ pc[r] = "first"
  /\ todo[r] = {}
  /\ pc' = [pc EXCEPT ![r] = "asleep"]
  /\ h0' = [h0 EXCEPT ![r] = snap[r].heartbeat]
  /\ UNCHANGED <<latch, snap, todo, cycles, anew, quiet>>

Awake(r) ==
  /\ pc[r] = "asleep"
  /\ BeginCopy(r, "second", {"heartbeat"})
  /\ UNCHANGED <<latch, h0, cycles, anew>>

Answer(r) ==
  /\ pc[r] \in {"status", "second"}
  /\ todo[r] = {}
  /\ pc' = [pc EXCEPT ![r] = "idle"]
  /\ snap' = [snap EXCEPT ![r] = Zero]
  /\ h0' = [h0 EXCEPT ![r] = 0]
  /\ cycles' = [cycles EXCEPT ![r] = 0]
  /\ anew' = [anew EXCEPT ![r] = FALSE]
  /\ quiet' = [quiet EXCEPT ![r] = FALSE]
  /\ UNCHANGED <<latch, todo>>

Reader(r) ==
  \/ CallStatus(r)
  \/ CallIsAlive(r)
  \/ \E f \in Fields : CopyField(r, f)
  \/ Asleep(r)
  \/ Awake(r)
  \/ Answer(r)

Next ==
  \/ PlwInit
  \/ PlwShutdown
  \/ SyncLoad
  \/ SyncBeat
  \/ SyncCount
  \/ EventBegins
  \/ EventStores
  \/ \E r \in Readers : Reader(r)

Spec == Init /\ [][Next]_vars

-----------------------------------------------------------------------------
(* Properties *)

PcOfReader == {"idle", "status", "first", "asleep", "second"}

\* Every variable holds a value of its kind. An event is being delivered
\* exactly while stores of it are due, a copy is under way only inside a call,
\* the bounded counter stays within its bound through plw_init and restarts,
\* and no reader counts more cycles than its session has had.
TypeOK ==
  /\ up \in BOOLEAN /\ clean \in BOOLEAN
  /\ status \in Structs /\ status.cycle_count <= MaxCycles
  /\ sync \in {"waiting", "loaded", "beaten"} /\ load \in Beats
  /\ event \in Events \cup {"none"}
  /\ (event # "none") <=> (stores # <<>>)
  /\ pc \in [Readers -> PcOfReader]
  /\ snap \in [Readers -> Structs]
  /\ todo \in [Readers -> SUBSET Fields]
  /\ \A r \in Readers : todo[r] # {} => pc[r] \in {"status", "first", "second"}
  /\ h0 \in [Readers -> Beats]
  /\ cycles \in [Readers -> Nat]
  /\ \A r \in Readers : cycles[r] <= status.cycle_count + (IF sync = "beaten" THEN 1 ELSE 0)
  /\ anew \in [Readers -> BOOLEAN] /\ quiet \in [Readers -> BOOLEAN]

\* What is_alive (api.py:156-159) returns.
Alive(r) == snap[r].heartbeat # h0[r]

\* Unless plw_init came in between, is_alive() says False exactly when the
\* cycles between its two looks at the heartbeat are a multiple of the
\* counter's range: none, or as many as make it wrap.
AliveCountsCycles ==
  \A r \in Readers :
    pc[r] = "second" /\ todo[r] = {} /\ ~anew[r] =>
      (Alive(r) <=> cycles[r] % HeartbeatModulus # 0)

Agree(s) ==
  /\ s.heartbeat = s.cycle_count % HeartbeatModulus
  /\ s.flags.mn <=> s.mn_nmt_state = "op"
  /\ s.flags.running <=> s.mn_nmt_state \notin {"zero", "off"}
  /\ s.flags.cn => s.cn_nmt_state = "op"

\* Of a session that found no stack in its way, a snapshot taken while no
\* callback was at work is consistent: flags, NMT states and counters tell one
\* story, before, in and after the session (oplkwrap.c:100-169 and 341-343).
\* One taken during a callback need not be; nor one of a session in which
\* plw_init ran under the callbacks, to whose end the struct may stay wrong.
QuietSnapshotAgrees ==
  \A r \in Readers :
    pc[r] = "status" /\ todo[r] = {} /\ quiet[r] /\ clean => Agree(snap[r])
=============================================================================
