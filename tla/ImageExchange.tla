--------------------------- MODULE ImageExchange ---------------------------
(***************************************************************************)
(* How the process image is shared: Python threads in the three I/O calls  *)
(* of the shim (stack.py _read_input, _write_output, _read_output),        *)
(* the stack's sync thread in processSync, and the thread that sets the    *)
(* image up and takes it down (plw_init, plw_alloc_pi, plw_shutdown).      *)
(* memcpy and the exchange functions move one byte per step; a call checks *)
(* pointer and sizes BEFORE it takes the cycle mutex, as the code does.    *)
(***************************************************************************)
EXTENDS ImageData

CONSTANTS
  NoOne, Sync,    \* no lock owner; the stack's sync thread
  Disciplined     \* the application never overlaps I/O calls with plw_shutdown

ASSUME ThreadsAssumption == NoOne \notin Callers /\ Sync \notin Callers /\ NoOne # Sync
ASSUME DisciplinedAssumption == Disciplined \in BOOLEAN

VARIABLES
  life,        \* where the set-up thread is between plw_init and plw_shutdown
  mutexReady,  \* mutexReady_l
  mem,         \* the stack holds memory for the images
  ptr,         \* pPiIn_l and pPiOut_l are not NULL
  size,        \* piInSize_l and piOutSize_l
  img,         \* the bytes of both images
  wire,        \* the outputs most recently sent to the CN
  heartbeat,   \* status_l.heartbeat (and cycle_count, bumped with it)
  pyOwner,     \* who holds PowerlinkStack._lock
  ioOwner,     \* who holds ioMutex_l
  pc, req, buf, \* of each caller: its place in the call, request and buffer
  pos,         \* of each caller: the byte memcpy moves next
  count,       \* of each caller: the value the call returns
  syncPc,      \* where the sync thread is in processSync
  syncPos,     \* the byte it moves next
  outcome,     \* how far this cycle's exchange gets
  frame        \* the bytes received from the CN for this cycle

lifeVars == <<life, mutexReady, mem, ptr, size>>
callVars == <<pc, req, buf, pos, count, pyOwner>>
syncVars == <<syncPc, syncPos, outcome, frame, wire, heartbeat>>
vars == <<lifeVars, callVars, syncVars, img, ioOwner>>

NoFrame == [b \in 0 .. OutSize - 1 |-> Zero]

Init ==
  /\ life = "down"
  /\ mutexReady = FALSE
  /\ mem = FALSE
  /\ ptr = FALSE
  /\ size = [i \in Images |-> 0]
  /\ img = [i \in Images |-> [b \in 0 .. Cap[i] - 1 |-> Zero]]
  /\ wire = [b \in 0 .. InSize - 1 |-> Zero]
  /\ heartbeat = 0
  /\ pyOwner = NoOne
  /\ ioOwner = NoOne
  /\ pc = [c \in Callers |-> "idle"]
  /\ req = [c \in Callers |-> NoRequest]
  /\ buf = [c \in Callers |-> Zeros(NoRequest)]
  /\ pos = [c \in Callers |-> 0]
  /\ count = [c \in Callers |-> 0]
  /\ syncPc = "wait"
  /\ syncPos = 0
  /\ outcome = "none"
  /\ frame = NoFrame

-----------------------------------------------------------------------------
(* The I/O calls of the Python threads. *)

ShuttingDown == life \in {"freed", "cleared", "zeroed"}

\* _write_output enters `with self._lock`; the reads go straight to the shim.
Call(c, q, d) ==
  /\ pc[c] = "idle"
  /\ Disciplined => ~ShuttingDown
  /\ pc' = [pc EXCEPT ![c] = IF q.op.write THEN "py" ELSE "check"]
  /\ req' = [req EXCEPT ![c] = q]
  /\ buf' = [buf EXCEPT ![c] = d]
  /\ pos' = [pos EXCEPT ![c] = q.off]
  /\ UNCHANGED <<lifeVars, syncVars, img, ioOwner, count, pyOwner>>

\* Mutant: the writer does not wait for the other writer.
TakePyLockShared(c) ==
  /\ pc[c] = "py"
  /\ pyOwner' = c
  /\ pc' = [pc EXCEPT ![c] = "check"]
  /\ UNCHANGED <<lifeVars, syncVars, img, ioOwner, req, buf, pos, count>>

TakePyLock(c) ==
  /\ pc[c] = "py"
  /\ pyOwner = NoOne
  /\ pyOwner' = c
  /\ pc' = [pc EXCEPT ![c] = "check"]
  /\ UNCHANGED <<lifeVars, syncVars, img, ioOwner, req, buf, pos, count>>

\* pPi == NULL || offset + len > size: return 0 (size_t is wide enough here).
Accessible(q) == ptr /\ q.off + q.len <= size[q.op.img]

Check(c) ==
  /\ pc[c] = "check"
  /\ pc' = [pc EXCEPT ![c] = IF Accessible(req[c]) THEN "lock" ELSE "return"]
  /\ UNCHANGED <<lifeVars, syncVars, img, ioOwner, req, buf, pos, count, pyOwner>>

\* Mutant: the image is touched without the cycle mutex.
MutexIgnored == TRUE

MutexFree == ioOwner = NoOne

Lock(c) ==
  /\ pc[c] = "lock"
  /\ MutexFree
  /\ ioOwner' = c
  /\ pc' = [pc EXCEPT ![c] = "copy"]
  /\ UNCHANGED <<lifeVars, syncVars, img, req, buf, pos, count, pyOwner>>

CopyByte(c) ==
  LET i == req[c].op.img
      b == pos[c]
  IN  /\ pc[c] = "copy"
      /\ b \in Span(req[c])
      /\ pos' = [pos EXCEPT ![c] = b + 1]
      /\ IF req[c].op.write
           THEN /\ img' = [img EXCEPT ![i] = [img[i] EXCEPT ![b] = buf[c][b]]]
                /\ UNCHANGED buf
           ELSE /\ buf' = [buf EXCEPT ![c] = [buf[c] EXCEPT ![b] = img[i][b]]]
                /\ UNCHANGED img
      /\ UNCHANGED <<lifeVars, syncVars, ioOwner, pc, req, count, pyOwner>>

Unlock(c) ==
  /\ pc[c] = "copy"
  /\ pos[c] \notin Span(req[c])
  /\ ioOwner' = NoOne
  /\ count' = [count EXCEPT ![c] = req[c].len]
  /\ pc' = [pc EXCEPT ![c] = "return"]
  /\ UNCHANGED <<lifeVars, syncVars, img, req, buf, pos, pyOwner>>

\* Back in Python: leave `with self._lock`, hand out bytes(buf[:n]).
Return(c) ==
  /\ pc[c] = "return"
  /\ pyOwner' = IF pyOwner = c THEN NoOne ELSE pyOwner
  /\ pc' = [pc EXCEPT ![c] = "idle"]
  /\ req' = [req EXCEPT ![c] = NoRequest]
  /\ buf' = [buf EXCEPT ![c] = Zeros(NoRequest)]
  /\ pos' = [pos EXCEPT ![c] = 0]
  /\ count' = [count EXCEPT ![c] = 0]
  /\ UNCHANGED <<lifeVars, syncVars, img, ioOwner>>

Caller(c) ==
  \/ \E q \in Requests : \E d \in Buffers(q) : Call(c, q, d)
  \/ TakePyLock(c)
  \/ Check(c)
  \/ Lock(c)
  \/ CopyByte(c)
  \/ Unlock(c)
  \/ Return(c)

-----------------------------------------------------------------------------
(* processSync, once per cycle in the stack's sync thread. *)

\* oplk_waitSyncEvent returned kErrorOk. Cycles begin once the MN is started
\* on a linked image, and go on until oplk_destroy ends them: stop() sleeps
\* 0.2 s after plw_stop (or less, after a Ctrl+C), whatever that returned.
SyncEvent ==
  /\ syncPc = "wait"
  /\ life \in {"up", "freed"} /\ size = Cap
  /\ syncPc' = "lock"
  /\ UNCHANGED <<lifeVars, callVars, img, ioOwner,
                 syncPos, outcome, frame, wire, heartbeat>>

\* The step after the mutex is taken: an exchange that fails moves no byte.
FirstExchange(o) == IF o = "none" THEN "bump" ELSE "fetch"

SyncLock(o, f) ==
  /\ syncPc = "lock"
  /\ MutexFree
  /\ ioOwner' = Sync
  /\ outcome' = o
  /\ frame' = f
  /\ syncPos' = 0
  /\ syncPc' = FirstExchange(o)
  /\ UNCHANGED <<lifeVars, callVars, img, wire, heartbeat>>

\* oplk_exchangeProcessImageOut: the CN's inputs into the "out" image.
SyncFetchByte ==
  /\ syncPc = "fetch"
  /\ syncPos < OutSize
  /\ img' = [img EXCEPT !["out"] = [img["out"] EXCEPT ![syncPos] = frame[syncPos]]]
  /\ syncPos' = syncPos + 1
  /\ UNCHANGED <<lifeVars, callVars, ioOwner, syncPc, outcome, frame, wire, heartbeat>>

SyncFetched ==
  /\ syncPc = "fetch"
  /\ syncPos = OutSize
  /\ syncPos' = 0
  /\ syncPc' = IF outcome = "both" THEN "push" ELSE "bump"
  /\ UNCHANGED <<lifeVars, callVars, img, ioOwner, outcome, frame, wire, heartbeat>>

\* oplk_exchangeProcessImageIn: the "in" image into the CN's outputs. What was
\* freed under the cycle may hold anything by now.
SyncPushByte ==
  /\ syncPc = "push"
  /\ syncPos < InSize
  /\ \E v \in IF mem THEN {img["in"][syncPos]} ELSE Byte :
       wire' = [wire EXCEPT ![syncPos] = v]
  /\ syncPos' = syncPos + 1
  /\ UNCHANGED <<lifeVars, callVars, img, ioOwner, syncPc, outcome, frame, heartbeat>>

SyncPushed ==
  /\ syncPc = "push"
  /\ syncPos = InSize
  /\ syncPos' = 0
  /\ syncPc' = "bump"
  /\ UNCHANGED <<lifeVars, callVars, img, ioOwner, outcome, frame, wire, heartbeat>>

\* Mutant: the early return of a failed exchange skips the unlock.
SyncDoneEarlyReturn ==
  /\ syncPc = "bump"
  /\ heartbeat' = (heartbeat + 1) % HeartbeatModulus
  /\ ioOwner' = IF outcome = "both" THEN NoOne ELSE ioOwner
  /\ outcome' = "none"
  /\ frame' = NoFrame
  /\ syncPos' = 0
  /\ syncPc' = "wait"
  /\ UNCHANGED <<lifeVars, callVars, img, wire>>

\* The counters move and the mutex is released whatever the exchange returned.
SyncDone ==
  /\ syncPc = "bump"
  /\ heartbeat' = (heartbeat + 1) % HeartbeatModulus
  /\ ioOwner' = NoOne
  /\ outcome' = "none"
  /\ frame' = NoFrame
  /\ syncPos' = 0
  /\ syncPc' = "wait"
  /\ UNCHANGED <<lifeVars, callVars, img, wire>>

SyncThread ==
  \/ SyncEvent
  \/ \E o \in Outcomes, f \in Contents("out") : SyncLock(o, f)
  \/ SyncFetchByte
  \/ SyncFetched
  \/ SyncPushByte
  \/ SyncPushed
  \/ SyncDone

-----------------------------------------------------------------------------
(* The set-up thread. *)

PlwInit ==
  /\ life = "down"
  /\ life' = "created"
  /\ mutexReady' = TRUE
  /\ UNCHANGED <<mem, ptr, size, callVars, syncVars, img, ioOwner>>

\* Mutant: the sizes are published with the pointers, before the linking.
AllocImageSizesFirst ==
  /\ life = "created"
  /\ life' = "allocated"
  /\ mem' = TRUE
  /\ ptr' = TRUE
  /\ size' = Cap
  /\ img' \in BothContents
  /\ UNCHANGED <<mutexReady, callVars, syncVars, ioOwner>>

\* oplk_allocProcessImage and the pointers; the memory is not initialised here.
AllocImage ==
  /\ life = "created"
  /\ life' = "allocated"
  /\ mem' = TRUE
  /\ ptr' = TRUE
  /\ img' \in BothContents
  /\ UNCHANGED <<mutexReady, size, callVars, syncVars, ioOwner>>

\* obdpi_setupProcessImage returned an error index: the sizes stay 0.
LinkFails ==
  /\ life = "allocated"
  /\ life' = "failed"
  /\ UNCHANGED <<mutexReady, mem, ptr, size, callVars, syncVars, img, ioOwner>>

LinkImage ==
  /\ life = "allocated"
  /\ life' = "up"
  /\ size' = Cap
  /\ UNCHANGED <<mutexReady, mem, ptr, callVars, syncVars, img, ioOwner>>

NoCalls == \A c \in Callers : pc[c] = "idle"

\* plw_shutdown takes no lock: oplk_freeProcessImage, in the middle of a cycle
\* or not ...
FreeImage ==
  /\ life \in {"created", "failed", "up"}
  /\ Disciplined => NoCalls
  /\ life' = "freed"
  /\ mem' = FALSE
  /\ UNCHANGED <<mutexReady, ptr, size, callVars, syncVars, img, ioOwner>>

\* ... oplk_destroy and oplk_exit (which wait for the sync thread), the pointers ...
ClearPointers ==
  /\ life = "freed"
  /\ syncPc = "wait"
  /\ life' = "cleared"
  /\ ptr' = FALSE
  /\ UNCHANGED <<mutexReady, mem, size, callVars, syncVars, img, ioOwner>>

\* Mutant: only one of the two sizes goes back to 0.
OneSizeCleared == [size EXCEPT !["in"] = 0]

SizesCleared == [i \in Images |-> 0]

\* ... the sizes ...
ClearSizes ==
  /\ life = "cleared"
  /\ life' = "zeroed"
  /\ size' = SizesCleared
  /\ UNCHANGED <<mutexReady, mem, ptr, callVars, syncVars, img, ioOwner>>

\* ... and the mutex.
DestroyMutex ==
  /\ life = "zeroed"
  /\ life' = "down"
  /\ mutexReady' = FALSE
  /\ UNCHANGED <<mem, ptr, size, callVars, syncVars, img, ioOwner>>

SetUp ==
  \/ PlwInit
  \/ AllocImage
  \/ LinkFails
  \/ LinkImage
  \/ FreeImage
  \/ ClearPointers
  \/ ClearSizes
  \/ DestroyMutex

-----------------------------------------------------------------------------
Next ==
  \/ \E c \in Callers : Caller(c)
  \/ SyncThread
  \/ SetUp

Spec == Init /\ [][Next]_vars

\* The thread inside the critical section, of which there is one at most, is
\* scheduled until it leaves it.
CriticalStep ==
  \/ \E c \in Callers : CopyByte(c) \/ Unlock(c)
  \/ SyncFetchByte
  \/ SyncFetched
  \/ SyncPushByte
  \/ SyncPushed
  \/ SyncDone

CriticalFairness == WF_vars(CriticalStep)

FairSpec == Spec /\ CriticalFairness

-----------------------------------------------------------------------------
(* Properties. *)

\* Every variable holds a value of its kind; a caller's position stays within
\* or just after its window.
TypeOK ==
  /\ life \in {"down", "created", "allocated", "failed", "up",
               "freed", "cleared", "zeroed"}
  /\ mutexReady \in BOOLEAN
  /\ mem \in BOOLEAN
  /\ ptr \in BOOLEAN
  /\ size \in {[i \in Images |-> 0], Cap}
  /\ img \in BothContents
  /\ wire \in Contents("in")
  /\ heartbeat \in 0 .. HeartbeatModulus - 1
  /\ pyOwner \in Callers \cup {NoOne}
  /\ ioOwner \in Callers \cup {NoOne, Sync}
  /\ pc \in [Callers -> {"idle", "py", "check", "lock", "copy", "return"}]
  /\ req \in [Callers -> Requests \cup {NoRequest}]
  /\ \A c \in Callers :
       /\ buf[c] \in [Span(req[c]) -> Byte]
       /\ pos[c] \in req[c].off .. req[c].off + req[c].len
       /\ count[c] \in {0, req[c].len}
  /\ buf = [c \in Callers |-> buf[c]]
  /\ pos = [c \in Callers |-> pos[c]]
  /\ count = [c \in Callers |-> count[c]]
  /\ syncPc \in {"wait", "lock", "fetch", "push", "bump"}
  /\ syncPos \in 0 .. (IF syncPc = "push" THEN InSize ELSE OutSize)
  /\ outcome \in Outcomes
  /\ frame \in Contents("out")

\* Whoever moves bytes of the image is alone with it: the owner of ioMutex_l,
\* and for a write of PowerlinkStack._lock too (the two locks are always taken
\* in this order). oplkwrap.c:9-11, 158-167, 353-376; stack.py:211.
SyncInside == syncPc \in {"fetch", "push", "bump"}

Exclusion ==
  /\ SyncInside <=> ioOwner = Sync
  /\ \A c \in Callers :
       /\ pc[c] = "copy" <=> ioOwner = c
       /\ pyOwner = c <=> req[c].op.write /\ pc[c] \in {"check", "lock", "copy", "return"}

\* A caller past its check works on an image that is allocated, linked and as
\* large as its window says, under a mutex that exists, until it returns: the
\* check before the mutex is enough because plw_alloc_pi publishes the sizes
\* last and nothing is taken down under a call. oplkwrap.c:279-293, 320-332.
AccessOnlyLinked ==
  \A c \in Callers :
    pc[c] \in {"lock", "copy"} =>
      /\ life = "up" /\ mem /\ mutexReady
      /\ Span(req[c]) \subseteq 0 .. Cap[req[c].op.img] - 1

\* oplkwrap.h:116-118 calls byte access thread-safe, with no condition on when
\* plw_shutdown runs. Said of a caller that is about to touch the image: the
\* memory and the mutex are still there.
ThreadSafeAccess ==
  \A c \in Callers : pc[c] = "copy" => mem /\ mutexReady

\* The cycle mutex is always released, whatever the exchange returned and
\* however the calls interleave: a cycle is never stopped by a lost unlock.
MutexReleased == (ioOwner # NoOne) ~> (ioOwner = NoOne)

-----------------------------------------------------------------------------
(* The refinement: an operation happens when it takes the mutex. Bytes that  *)
(* the holder has still to move count as moved.                              *)

Writing == ioOwner \in Callers /\ req[ioOwner].op.write

AbsIn ==
  IF Writing
    THEN [b \in 0 .. InSize - 1 |->
            IF b \in Span(req[ioOwner]) /\ b >= pos[ioOwner]
              THEN buf[ioOwner][b] ELSE img["in"][b]]
    ELSE img["in"]

AbsOut ==
  IF syncPc = "fetch"
    THEN [b \in 0 .. OutSize - 1 |-> IF b >= syncPos THEN frame[b] ELSE img["out"][b]]
    ELSE img["out"]

AbsWire ==
  IF syncPc \in {"fetch", "push"} /\ outcome = "both"
    THEN [b \in 0 .. InSize - 1 |->
            IF syncPc = "push" /\ b < syncPos THEN wire[b] ELSE img["in"][b]]
    ELSE wire

AbsHeartbeat == IF SyncInside THEN (heartbeat + 1) % HeartbeatModulus ELSE heartbeat

AbsBuf ==
  [c \in Callers |->
     IF ioOwner = c /\ ~req[c].op.write
       THEN [b \in Span(req[c]) |->
               IF b >= pos[c] THEN img[req[c].op.img][b] ELSE buf[c][b]]
       ELSE buf[c]]

AbsStage ==
  [c \in Callers |->
     IF pc[c] = "idle" THEN "idle"
     ELSE IF pc[c] \in {"py", "check", "lock"} THEN "called" ELSE "done"]

AbsCount == [c \in Callers |-> IF pc[c] = "copy" THEN req[c].len ELSE count[c]]

\* Until oplk_destroy returns cycles may still come.
AbsPhase ==
  IF life = "up" THEN "attached"
  ELSE IF life = "freed" /\ size = Cap THEN "leaving" ELSE "none"

Atomic == INSTANCE AtomicImage WITH
  phase <- AbsPhase,
  img <- [in |-> AbsIn, out |-> AbsOut],
  wire <- AbsWire,
  heartbeat <- AbsHeartbeat,
  stage <- AbsStage,
  req <- req,
  buf <- AbsBuf,
  count <- AbsCount

\* No torn read, no half-written output on the wire, no lost cycle count: every
\* call and every cycle looks like one indivisible step on the whole image, and
\* a cycle that plw_shutdown frees the image under spoils nothing but what it
\* sends itself. oplkwrap.c:145-169, 320-332, 349-377.
AtomicSpec == Atomic!Spec
=============================================================================
