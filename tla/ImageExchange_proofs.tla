------------------------ MODULE ImageExchange_proofs ------------------------
(***************************************************************************)
(* Theorems about ImageExchange for every number of threads, every image   *)
(* size and every set of windows.                                          *)
(***************************************************************************)
EXTENDS ImageExchange, TLAPS

LEMMA OpFields ==
  ASSUME NEW op \in Ops
  PROVE  op.img \in Images /\ op.write \in BOOLEAN /\ (op.write => op.img = "in")
<1>1. CASE op = [img |-> "out", write |-> FALSE]
  BY <1>1 DEF Images
<1>2. CASE op = [img |-> "in", write |-> FALSE]
  BY <1>2 DEF Images
<1>3. CASE op = [img |-> "in", write |-> TRUE]
  BY <1>3 DEF Images
<1> QED
  BY <1>1, <1>2, <1>3 DEF Ops

LEMMA NoRequestFields ==
  /\ NoRequest.off = 0 /\ NoRequest.len = 0
  /\ NoRequest.op = [img |-> "in", write |-> FALSE]
  /\ Span(NoRequest) = {}
BY DEF NoRequest, Request, Span

\* What a request is made of.
LEMMA RequestFields ==
  ASSUME NEW q \in Requests \cup {NoRequest}
  PROVE  /\ q.op \in Ops
         /\ q.op.img \in Images
         /\ q.op.write \in BOOLEAN
         /\ q.off \in Nat
         /\ q.len \in Nat
         /\ q.op.write => q.op.img = "in"
<1>1. CASE q = NoRequest
  BY <1>1 DEF NoRequest, Request, Ops, Images
<1>2. CASE q \in Requests
  <2>1. PICK op \in Ops, w \in Windows : q = Request(op, w)
    BY <1>2 DEF Requests
  <2>2. w[1] \in Nat /\ w[2] \in Nat \ {0}
    BY WindowsAssumption
  <2>3. op.img \in Images /\ op.write \in BOOLEAN /\ (op.write => op.img = "in")
    BY OpFields
  <2> QED
    BY <2>1, <2>2, <2>3 DEF Request
<1> QED
  BY <1>1, <1>2

LEMMA CapType == Cap \in [Images -> Nat \ {0}]
BY SizesAssumption DEF Cap, Images

\* Reading and replacing one of the two images.
LEMMA GetImage ==
  ASSUME NEW m \in BothContents, NEW i \in Images
  PROVE  m[i] \in Contents(i)
BY DEF BothContents, Images

LEMMA PutImage ==
  ASSUME NEW m \in BothContents, NEW i \in Images, NEW f \in Contents(i)
  PROVE  [m EXCEPT ![i] = f] \in BothContents
BY DEF BothContents, Images

\* The windows of calls that passed their check lie in the image.
InBounds ==
  \A c \in Callers :
    pc[c] \in {"lock", "copy"} => req[c].off + req[c].len <= Cap[req[c].op.img]

IdleIsBlank ==
  \A c \in Callers : pc[c] = "idle" => req[c] = NoRequest

LEMMA InitType == Init => TypeOK /\ InBounds /\ IdleIsBlank
<1> SUFFICES ASSUME Init PROVE TypeOK /\ InBounds /\ IdleIsBlank
  OBVIOUS
<1> USE DEF Init
<1>1. img \in BothContents
  BY ByteAssumption DEF BothContents, Contents, Images
<1>2. wire \in Contents("in") /\ frame \in Contents("out")
  BY ByteAssumption, CapType DEF Contents, NoFrame, Cap, Images
<1>3. \A c \in Callers :
        /\ buf[c] \in [Span(req[c]) -> Byte]
        /\ pos[c] \in req[c].off .. req[c].off + req[c].len
        /\ count[c] \in {0, req[c].len}
  <2> TAKE c \in Callers
  <2>1. req[c] = NoRequest /\ buf[c] = Zeros(NoRequest) /\ pos[c] = 0 /\ count[c] = 0
    OBVIOUS
  <2>2. Zeros(NoRequest) \in [Span(NoRequest) -> Byte]
    BY ByteAssumption DEF Zeros
  <2>3. 0 \in NoRequest.off .. NoRequest.off + NoRequest.len
    BY NoRequestFields
  <2> QED
    BY <2>1, <2>2, <2>3
<1>4. heartbeat \in 0 .. HeartbeatModulus - 1
  BY ModulusAssumption
<1>5. syncPos \in 0 .. (IF syncPc = "push" THEN InSize ELSE OutSize)
  BY SizesAssumption
<1> QED
  BY <1>1, <1>2, <1>3, <1>4, <1>5 DEF TypeOK, InBounds, IdleIsBlank, Outcomes

LEMMA NextType == TypeOK /\ InBounds /\ IdleIsBlank /\ [Next]_vars
                    => TypeOK' /\ InBounds' /\ IdleIsBlank'
<1> SUFFICES ASSUME TypeOK, InBounds, IdleIsBlank, [Next]_vars
             PROVE  TypeOK' /\ InBounds' /\ IdleIsBlank'
  OBVIOUS
<1> USE SizesAssumption, CapType
<1> USE DEF TypeOK, InBounds, IdleIsBlank, lifeVars, callVars, syncVars
<1>a. ASSUME NEW c \in Callers
      PROVE  /\ req[c].op.img \in Images /\ req[c].op.write \in BOOLEAN
             /\ req[c].off \in Nat /\ req[c].len \in Nat
  BY RequestFields
<1>1. ASSUME NEW c \in Callers, NEW q \in Requests, NEW d \in Buffers(q), Call(c, q, d)
      PROVE  TypeOK' /\ InBounds' /\ IdleIsBlank'
  <2>1. d \in [Span(q) -> Byte]
    BY ByteAssumption DEF Buffers, Zeros
  <2>2. q.off \in Nat /\ q.len \in Nat /\ q.op.write \in BOOLEAN
    BY RequestFields
  <2>3. req[c] = NoRequest /\ count[c] = 0
    BY <1>1, NoRequestFields DEF Call
  <2>4. \A x \in Callers :
          /\ buf'[x] \in [Span(req'[x]) -> Byte]
          /\ pos'[x] \in req'[x].off .. req'[x].off + req'[x].len
          /\ count'[x] \in {0, req'[x].len}
    <3> TAKE x \in Callers
    <3>1. CASE x = c
      <4>1. req'[c] = q /\ buf'[c] = d /\ pos'[c] = q.off /\ count'[c] = 0
        BY <1>1, <2>3 DEF Call
      <4>2. q.off \in q.off .. q.off + q.len
        BY <2>2
      <4> QED
        BY <2>1, <3>1, <4>1, <4>2
    <3>2. CASE x # c
      <4>1. req'[x] = req[x] /\ buf'[x] = buf[x] /\ pos'[x] = pos[x] /\ count'[x] = count[x]
        BY <1>1, <3>2 DEF Call
      <4> QED
        BY <4>1
    <3> QED
      BY <3>1, <3>2
  <2>5. /\ pc' \in [Callers -> {"idle", "py", "check", "lock", "copy", "return"}]
        /\ req' \in [Callers -> Requests \cup {NoRequest}]
    BY <1>1 DEF Call
  <2>6. buf' = [x \in Callers |-> buf'[x]] /\ pos' = [x \in Callers |-> pos'[x]]
    BY <1>1 DEF Call
  <2>7. InBounds' /\ IdleIsBlank'
    BY <1>1, <2>2 DEF Call
  <2> QED
    <3>1. UNCHANGED <<lifeVars, syncVars, img, ioOwner, count, pyOwner>>
      BY <1>1 DEF Call
    <3> QED
      BY <2>4, <2>5, <2>6, <2>7, <3>1
<1>2. ASSUME NEW c \in Callers, TakePyLock(c)
      PROVE  TypeOK' /\ InBounds' /\ IdleIsBlank'
  BY <1>2 DEF TakePyLock
<1>3. ASSUME NEW c \in Callers, Check(c)
      PROVE  TypeOK' /\ InBounds' /\ IdleIsBlank'
  BY <1>3, <1>a DEF Check, Accessible
<1>4. ASSUME NEW c \in Callers, Lock(c)
      PROVE  TypeOK' /\ InBounds' /\ IdleIsBlank'
  BY <1>4 DEF Lock
<1>5. ASSUME NEW c \in Callers, CopyByte(c)
      PROVE  TypeOK' /\ InBounds' /\ IdleIsBlank'
  <2> DEFINE q == req[c]
             i == req[c].op.img
             b == pos[c]
  <2>1. i \in Images /\ q.off \in Nat /\ q.len \in Nat
    BY <1>a
  <2>1a. b \in Span(q) /\ pc[c] = "copy"
    BY <1>5 DEF CopyByte
  <2>1b. Cap[i] \in Nat /\ q.off + q.len <= Cap[i]
    BY <2>1, <2>1a
  <2> HIDE DEF TypeOK, InBounds, IdleIsBlank
  <2>2. b \in Span(q) /\ b \in Nat /\ b + 1 \in q.off .. q.off + q.len
    BY <2>1, <2>1a DEF Span
  <2>3. b \in 0 .. Cap[i] - 1
    BY <2>1, <2>1a, <2>1b DEF Span
  <2> USE DEF TypeOK, InBounds, IdleIsBlank
  <2>4. img[i] \in Contents(i) /\ img[i][b] \in Byte
    BY <2>1, <2>3, GetImage DEF Contents
  <2>5. buf[c] \in [Span(q) -> Byte] /\ buf[c][b] \in Byte
    BY <2>2
  <2>6. CASE q.op.write
    <3>1. [img[i] EXCEPT ![b] = buf[c][b]] \in Contents(i)
      BY <2>3, <2>4, <2>5 DEF Contents
    <3>2. img' \in BothContents
      BY <1>5, <2>1, <2>6, <3>1, PutImage DEF CopyByte
    <3> QED
      BY <1>5, <2>2, <2>6, <3>2 DEF CopyByte
  <2>7. CASE ~q.op.write
    <3>1. [buf[c] EXCEPT ![b] = img[i][b]] \in [Span(q) -> Byte]
      BY <2>4, <2>5
    <3>2. buf' = [x \in Callers |-> buf'[x]] /\ pos' = [x \in Callers |-> pos'[x]]
      BY <1>5, <2>7 DEF CopyByte
    <3>3. \A x \in Callers :
            /\ buf'[x] \in [Span(req'[x]) -> Byte]
            /\ pos'[x] \in req'[x].off .. req'[x].off + req'[x].len
      BY <1>5, <2>2, <2>7, <3>1 DEF CopyByte
    <3> QED
      BY <1>5, <2>7, <3>2, <3>3 DEF CopyByte
  <2> QED
    BY <2>6, <2>7
<1>6. ASSUME NEW c \in Callers, Unlock(c)
      PROVE  TypeOK' /\ InBounds' /\ IdleIsBlank'
  <2>1. \A x \in Callers : count'[x] \in {0, req[x].len}
    BY <1>6 DEF Unlock
  <2>2. /\ pc' \in [Callers -> {"idle", "py", "check", "lock", "copy", "return"}]
        /\ count' = [x \in Callers |-> count'[x]]
        /\ ioOwner' = NoOne
        /\ UNCHANGED <<lifeVars, syncVars, img, req, buf, pos, pyOwner>>
    BY <1>6 DEF Unlock
  <2>3. InBounds' /\ IdleIsBlank'
    BY <1>6 DEF Unlock
  <2> QED
    BY <2>1, <2>2, <2>3
<1>7. ASSUME NEW c \in Callers, Return(c)
      PROVE  TypeOK' /\ InBounds' /\ IdleIsBlank'
  <2>1. Zeros(NoRequest) \in [Span(NoRequest) -> Byte]
    BY ByteAssumption DEF Zeros
  <2>2. \A x \in Callers :
          /\ buf'[x] \in [Span(req'[x]) -> Byte]
          /\ pos'[x] \in req'[x].off .. req'[x].off + req'[x].len
          /\ count'[x] \in {0, req'[x].len}
    <3> TAKE x \in Callers
    <3>1. CASE x = c
      <4>1. /\ req'[c] = NoRequest /\ buf'[c] = Zeros(NoRequest)
            /\ pos'[c] = 0 /\ count'[c] = 0
        BY <1>7 DEF Return
      <4> QED
        BY <2>1, <3>1, <4>1, NoRequestFields
    <3>2. CASE x # c
      <4>1. req'[x] = req[x] /\ buf'[x] = buf[x] /\ pos'[x] = pos[x] /\ count'[x] = count[x]
        BY <1>7, <3>2 DEF Return
      <4> QED
        BY <4>1
    <3> QED
      BY <3>1, <3>2
  <2>3. /\ buf' = [x \in Callers |-> buf'[x]]
        /\ pos' = [x \in Callers |-> pos'[x]]
        /\ count' = [x \in Callers |-> count'[x]]
    BY <1>7 DEF Return
  <2>4. /\ pc' \in [Callers -> {"idle", "py", "check", "lock", "copy", "return"}]
        /\ req' \in [Callers -> Requests \cup {NoRequest}]
    BY <1>7 DEF Return
  <2>5. pyOwner' \in Callers \cup {NoOne} /\ UNCHANGED <<lifeVars, syncVars, img, ioOwner>>
    BY <1>7 DEF Return
  <2>6. InBounds' /\ IdleIsBlank'
    BY <1>7 DEF Return
  <2> QED
    BY <2>2, <2>3, <2>4, <2>5, <2>6
<1>8. CASE SyncThread
  <2>1. CASE SyncEvent
    BY <2>1 DEF SyncEvent
  <2>2. ASSUME NEW o \in Outcomes, NEW f \in Contents("out"), SyncLock(o, f)
        PROVE  TypeOK' /\ InBounds' /\ IdleIsBlank'
    BY <2>2 DEF SyncLock, FirstExchange
  <2>3. CASE SyncFetchByte
    <3>1. "out" \in Images /\ Cap["out"] = OutSize
      BY DEF Cap, Images
    <3>2. syncPos \in 0 .. OutSize - 1 /\ syncPos + 1 \in 0 .. OutSize
      BY <2>3 DEF SyncFetchByte
    <3>3. [img["out"] EXCEPT ![syncPos] = frame[syncPos]] \in Contents("out")
      BY <3>1, <3>2, GetImage DEF Contents
    <3>4. img' \in BothContents
      BY <2>3, <3>1, <3>3, PutImage DEF SyncFetchByte
    <3> QED
      BY <2>3, <3>2, <3>4 DEF SyncFetchByte
  <2>4. CASE SyncFetched
    BY <2>4 DEF SyncFetched
  <2>5. CASE SyncPushByte
    BY <2>5 DEF SyncPushByte, BothContents, Contents, Cap, Images
  <2>6. CASE SyncPushed
    BY <2>6 DEF SyncPushed
  <2>7. CASE SyncDone
    BY <2>7, ByteAssumption, ModulusAssumption
       DEF SyncDone, NoFrame, Contents, Cap, Images, Outcomes
  <2> QED
    BY <1>8, <2>1, <2>2, <2>3, <2>4, <2>5, <2>6, <2>7 DEF SyncThread
<1>9. CASE SetUp
  BY <1>9 DEF SetUp, PlwInit, AllocImage, LinkFails, LinkImage, FreeImage,
              ClearPointers, ClearSizes, DestroyMutex, SizesCleared
<1>10. CASE UNCHANGED vars
  BY <1>10 DEF vars
<1> QED
  BY <1>1, <1>2, <1>3, <1>4, <1>5, <1>6, <1>7, <1>8, <1>9, <1>10 DEF Next, Caller

\* Every variable keeps a value of its kind, whatever the application does.
THEOREM TypeCorrect == Spec => []TypeOK
<1>1. Init => TypeOK /\ InBounds /\ IdleIsBlank
  BY InitType
<1>2. TypeOK /\ InBounds /\ IdleIsBlank /\ [Next]_vars
        => TypeOK' /\ InBounds' /\ IdleIsBlank'
  BY NextType
<1> QED
  BY <1>1, <1>2, PTL DEF Spec

-----------------------------------------------------------------------------
\* Who holds a lock is inside, and the other way round.
WritersWait == \A c \in Callers : pc[c] = "py" => req[c].op.write

Locks == Exclusion /\ WritersWait

LEMMA InitLocks == Init => Locks
BY ThreadsAssumption, NoRequestFields
   DEF Init, Locks, Exclusion, WritersWait, SyncInside

LEMMA NextLocks == TypeOK /\ IdleIsBlank /\ Locks /\ [Next]_vars => Locks'
<1> SUFFICES ASSUME TypeOK, IdleIsBlank, Locks, [Next]_vars
             PROVE  Locks'
  OBVIOUS
<1> USE ThreadsAssumption
<1> USE DEF TypeOK, Locks, Exclusion, WritersWait, SyncInside, lifeVars, callVars, syncVars
<1>a. \A c \in Callers : req[c].op.write \in BOOLEAN
  BY RequestFields
<1>1. ASSUME NEW c \in Callers, NEW q \in Requests, NEW d \in Buffers(q), Call(c, q, d)
      PROVE  Locks'
  <2>1. q.op.write \in BOOLEAN
    BY RequestFields
  <2> QED
    BY <1>1, <2>1 DEF Call
<1>2. ASSUME NEW c \in Callers, TakePyLock(c)
      PROVE  Locks'
  BY <1>2, <1>a DEF TakePyLock
<1>3. ASSUME NEW c \in Callers, Check(c)
      PROVE  Locks'
  BY <1>3, <1>a DEF Check
<1>4. ASSUME NEW c \in Callers, Lock(c)
      PROVE  Locks'
  BY <1>4, <1>a DEF Lock, MutexFree
<1>5. ASSUME NEW c \in Callers, CopyByte(c)
      PROVE  Locks'
  BY <1>5 DEF CopyByte
<1>6. ASSUME NEW c \in Callers, Unlock(c)
      PROVE  Locks'
  BY <1>6, <1>a DEF Unlock
<1>7. ASSUME NEW c \in Callers, Return(c)
      PROVE  Locks'
  BY <1>7, <1>a, NoRequestFields DEF Return
<1>8. CASE SyncThread
  BY <1>8 DEF SyncThread, SyncEvent, SyncLock, MutexFree, FirstExchange, SyncFetchByte,
              SyncFetched, SyncPushByte, SyncPushed, SyncDone, Outcomes
<1>9. CASE SetUp
  BY <1>9 DEF SetUp, PlwInit, AllocImage, LinkFails, LinkImage, FreeImage,
              ClearPointers, ClearSizes, DestroyMutex
<1>10. CASE UNCHANGED vars
  BY <1>10 DEF vars
<1> QED
  BY <1>1, <1>2, <1>3, <1>4, <1>5, <1>6, <1>7, <1>8, <1>9, <1>10 DEF Next, Caller

\* Whoever moves bytes is alone with the image, whatever the application does.
THEOREM LocksExclude == Spec => []Exclusion
<1>1. Init => TypeOK /\ InBounds /\ IdleIsBlank /\ Locks
  BY InitType, InitLocks
<1>2. TypeOK /\ InBounds /\ IdleIsBlank /\ Locks /\ [Next]_vars
        => TypeOK' /\ InBounds' /\ IdleIsBlank' /\ Locks'
  BY NextType, NextLocks
<1>3. Locks => Exclusion
  BY DEF Locks
<1> QED
  BY <1>1, <1>2, <1>3, PTL DEF Spec

-----------------------------------------------------------------------------
(* The image's life, when calls and shutdown do not overlap.               *)

LEMMA RequestLength == ASSUME NEW q \in Requests PROVE q.len \in Nat \ {0}
<1>1. PICK op \in Ops, w \in Windows : q = Request(op, w)
  BY DEF Requests
<1>2. w[2] \in Nat \ {0}
  BY WindowsAssumption
<1> QED
  BY <1>1, <1>2 DEF Request

NoSizes == [i \in Images |-> 0]

LEMMA NoSizesAt == \A i \in Images : NoSizes[i] = 0
BY DEF NoSizes

LEMMA UnsizedIsClosed == ASSUME NEW q \in Requests, size = NoSizes PROVE ~Accessible(q)
<1>1. q.op.img \in Images /\ q.off \in Nat /\ q.len \in Nat \ {0}
  BY RequestFields, RequestLength
<1>2. size[q.op.img] = 0
  BY <1>1, NoSizesAt
<1>3. ~(q.off + q.len <= size[q.op.img])
  BY <1>1, <1>2
<1> QED
  BY <1>3 DEF Accessible

\* What each stage of the life means for the shim's static state.
Stages ==
  /\ mutexReady <=> life # "down"
  /\ mem <=> life \in {"allocated", "failed", "up"}
  /\ life \in {"allocated", "failed", "up"} => ptr
  /\ ptr => life \in {"allocated", "failed", "up", "freed"}
  /\ life \in {"down", "created", "allocated", "failed", "zeroed"} => size = NoSizes
  /\ life = "up" => size = Cap

BusyHasRequest == \A c \in Callers : pc[c] # "idle" => req[c] \in Requests

\* No call is in progress while the image is taken down; only a linked image
\* is worked on, by a cycle also while it is freed.
Guarded ==
  /\ ShuttingDown => NoCalls
  /\ syncPc # "wait" => life \in {"up", "freed"} /\ size = Cap
  /\ \A c \in Callers : pc[c] \in {"lock", "copy"} => life = "up"

Lifetime == Stages /\ BusyHasRequest /\ Guarded

LEMMA InitLifetime == Init => Lifetime
BY DEF Init, Lifetime, Stages, BusyHasRequest, Guarded, NoSizes, ShuttingDown

LEMMA NextLifetime ==
  ASSUME Disciplined, TypeOK, Lifetime, [Next]_vars
  PROVE  Lifetime'
<1> USE SizesAssumption, CapType
<1> USE DEF TypeOK, Lifetime, Stages, BusyHasRequest, Guarded, ShuttingDown, NoCalls,
            lifeVars, callVars, syncVars
<1>1. ASSUME NEW c \in Callers, NEW q \in Requests, NEW d \in Buffers(q), Call(c, q, d)
      PROVE  Lifetime'
  BY <1>1 DEF Call
<1>2. ASSUME NEW c \in Callers, TakePyLock(c)
      PROVE  Lifetime'
  BY <1>2 DEF TakePyLock
<1>3. ASSUME NEW c \in Callers, Check(c)
      PROVE  Lifetime'
  <2>1. CASE Accessible(req[c])
    <3>2. size # NoSizes
      BY <1>3, <2>1, UnsizedIsClosed DEF Check
    <3>3. life = "up"
      BY <1>3, <2>1, <3>2 DEF Check, Accessible
    <3> QED
      BY <1>3, <3>3 DEF Check
  <2>2. CASE ~Accessible(req[c])
    BY <1>3, <2>2 DEF Check
  <2> QED
    BY <2>1, <2>2
<1>4. ASSUME NEW c \in Callers, Lock(c)
      PROVE  Lifetime'
  BY <1>4 DEF Lock
<1>5. ASSUME NEW c \in Callers, CopyByte(c)
      PROVE  Lifetime'
  BY <1>5 DEF CopyByte
<1>6. ASSUME NEW c \in Callers, Unlock(c)
      PROVE  Lifetime'
  BY <1>6 DEF Unlock
<1>7. ASSUME NEW c \in Callers, Return(c)
      PROVE  Lifetime'
  BY <1>7 DEF Return
<1>8. CASE SyncThread
  BY <1>8 DEF SyncThread, SyncEvent, SyncLock, FirstExchange, SyncFetchByte,
              SyncFetched, SyncPushByte, SyncPushed, SyncDone
<1>9. CASE SetUp
  <2>1. CASE PlwInit
    BY <2>1 DEF PlwInit
  <2>2. CASE AllocImage
    BY <2>2 DEF AllocImage
  <2>3. CASE LinkFails
    BY <2>3 DEF LinkFails
  <2>4. CASE LinkImage
    BY <2>4 DEF LinkImage
  <2>5. CASE FreeImage
    BY <2>5, DisciplinedAssumption DEF FreeImage
  <2>6. CASE ClearPointers
    BY <2>6 DEF ClearPointers
  <2>7. CASE ClearSizes
    BY <2>7 DEF ClearSizes, SizesCleared, NoSizes
  <2>8. CASE DestroyMutex
    BY <2>8 DEF DestroyMutex
  <2> QED
    BY <1>9, <2>1, <2>2, <2>3, <2>4, <2>5, <2>6, <2>7, <2>8 DEF SetUp
<1>10. CASE UNCHANGED vars
  BY <1>10 DEF vars
<1> QED
  BY <1>1, <1>2, <1>3, <1>4, <1>5, <1>6, <1>7, <1>8, <1>9, <1>10 DEF Next, Caller

Safe == TypeOK /\ InBounds /\ IdleIsBlank /\ Locks /\ Lifetime

\* A caller past its check works on a linked image, if the application keeps
\* its calls and plw_shutdown apart.
THEOREM AccessIsSafe == ASSUME Disciplined PROVE Spec => []AccessOnlyLinked
<1>1. Init => Safe
  BY InitType, InitLocks, InitLifetime DEF Safe
<1>2. Safe /\ [Next]_vars => Safe'
  BY NextType, NextLocks, NextLifetime DEF Safe
<1>3. Safe => AccessOnlyLinked
  <2> SUFFICES ASSUME Safe, NEW c \in Callers, pc[c] \in {"lock", "copy"}
               PROVE  /\ life = "up" /\ mem /\ mutexReady
                      /\ Span(req[c]) \subseteq 0 .. Cap[req[c].op.img] - 1
    BY DEF AccessOnlyLinked
  <2>1. req[c].op.img \in Images /\ req[c].off \in Nat /\ req[c].len \in Nat
    BY RequestFields DEF Safe, TypeOK
  <2>2. req[c].off + req[c].len <= Cap[req[c].op.img]
    BY DEF Safe, InBounds
  <2>3. Span(req[c]) \subseteq 0 .. Cap[req[c].op.img] - 1
    BY <2>1, <2>2, CapType DEF Span
  <2> QED
    BY <2>3 DEF Safe, Lifetime, Guarded, Stages
<1> QED
  BY <1>1, <1>2, <1>3, PTL DEF Spec
=============================================================================
