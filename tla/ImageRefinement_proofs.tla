----------------------- MODULE ImageRefinement_proofs -----------------------
(***************************************************************************)
(* ImageExchange implements AtomicImage, for every number of threads, every *)
(* image size and every set of windows: a call or a cycle takes effect when *)
(* it takes the cycle mutex.                                                *)
(***************************************************************************)
EXTENDS ImageExchange_proofs

\* The instance reads the data definitions as this module does.
LEMMA SameData ==
  /\ Atomic!Images = Images /\ Atomic!Cap = Cap /\ Atomic!Outcomes = Outcomes
  /\ Atomic!Contents("in") = Contents("in") /\ Atomic!Contents("out") = Contents("out")
  /\ Atomic!BothContents = BothContents
  /\ Atomic!Requests = Requests /\ Atomic!NoRequest = NoRequest
  /\ \A q : Atomic!Span(q) = Span(q) /\ Atomic!Zeros(q) = Zeros(q)
  /\ \A q : Atomic!Buffers(q) = Buffers(q)
<1>1. Atomic!Images = Images /\ Atomic!Outcomes = Outcomes
  BY DEF Atomic!Images, Images, Atomic!Outcomes, Outcomes
<1>2. Atomic!Cap = Cap
  BY <1>1 DEF Atomic!Cap, Cap
<1>3. \A i : Atomic!Contents(i) = Contents(i)
  BY <1>2 DEF Atomic!Contents, Contents
<1>4. Atomic!BothContents = BothContents
  BY <1>3 DEF Atomic!BothContents, BothContents
<1>5. \A op, w : Atomic!Request(op, w) = Request(op, w)
  BY DEF Atomic!Request, Request
<1>6. Atomic!Requests = Requests /\ Atomic!NoRequest = NoRequest
  BY <1>5 DEF Atomic!Requests, Requests, Atomic!NoRequest, NoRequest, Atomic!Ops, Ops
<1>7. \A q : Atomic!Span(q) = Span(q)
  BY DEF Atomic!Span, Span
<1>8. \A q : Atomic!Zeros(q) = Zeros(q)
  BY <1>7 DEF Atomic!Zeros, Zeros
<1>9. \A q : Atomic!Buffers(q) = Buffers(q)
  BY <1>7, <1>8 DEF Atomic!Buffers, Buffers
<1> QED
  BY <1>1, <1>2, <1>3, <1>4, <1>6, <1>7, <1>8, <1>9

-----------------------------------------------------------------------------
(* What the mapping needs to know of a call and of a cycle in progress. *)

CallShape ==
  \A c \in Callers :
    pc[c] \in {"py", "check", "lock"} => pos[c] = req[c].off /\ count[c] = 0

CycleShape ==
  /\ syncPc = "fetch" => outcome \in {"both", "out"}
  /\ syncPc = "push" => outcome = "both"

Shape == CallShape /\ CycleShape

LEMMA InitShape == Init => Shape
BY DEF Init, Shape, CallShape, CycleShape

LEMMA NextShape ==
  ASSUME TypeOK, IdleIsBlank, Shape, [Next]_vars
  PROVE  Shape'
<1> USE DEF TypeOK, Shape, CallShape, CycleShape, lifeVars, callVars, syncVars
<1>1. ASSUME NEW c \in Callers, NEW q \in Requests, NEW d \in Buffers(q), Call(c, q, d)
      PROVE  Shape'
  <2>1. count[c] = 0
    BY <1>1, NoRequestFields DEF Call, IdleIsBlank
  <2> QED
    BY <1>1, <2>1 DEF Call
<1>2. ASSUME NEW c \in Callers,
             TakePyLock(c) \/ Check(c) \/ Lock(c) \/ CopyByte(c) \/ Unlock(c) \/ Return(c)
      PROVE  Shape'
  BY <1>2 DEF TakePyLock, Check, Lock, CopyByte, Unlock, Return
<1>3. CASE SyncThread
  BY <1>3 DEF SyncThread, SyncEvent, SyncLock, FirstExchange, SyncFetchByte,
              SyncFetched, SyncPushByte, SyncPushed, SyncDone, Outcomes
<1>4. CASE SetUp
  BY <1>4 DEF SetUp, PlwInit, AllocImage, LinkFails, LinkImage, FreeImage,
              ClearPointers, ClearSizes, DestroyMutex
<1>5. CASE UNCHANGED vars
  BY <1>5 DEF vars
<1> QED
  BY <1>1, <1>2, <1>3, <1>4, <1>5 DEF Next, Caller

-----------------------------------------------------------------------------
(* The mapped variables. *)

AbsImg == [in |-> AbsIn, out |-> AbsOut]

Inv == Safe /\ Shape

\* The mapped image, wire, counter and results when no one is inside.
LEMMA NoOneInside ==
  ASSUME Inv, ioOwner \notin Callers, syncPc \notin {"fetch", "push"}
  PROVE  AbsIn = img["in"] /\ AbsOut = img["out"] /\ AbsWire = wire /\ AbsBuf = buf
<1>1. AbsIn = img["in"] /\ AbsOut = img["out"] /\ AbsWire = wire
  <2>1. AbsIn = img["in"]
    BY DEF AbsIn, Writing
  <2>2. AbsOut = img["out"]
    BY DEF AbsOut
  <2>3. AbsWire = wire
    BY DEF AbsWire
  <2> QED
    BY <2>1, <2>2, <2>3
<1>2. AbsBuf = [c \in Callers |-> buf[c]]
  BY DEF AbsBuf
<1>3. buf = [c \in Callers |-> buf[c]]
  BY DEF Inv, Safe, TypeOK
<1> QED
  BY <1>1, <1>2, <1>3

THEOREM InitMaps == Init => Atomic!Init
<1> SUFFICES ASSUME Init PROVE Atomic!Init
  OBVIOUS
<1>1. TypeOK
  BY InitType
<1>2. AbsIn = img["in"] /\ AbsOut = img["out"] /\ AbsWire = wire /\ AbsHeartbeat = heartbeat
  BY ThreadsAssumption DEF Init, AbsIn, AbsOut, AbsWire, AbsHeartbeat, Writing, SyncInside
<1>3. AbsImg \in BothContents
  BY <1>1, <1>2, GetImage DEF AbsImg, TypeOK, BothContents, Images
<1>4. AbsBuf = [c \in Callers |-> Zeros(NoRequest)]
  BY ThreadsAssumption DEF Init, AbsBuf
<1>5. /\ AbsStage = [c \in Callers |-> "idle"] /\ AbsCount = [c \in Callers |-> 0]
      /\ AbsPhase = "none"
  BY DEF Init, AbsStage, AbsCount, AbsPhase
<1> QED
  BY <1>2, <1>3, <1>4, <1>5, SameData DEF Init, Atomic!Init, AbsImg

\* The mapping reads only the calls, the cycle, the image and the mutex.
LEMMA SetUpUnseen ==
  ASSUME UNCHANGED <<callVars, syncVars, img, ioOwner>>
  PROVE  UNCHANGED <<AbsIn, AbsOut, AbsWire, AbsHeartbeat, AbsStage, req, AbsBuf, AbsCount>>
<1> USE DEF callVars, syncVars
<1>1. AbsIn' = AbsIn
  BY DEF AbsIn, Writing
<1>2. AbsOut' = AbsOut
  BY DEF AbsOut
<1>3. AbsWire' = AbsWire
  BY DEF AbsWire
<1>4. AbsHeartbeat' = AbsHeartbeat
  BY DEF AbsHeartbeat, SyncInside
<1>5. AbsStage' = AbsStage
  BY DEF AbsStage
<1>6. AbsBuf' = AbsBuf
  BY DEF AbsBuf
<1>7. AbsCount' = AbsCount
  BY DEF AbsCount
<1> QED
  BY <1>1, <1>2, <1>3, <1>4, <1>5, <1>6, <1>7

LEMMA PhaseUnseen == UNCHANGED lifeVars => AbsPhase' = AbsPhase
BY DEF lifeVars, AbsPhase

LEMMA StutterMaps ==
  ASSUME UNCHANGED <<AbsPhase, AbsIn, AbsOut, AbsWire, AbsHeartbeat,
                     AbsStage, req, AbsBuf, AbsCount>>
  PROVE  UNCHANGED Atomic!vars
BY DEF Atomic!vars

\* Images have a size, so an unlinked one is never leaving.
LEMMA SizedOrNot == NoSizes # Cap
<1>1. NoSizes["in"] = 0 /\ Cap["in"] # 0
  BY CapType DEF NoSizes, Images
<1> QED
  BY <1>1

\* The set-up thread: Prepare, Attach, Detach, Leave, or nothing.
LEMMA SetUpMaps ==
  ASSUME Disciplined, Inv, SetUp
  PROVE  [Atomic!Next]_(Atomic!vars)
<1>1. CASE AllocImage
  <2>1. ioOwner \notin Callers /\ syncPc \notin {"fetch", "push"}
    BY <1>1, ThreadsAssumption
       DEF AllocImage, Inv, Safe, Lifetime, Guarded, Locks, Exclusion, TypeOK
  <2>2. UNCHANGED <<ioOwner, syncPc, wire, buf>>
    BY <1>1 DEF AllocImage, callVars, syncVars
  <2>3. AbsIn' = img'["in"] /\ AbsOut' = img'["out"]
    BY <2>1, <2>2 DEF AbsIn, AbsOut, Writing
  <2>4. img' \in BothContents
    BY <1>1 DEF AllocImage
  <2>5. AbsImg' \in BothContents
    BY <2>3, <2>4 DEF AbsImg, BothContents, Images
  <2>6. AbsWire' = AbsWire
    BY <1>1, <2>1, <2>2 DEF AbsWire
  <2>7. AbsHeartbeat' = AbsHeartbeat
    BY <1>1 DEF AllocImage, AbsHeartbeat, SyncInside, syncVars
  <2>8. AbsStage' = AbsStage
    BY <1>1 DEF AllocImage, AbsStage, callVars
  <2>9. AbsBuf' = AbsBuf
    <3>1. \A c \in Callers : ioOwner # c /\ ioOwner' # c
      BY <2>1, <2>2
    <3> QED
      BY <1>1, <3>1 DEF AllocImage, AbsBuf, callVars
  <2>10. AbsCount' = AbsCount
    BY <1>1 DEF AllocImage, AbsCount, callVars
  <2>11. AbsPhase = "none" /\ AbsPhase' = "none" /\ req' = req
    BY <1>1 DEF AllocImage, AbsPhase, callVars
  <2>12. Atomic!Prepare
    BY <2>5, <2>6, <2>7, <2>8, <2>9, <2>10, <2>11, SameData DEF Atomic!Prepare, AbsImg
  <2> QED
    BY <2>12 DEF Atomic!Next
<1>2. CASE PlwInit \/ LinkFails \/ ClearSizes \/ DestroyMutex
  <2>1. UNCHANGED <<callVars, syncVars, img, ioOwner>>
    BY <1>2 DEF PlwInit, LinkFails, ClearSizes, DestroyMutex
  <2>2. AbsPhase = "none" /\ AbsPhase' = "none"
    BY <1>2 DEF PlwInit, LinkFails, ClearSizes, DestroyMutex, AbsPhase
  <2> QED
    BY <2>1, <2>2, SetUpUnseen, StutterMaps
<1>3. CASE LinkImage
  <2>1. UNCHANGED <<callVars, syncVars, img, ioOwner>>
    BY <1>3 DEF LinkImage
  <2>2. AbsPhase = "none" /\ AbsPhase' = "attached"
    BY <1>3 DEF LinkImage, AbsPhase
  <2>3. Atomic!Attach
    BY <2>1, <2>2, SetUpUnseen DEF Atomic!Attach
  <2> QED
    BY <2>3 DEF Atomic!Next
<1>4. CASE FreeImage
  <2>1. UNCHANGED <<callVars, syncVars, img, ioOwner, size>> /\ NoCalls /\ life' = "freed"
    BY <1>4, DisciplinedAssumption DEF FreeImage
  <2>2. CASE life = "up"
    <3>1. \A c \in Callers : AbsStage[c] = "idle"
      BY <2>1 DEF NoCalls, AbsStage
    <3>2. AbsPhase = "attached" /\ AbsPhase' = "leaving"
      BY <2>1, <2>2 DEF AbsPhase, Inv, Safe, Lifetime, Stages
    <3>3. Atomic!Detach
      BY <2>1, <3>1, <3>2, SetUpUnseen DEF Atomic!Detach
    <3> QED
      BY <3>3 DEF Atomic!Next
  <2>3. CASE life # "up"
    <3>1. life \in {"created", "failed"} /\ size = NoSizes
      BY <1>4, <2>3 DEF FreeImage, Inv, Safe, Lifetime, Stages
    <3>2. AbsPhase = "none" /\ AbsPhase' = "none"
      BY <2>1, <3>1, SizedOrNot DEF AbsPhase
    <3> QED
      BY <2>1, <3>2, SetUpUnseen, StutterMaps
  <2> QED
    BY <2>2, <2>3
<1>5. CASE ClearPointers
  <2>1. UNCHANGED <<callVars, syncVars, img, ioOwner>> /\ AbsPhase' = "none"
    BY <1>5 DEF ClearPointers, AbsPhase
  <2>2. CASE size = Cap
    <3>1. Atomic!Leave
      BY <1>5, <2>1, <2>2, SetUpUnseen DEF Atomic!Leave, ClearPointers, AbsPhase
    <3> QED
      BY <3>1 DEF Atomic!Next
  <2>3. CASE size # Cap
    <3>1. AbsPhase = "none"
      BY <1>5, <2>3 DEF ClearPointers, AbsPhase
    <3> QED
      BY <2>1, <3>1, SetUpUnseen, StutterMaps
  <2> QED
    BY <2>2, <2>3
<1> QED
  BY <1>1, <1>2, <1>3, <1>4, <1>5 DEF SetUp

-----------------------------------------------------------------------------
(* The steps of a call. *)

\* A caller that is not copying holds no mutex, so the mapped images do not
\* depend on it.
LEMMA NotOwner ==
  ASSUME Inv, NEW c \in Callers, pc[c] # "copy"
  PROVE  ioOwner # c
BY DEF Inv, Safe, Locks, Exclusion

\* A step of a caller that leaves the holder's call and the image alone leaves
\* the mapped image, wire and counter alone.
LEMMA ImageUnseen ==
  ASSUME Inv, NEW c \in Callers, pc[c] # "copy",
         UNCHANGED <<lifeVars, syncVars, img, ioOwner>>,
         \A x \in Callers \ {c} : req'[x] = req[x] /\ buf'[x] = buf[x] /\ pos'[x] = pos[x]
  PROVE  UNCHANGED <<AbsPhase, AbsIn, AbsOut, AbsWire, AbsHeartbeat>>
<1> USE DEF lifeVars, syncVars
<1>1. ioOwner # c
  BY NotOwner
<1>2. AbsIn' = AbsIn
  <2>1. CASE ioOwner \in Callers
    <3>1. req'[ioOwner] = req[ioOwner] /\ buf'[ioOwner] = buf[ioOwner] /\ pos'[ioOwner] = pos[ioOwner]
      BY <1>1, <2>1
    <3> QED
      BY <2>1, <3>1 DEF AbsIn, Writing
  <2>2. CASE ioOwner \notin Callers
    BY <2>2 DEF AbsIn, Writing
  <2> QED
    BY <2>1, <2>2
<1>3. AbsOut' = AbsOut
  BY DEF AbsOut
<1>4. AbsWire' = AbsWire
  BY DEF AbsWire
<1>5. AbsHeartbeat' = AbsHeartbeat
  BY DEF AbsHeartbeat, SyncInside
<1>6. AbsPhase' = AbsPhase
  BY PhaseUnseen
<1> QED
  BY <1>2, <1>3, <1>4, <1>5, <1>6

LEMMA CallMaps ==
  ASSUME Inv, NEW c \in Callers, NEW q \in Requests, NEW d \in Buffers(q), Call(c, q, d)
  PROVE  Atomic!Next
<1>1. pc[c] = "idle" /\ count[c] = 0 /\ ioOwner # c /\ AbsStage[c] = "idle"
  <2>1. pc[c] = "idle"
    BY DEF Call
  <2>2. req[c] = NoRequest /\ count[c] = 0
    BY <2>1, NoRequestFields DEF Inv, Safe, TypeOK, IdleIsBlank
  <2> QED
    BY <2>1, <2>2, NotOwner DEF AbsStage
<1>2. UNCHANGED <<AbsPhase, AbsIn, AbsOut, AbsWire, AbsHeartbeat>>
  <2>1. \A x \in Callers \ {c} : req'[x] = req[x] /\ buf'[x] = buf[x] /\ pos'[x] = pos[x]
    BY DEF Call, Inv, Safe, TypeOK
  <2> QED
    BY <1>1, <2>1, ImageUnseen DEF Call
<1>3. AbsStage' = [AbsStage EXCEPT ![c] = "called"]
  BY DEF Call, AbsStage, Inv, Safe, TypeOK
<1>4. AbsBuf' = [AbsBuf EXCEPT ![c] = d]
  BY <1>1 DEF Call, AbsBuf, Inv, Safe, TypeOK
<1>5. AbsCount' = [AbsCount EXCEPT ![c] = 0]
  BY <1>1 DEF Call, AbsCount, Inv, Safe, TypeOK
<1>6. req' = [req EXCEPT ![c] = q]
  BY DEF Call
<1>7. Atomic!Invoke(c, q, d)
  BY <1>1, <1>2, <1>3, <1>4, <1>5, <1>6 DEF Atomic!Invoke
<1>8. q \in Atomic!Requests /\ d \in Atomic!Buffers(q)
  BY SameData
<1> QED
  BY <1>7, <1>8 DEF Atomic!Next

\* Waiting for the writers' lock and passing the check are not seen.
LEMMA WaitMaps ==
  ASSUME Inv, NEW c \in Callers, TakePyLock(c) \/ (Check(c) /\ Accessible(req[c]))
  PROVE  UNCHANGED Atomic!vars
<1>1. /\ pc[c] \in {"py", "check"}
      /\ \E p \in {"check", "lock"} : pc' = [pc EXCEPT ![c] = p]
      /\ UNCHANGED <<lifeVars, syncVars, img, ioOwner, req, buf, pos, count>>
  BY DEF TakePyLock, Check
<1>2. UNCHANGED <<AbsPhase, AbsIn, AbsOut, AbsWire, AbsHeartbeat>>
  BY <1>1, ImageUnseen
<1>3. AbsStage' = AbsStage
  BY <1>1 DEF AbsStage, Inv, Safe, TypeOK
<1>4. AbsBuf' = AbsBuf
  BY <1>1 DEF AbsBuf
<1>5. AbsCount' = AbsCount
  BY <1>1 DEF AbsCount, Inv, Safe, TypeOK
<1> QED
  BY <1>1, <1>2, <1>3, <1>4, <1>5, StutterMaps

\* A failed check refuses a window that does not lie in an attached image.
LEMMA RefusalMaps ==
  ASSUME Inv, NEW c \in Callers, Check(c), ~Accessible(req[c])
  PROVE  Atomic!Next
<1>1. /\ pc[c] = "check"
      /\ pc' = [pc EXCEPT ![c] = "return"]
      /\ UNCHANGED <<lifeVars, syncVars, img, ioOwner, req, buf, pos, count>>
  BY DEF Check
<1>2. UNCHANGED <<AbsPhase, AbsIn, AbsOut, AbsWire, AbsHeartbeat>>
  BY <1>1, ImageUnseen
<1>3. AbsStage[c] = "called" /\ AbsStage' = [AbsStage EXCEPT ![c] = "done"]
  BY <1>1 DEF AbsStage, Inv, Safe, TypeOK
<1>4. AbsBuf' = AbsBuf
  BY <1>1 DEF AbsBuf
<1>5. AbsCount' = AbsCount
  BY <1>1 DEF AbsCount, Inv, Safe, TypeOK
<1>6. AbsPhase # "attached" \/ ~Atomic!Fits(req[c])
  BY SameData DEF AbsPhase, Accessible, Atomic!Fits, Inv, Safe, Lifetime, Stages
<1>7. Atomic!Refuse(c)
  BY <1>1, <1>2, <1>3, <1>4, <1>5, <1>6 DEF Atomic!Refuse
<1> QED
  BY <1>7 DEF Atomic!Next

\* Taking the mutex transfers the whole window.
LEMMA LockMaps ==
  ASSUME Inv, NEW c \in Callers, Lock(c)
  PROVE  Atomic!Next
<1> DEFINE q == req[c]
<1>1. /\ pc[c] = "lock" /\ ioOwner = NoOne /\ ioOwner' = c
      /\ pc' = [pc EXCEPT ![c] = "copy"]
      /\ UNCHANGED <<lifeVars, syncVars, img, req, buf, pos, count, pyOwner>>
  BY DEF Lock, MutexFree
<1>2. ioOwner \notin Callers /\ syncPc \notin {"fetch", "push"}
  BY <1>1, ThreadsAssumption DEF Inv, Safe, Locks, Exclusion, SyncInside
<1>3. AbsIn = img["in"] /\ AbsOut = img["out"] /\ AbsWire = wire /\ AbsBuf = buf
  BY <1>2, NoOneInside
<1>4. AbsOut' = AbsOut /\ AbsWire' = AbsWire /\ AbsHeartbeat' = AbsHeartbeat
  <2>1. AbsOut' = img["out"]
    BY <1>1, <1>2 DEF AbsOut, syncVars
  <2>2. AbsWire' = wire
    BY <1>1, <1>2 DEF AbsWire, syncVars
  <2>3. AbsHeartbeat' = AbsHeartbeat
    BY <1>1 DEF AbsHeartbeat, SyncInside, syncVars
  <2> QED
    BY <1>3, <2>1, <2>2, <2>3
<1>5. AbsPhase = "attached" /\ AbsPhase' = "attached" /\ Atomic!Fits(q)
  <2>1. q.off + q.len <= Cap[q.op.img]
    BY <1>1 DEF Inv, Safe, InBounds
  <2> QED
    BY <1>1, <2>1, SameData DEF AbsPhase, Inv, Safe, Lifetime, Guarded, Atomic!Fits, lifeVars
<1>6. AbsStage[c] = "called" /\ AbsStage' = [AbsStage EXCEPT ![c] = "done"]
  BY <1>1 DEF AbsStage, Inv, Safe, TypeOK
<1>7. AbsCount' = [AbsCount EXCEPT ![c] = q.len]
  BY <1>1 DEF AbsCount, Inv, Safe, TypeOK
<1>8. /\ q.op.write \in BOOLEAN /\ q.op.img \in Images /\ (q.op.write => q.op.img = "in")
      /\ q.off \in Nat /\ q.len \in Nat /\ pos[c] = q.off
  BY <1>1, RequestFields DEF Inv, Safe, TypeOK, Shape, CallShape
<1>9. \A b \in Span(q) : b >= pos[c]
  BY <1>8 DEF Span
<1>10. CASE q.op.write
  <2>1. AbsIn' = [b \in 0 .. Cap["in"] - 1 |->
                    IF b \in Span(q) THEN buf[c][b] ELSE img["in"][b]]
    BY <1>1, <1>9, <1>10 DEF AbsIn, Writing, Cap, Images
  <2>2. AbsBuf' = AbsBuf
    BY <1>1, <1>2, <1>10 DEF AbsBuf
  <2> DEFINE new == [b \in 0 .. Cap[q.op.img] - 1 |->
                       IF b \in Span(q) THEN AbsBuf[c][b] ELSE AbsImg[q.op.img][b]]
  <2>3. AbsIn' = new
    BY <1>3, <1>8, <1>10, <2>1 DEF AbsImg
  <2> HIDE DEF new
  <2>4. AbsImg' = [AbsImg EXCEPT ![q.op.img] = new]
    BY <1>4, <1>8, <1>10, <2>3 DEF AbsImg
  <2>5. Atomic!Transfer(c)
    <3>1. UNCHANGED <<AbsPhase, AbsWire, AbsHeartbeat, req>>
      BY <1>1, <1>4, <1>5
    <3>2. AbsImg' = [AbsImg EXCEPT ![q.op.img] =
                       [b \in 0 .. Atomic!Cap[q.op.img] - 1 |->
                          IF b \in Atomic!Span(q) THEN AbsBuf[c][b] ELSE AbsImg[q.op.img][b]]]
      BY <2>4, SameData DEF new
    <3> QED
      BY <1>5, <1>6, <1>7, <1>10, <2>2, <3>1, <3>2 DEF Atomic!Transfer, AbsImg
  <2> QED
    BY <2>5 DEF Atomic!Next
<1>11. CASE ~q.op.write
  <2>1. AbsIn' = AbsIn
    BY <1>1, <1>3, <1>11 DEF AbsIn, Writing
  <2>2. AbsBuf' = [AbsBuf EXCEPT ![c] = [b \in Span(q) |-> img[q.op.img][b]]]
    BY <1>1, <1>2, <1>9, <1>11 DEF AbsBuf
  <2>3. AbsImg[q.op.img] = img[q.op.img]
    BY <1>3, <1>8 DEF AbsImg, Images
  <2>4. Atomic!Transfer(c)
    BY <1>1, <1>4, <1>5, <1>6, <1>7, <1>8, <1>11, <2>1, <2>2, <2>3, SameData
       DEF Atomic!Transfer, AbsImg
  <2> QED
    BY <2>4 DEF Atomic!Next
<1> QED
  BY <1>8, <1>10, <1>11

\* Whoever copies owns the mutex, so no cycle is moving bytes.
LEMMA CopierAlone ==
  ASSUME Inv, NEW c \in Callers, pc[c] = "copy"
  PROVE  ioOwner = c /\ ~SyncInside /\ \A x \in Callers : x # c => ioOwner # x
BY ThreadsAssumption DEF Inv, Safe, Locks, Exclusion

\* What the copied byte adds to the image, or to the buffer, was counted in.
LEMMA CopyMaps ==
  ASSUME Inv, NEW c \in Callers, CopyByte(c)
  PROVE  UNCHANGED Atomic!vars
<1> DEFINE q == req[c]
           i == req[c].op.img
           b == pos[c]
<1>1. /\ pc[c] = "copy" /\ b \in Span(q)
      /\ pos' = [pos EXCEPT ![c] = b + 1]
      /\ UNCHANGED <<lifeVars, syncVars, ioOwner, pc, req, count, pyOwner>>
  BY DEF CopyByte
<1>2. ioOwner = c /\ ioOwner' = c /\ ~SyncInside
  BY <1>1, CopierAlone
<1>3. AbsStage' = AbsStage /\ AbsCount' = AbsCount /\ AbsHeartbeat' = AbsHeartbeat
  <2>1. AbsStage' = AbsStage
    BY <1>1 DEF AbsStage
  <2>2. AbsCount' = AbsCount
    BY <1>1 DEF AbsCount
  <2>3. AbsHeartbeat' = AbsHeartbeat
    BY <1>1 DEF AbsHeartbeat, SyncInside, syncVars
  <2> QED
    BY <2>1, <2>2, <2>3
<1>4. AbsWire' = AbsWire
  BY <1>1, <1>2 DEF AbsWire, SyncInside, syncVars
<1>5. /\ q.op.write \in BOOLEAN /\ i \in Images /\ (q.op.write => i = "in")
      /\ q.off \in Nat /\ q.len \in Nat /\ b \in Nat /\ pos'[c] = b + 1
  <2>1. q \in Requests \cup {NoRequest}
    BY DEF Inv, Safe, TypeOK
  <2>2. /\ q.op.write \in BOOLEAN /\ i \in Images /\ (q.op.write => i = "in")
        /\ q.off \in Nat /\ q.len \in Nat
    BY <2>1, RequestFields
  <2>3. b \in Nat
    BY <1>1, <2>2 DEF Span
  <2>4. pos'[c] = b + 1
    BY <1>1 DEF Inv, Safe, TypeOK
  <2> QED
    BY <2>2, <2>3, <2>4
<1>6. \A x \in Span(q) : x \in Nat /\ (x >= b <=> x = b \/ x >= b + 1)
  BY <1>5 DEF Span
<1>7. CASE q.op.write
  <2>1. img' = [img EXCEPT !["in"] = [img["in"] EXCEPT ![b] = buf[c][b]]] /\ buf' = buf
    BY <1>5, <1>7 DEF CopyByte
  <2>2. img["in"] \in [0 .. InSize - 1 -> Byte] /\ img \in BothContents
    BY DEF Inv, Safe, TypeOK, BothContents, Contents, Cap, Images
  <2>3. \A x \in 0 .. InSize - 1 : img'["in"][x] = IF x = b THEN buf[c][b] ELSE img["in"][x]
    BY <2>1, <2>2 DEF BothContents
  <2>4. img'["out"] = img["out"]
    BY <2>1, <2>2 DEF BothContents
  <2>5. AbsIn' = AbsIn
    <3>1. AbsIn = [x \in 0 .. InSize - 1 |->
                     IF x \in Span(q) /\ x >= b THEN buf[c][x] ELSE img["in"][x]]
      BY <1>2, <1>7 DEF AbsIn, Writing
    <3>2. AbsIn' = [x \in 0 .. InSize - 1 |->
                      IF x \in Span(q) /\ x >= b + 1 THEN buf[c][x] ELSE img'["in"][x]]
      BY <1>1, <1>2, <1>5, <1>7, <2>1 DEF AbsIn, Writing
    <3> QED
      BY <1>1, <1>6, <2>3, <3>1, <3>2
  <2>6. AbsOut' = AbsOut
    BY <1>1, <1>2, <2>4 DEF AbsOut, SyncInside, syncVars
  <2>7. AbsBuf' = AbsBuf
    <3>1. \A x \in Callers : ~(ioOwner = x /\ ~req[x].op.write)
      BY <1>2, <1>7
    <3> QED
      BY <1>1, <2>1, <3>1 DEF AbsBuf
  <2> QED
    BY <1>1, <1>3, <1>4, <2>5, <2>6, <2>7, PhaseUnseen, StutterMaps
<1>8. CASE ~q.op.write
  <2>1. buf' = [buf EXCEPT ![c] = [buf[c] EXCEPT ![b] = img[i][b]]] /\ img' = img
    BY <1>5, <1>8 DEF CopyByte
  <2>2. AbsIn' = AbsIn
    BY <1>1, <1>2, <1>8, <2>1 DEF AbsIn, Writing
  <2>3. AbsOut' = AbsOut
    BY <1>1, <1>2, <2>1 DEF AbsOut, SyncInside, syncVars
  <2>4. AbsBuf' = AbsBuf
    <3>1. buf = [x \in Callers |-> buf[x]] /\ buf[c] \in [Span(q) -> Byte]
      BY DEF Inv, Safe, TypeOK
    <3>2. \A x \in Span(q) : buf'[c][x] = IF x = b THEN img[i][b] ELSE buf[c][x]
      BY <2>1, <3>1
    <3>3. \A x \in Callers : x # c => buf'[x] = buf[x]
      BY <2>1, <3>1
    <3>4. [x \in Span(q) |-> IF x >= b + 1 THEN img[i][x] ELSE buf'[c][x]]
            = [x \in Span(q) |-> IF x >= b THEN img[i][x] ELSE buf[c][x]]
      BY <1>6, <3>2
    <3>5. AbsBuf = [x \in Callers |->
                     IF x = c THEN [y \in Span(q) |-> IF y >= b THEN img[i][y] ELSE buf[c][y]]
                              ELSE buf[x]]
      BY <1>2, <1>8 DEF AbsBuf
    <3>6. AbsBuf' = [x \in Callers |->
                      IF x = c THEN [y \in Span(q) |-> IF y >= b + 1 THEN img[i][y] ELSE buf'[c][y]]
                               ELSE buf'[x]]
      BY <1>1, <1>2, <1>5, <1>8, <2>1 DEF AbsBuf
    <3> QED
      BY <3>3, <3>4, <3>5, <3>6
  <2> QED
    BY <1>1, <1>3, <1>4, <2>2, <2>3, <2>4, PhaseUnseen, StutterMaps
<1> QED
  BY <1>5, <1>7, <1>8

\* When the mutex is released nothing is left to count in.
LEMMA UnlockMaps ==
  ASSUME Inv, NEW c \in Callers, Unlock(c)
  PROVE  UNCHANGED Atomic!vars
<1> DEFINE q == req[c]
<1>1. /\ pc[c] = "copy" /\ pos[c] \notin Span(q) /\ ioOwner' = NoOne
      /\ count' = [count EXCEPT ![c] = q.len]
      /\ pc' = [pc EXCEPT ![c] = "return"]
      /\ UNCHANGED <<lifeVars, syncVars, img, req, buf, pos, pyOwner>>
  BY DEF Unlock
<1>2. ioOwner = c /\ ~SyncInside /\ \A x \in Callers : ioOwner' # x
  BY <1>1, CopierAlone, ThreadsAssumption
<1>3. \A x \in Span(q) : ~(x >= pos[c])
  <2>1. q.off \in Nat /\ q.len \in Nat /\ pos[c] \in q.off .. q.off + q.len
    BY RequestFields DEF Inv, Safe, TypeOK
  <2> QED
    BY <1>1, <2>1 DEF Span
<1>4. AbsStage' = AbsStage
  BY <1>1 DEF AbsStage, Inv, Safe, TypeOK
<1>5. AbsCount' = AbsCount
  BY <1>1 DEF AbsCount, Inv, Safe, TypeOK
<1>6. AbsOut' = AbsOut /\ AbsWire' = AbsWire
  BY <1>1, <1>2 DEF AbsOut, AbsWire, SyncInside, syncVars
<1>7. AbsHeartbeat' = AbsHeartbeat
  BY <1>1 DEF AbsHeartbeat, SyncInside, syncVars
<1>8. AbsIn' = AbsIn
  <2>1. AbsIn' = img["in"]
    BY <1>1, ThreadsAssumption DEF AbsIn, Writing
  <2>2. img["in"] = [b \in 0 .. InSize - 1 |-> img["in"][b]]
    BY DEF Inv, Safe, TypeOK, BothContents, Contents, Cap, Images
  <2>3. AbsIn = img["in"]
    BY <1>2, <1>3, <2>2 DEF AbsIn, Writing
  <2> QED
    BY <2>1, <2>3
<1>9. AbsBuf' = AbsBuf
  <2>1. AbsBuf' = [x \in Callers |-> buf[x]]
    BY <1>1, <1>2 DEF AbsBuf
  <2>2. buf[c] = [b \in Span(q) |-> buf[c][b]]
    BY DEF Inv, Safe, TypeOK
  <2>3. [b \in Span(q) |-> IF b >= pos[c] THEN img[q.op.img][b] ELSE buf[c][b]] = buf[c]
    BY <1>3, <2>2
  <2>4. AbsBuf = [x \in Callers |-> buf[x]]
    BY <1>2, <2>3 DEF AbsBuf
  <2> QED
    BY <2>1, <2>4
<1> QED
  BY <1>1, <1>4, <1>5, <1>6, <1>7, <1>8, <1>9, PhaseUnseen, StutterMaps

LEMMA ReturnMaps ==
  ASSUME Inv, NEW c \in Callers, Return(c)
  PROVE  Atomic!Next
<1>1. /\ pc[c] = "return"
      /\ pc' = [pc EXCEPT ![c] = "idle"]
      /\ req' = [req EXCEPT ![c] = NoRequest]
      /\ buf' = [buf EXCEPT ![c] = Zeros(NoRequest)]
      /\ pos' = [pos EXCEPT ![c] = 0]
      /\ count' = [count EXCEPT ![c] = 0]
      /\ UNCHANGED <<lifeVars, syncVars, img, ioOwner>>
  BY DEF Return
<1>2. ioOwner # c
  BY <1>1, NotOwner
<1>3. UNCHANGED <<AbsPhase, AbsIn, AbsOut, AbsWire, AbsHeartbeat>>
  <2>1. \A x \in Callers \ {c} : req'[x] = req[x] /\ buf'[x] = buf[x] /\ pos'[x] = pos[x]
    BY <1>1 DEF Inv, Safe, TypeOK
  <2> QED
    BY <1>1, <2>1, ImageUnseen
<1>4. AbsStage[c] = "done" /\ AbsStage' = [AbsStage EXCEPT ![c] = "idle"]
  BY <1>1 DEF AbsStage, Inv, Safe, TypeOK
<1>5. AbsBuf' = [AbsBuf EXCEPT ![c] = Zeros(NoRequest)]
  BY <1>1, <1>2 DEF AbsBuf, Inv, Safe, TypeOK
<1>6. AbsCount' = [AbsCount EXCEPT ![c] = 0]
  BY <1>1 DEF AbsCount, Inv, Safe, TypeOK
<1>7. Atomic!Respond(c)
  BY <1>1, <1>3, <1>4, <1>5, <1>6, SameData DEF Atomic!Respond
<1> QED
  BY <1>7 DEF Atomic!Next

-----------------------------------------------------------------------------
(* The steps of a cycle. *)

\* While a cycle is inside, no caller is.
LEMMA CycleAlone ==
  ASSUME Inv, SyncInside
  PROVE  ioOwner = Sync /\ \A c \in Callers : ioOwner # c
BY ThreadsAssumption DEF Inv, Safe, Locks, Exclusion

\* A step of the cycle is not seen by the calls.
LEMMA CallsUnseen ==
  ASSUME UNCHANGED callVars, \A c \in Callers : ioOwner # c /\ ioOwner' # c
  PROVE  UNCHANGED <<AbsStage, req, AbsBuf, AbsCount>>
<1>1. AbsStage' = AbsStage
  BY DEF AbsStage, callVars
<1>2. AbsBuf' = AbsBuf
  BY DEF AbsBuf, callVars
<1>3. AbsCount' = AbsCount
  BY DEF AbsCount, callVars
<1> QED
  BY <1>1, <1>2, <1>3 DEF callVars

LEMMA SyncEventMaps ==
  ASSUME Inv, SyncEvent
  PROVE  UNCHANGED Atomic!vars
<1> USE DEF SyncEvent, callVars, lifeVars
<1>1. AbsIn' = AbsIn
  BY DEF AbsIn, Writing
<1>2. AbsOut' = AbsOut
  BY DEF AbsOut
<1>3. AbsWire' = AbsWire
  BY DEF AbsWire
<1>4. AbsHeartbeat' = AbsHeartbeat
  BY DEF AbsHeartbeat, SyncInside
<1>5. AbsStage' = AbsStage
  BY DEF AbsStage
<1>6. AbsBuf' = AbsBuf
  BY DEF AbsBuf
<1>7. AbsCount' = AbsCount
  BY DEF AbsCount
<1> QED
  BY <1>1, <1>2, <1>3, <1>4, <1>5, <1>6, <1>7, PhaseUnseen, StutterMaps

\* Taking the mutex is the whole exchange.
LEMMA SyncLockMaps ==
  ASSUME Inv, NEW o \in Outcomes, NEW f \in Contents("out"), SyncLock(o, f)
  PROVE  Atomic!Next
<1>1. /\ syncPc = "lock" /\ ioOwner = NoOne /\ ioOwner' = Sync
      /\ outcome' = o /\ frame' = f /\ syncPos' = 0 /\ syncPc' = FirstExchange(o)
      /\ UNCHANGED <<lifeVars, callVars, img, wire, heartbeat>>
  BY DEF SyncLock, MutexFree
<1>2. \A c \in Callers : ioOwner # c /\ ioOwner' # c
  BY <1>1, ThreadsAssumption
<1>3. AbsIn = img["in"] /\ AbsOut = img["out"] /\ AbsWire = wire /\ AbsHeartbeat = heartbeat
  <2>1. ioOwner \notin Callers /\ syncPc \notin {"fetch", "push"}
    BY <1>1, <1>2
  <2> QED
    BY <1>1, <2>1, NoOneInside DEF AbsHeartbeat, SyncInside
<1>4. AbsPhase # "none" /\ AbsPhase' = AbsPhase
  BY <1>1, PhaseUnseen DEF AbsPhase, Inv, Safe, Lifetime, Guarded
<1>5. UNCHANGED <<AbsStage, req, AbsBuf, AbsCount>>
  BY <1>1, <1>2, CallsUnseen
<1>6. AbsIn' = img["in"]
  BY <1>1, <1>2 DEF AbsIn, Writing
<1>7. AbsHeartbeat' = (AbsHeartbeat + 1) % HeartbeatModulus
  BY <1>1, <1>3 DEF AbsHeartbeat, SyncInside, FirstExchange
<1>8. AbsOut' = IF o = "none" THEN img["out"] ELSE f
  <2>1. CASE o = "none"
    BY <1>1, <2>1 DEF AbsOut, FirstExchange
  <2>2. CASE o # "none"
    <3>1. AbsOut' = [b \in 0 .. OutSize - 1 |-> IF b >= 0 THEN f[b] ELSE img["out"][b]]
      BY <1>1, <2>2 DEF AbsOut, FirstExchange
    <3>2. f = [b \in 0 .. OutSize - 1 |-> f[b]]
      BY DEF Contents, Cap, Images
    <3>3. \A b \in 0 .. OutSize - 1 : b >= 0
      BY SizesAssumption
    <3> QED
      BY <2>2, <3>1, <3>2, <3>3
  <2> QED
    BY <2>1, <2>2
<1>9. AbsWire' = IF o = "both" THEN img["in"] ELSE wire
  <2>1. CASE o = "both"
    <3>1. AbsWire' = [b \in 0 .. InSize - 1 |-> img["in"][b]]
      BY <1>1, <2>1 DEF AbsWire, FirstExchange
    <3>2. img["in"] = [b \in 0 .. InSize - 1 |-> img["in"][b]]
      BY DEF Inv, Safe, TypeOK, BothContents, Contents, Cap, Images
    <3> QED
      BY <2>1, <3>1, <3>2
  <2>2. CASE o # "both"
    BY <1>1, <2>2 DEF AbsWire
  <2> QED
    BY <2>1, <2>2
<1>10. AbsImg' = IF o = "none" THEN AbsImg ELSE [AbsImg EXCEPT !["out"] = f]
  BY <1>3, <1>6, <1>8 DEF AbsImg
<1>11. Atomic!Exchange(o, f)
  BY <1>3, <1>4, <1>5, <1>7, <1>9, <1>10 DEF Atomic!Exchange, AbsImg
<1> QED
  BY <1>11, SameData DEF Atomic!Next

\* Bytes the cycle moves were counted in when it took the mutex, as long as
\* there is an image.
LEMMA SyncMoveMaps ==
  ASSUME Inv, SyncFetchByte \/ SyncFetched \/ (SyncPushByte /\ mem) \/ SyncPushed
  PROVE  UNCHANGED Atomic!vars
<1>1. SyncInside /\ SyncInside' /\ UNCHANGED <<lifeVars, callVars, ioOwner, outcome, frame, heartbeat>>
  BY DEF SyncFetchByte, SyncFetched, SyncPushByte, SyncPushed, SyncInside
<1>2. ioOwner \notin Callers /\ \A c \in Callers : ioOwner # c /\ ioOwner' # c
  BY <1>1, CycleAlone
<1>3. UNCHANGED <<AbsStage, req, AbsBuf, AbsCount>>
  BY <1>1, <1>2, CallsUnseen
<1>4. AbsHeartbeat' = AbsHeartbeat
  BY <1>1 DEF AbsHeartbeat
<1>5. AbsIn = img["in"] /\ AbsIn' = img'["in"]
  BY <1>1, <1>2 DEF AbsIn, Writing
<1>6. SUFFICES img'["in"] = img["in"] /\ AbsOut' = AbsOut /\ AbsWire' = AbsWire
  BY <1>1, <1>3, <1>4, <1>5, PhaseUnseen, StutterMaps
<1>7. /\ img \in BothContents /\ syncPos \in Int
      /\ img["out"] = [b \in 0 .. OutSize - 1 |-> img["out"][b]]
      /\ frame = [b \in 0 .. OutSize - 1 |-> frame[b]]
      /\ img["in"] = [b \in 0 .. InSize - 1 |-> img["in"][b]]
      /\ wire = [b \in 0 .. InSize - 1 |-> wire[b]]
  BY SizesAssumption DEF Inv, Safe, TypeOK, BothContents, Contents, Cap, Images
<1>8. CASE SyncFetchByte
  <2>1. /\ syncPc = "fetch" /\ syncPc' = "fetch" /\ syncPos < OutSize
        /\ syncPos' = syncPos + 1 /\ UNCHANGED <<outcome, frame, wire>>
        /\ img' = [img EXCEPT !["out"] = [img["out"] EXCEPT ![syncPos] = frame[syncPos]]]
    BY <1>8 DEF SyncFetchByte
  <2>2. img'["in"] = img["in"]
    BY <1>7, <2>1 DEF BothContents
  <2>3. \A b \in 0 .. OutSize - 1 :
          img'["out"][b] = IF b = syncPos THEN frame[syncPos] ELSE img["out"][b]
    BY <1>7, <2>1 DEF BothContents, Contents, Cap, Images
  <2>4. AbsOut' = AbsOut
    <3>1. AbsOut = [b \in 0 .. OutSize - 1 |-> IF b >= syncPos THEN frame[b] ELSE img["out"][b]]
      BY <2>1 DEF AbsOut
    <3>2. AbsOut' = [b \in 0 .. OutSize - 1 |->
                       IF b >= syncPos + 1 THEN frame[b] ELSE img'["out"][b]]
      BY <2>1 DEF AbsOut
    <3>3. \A b \in 0 .. OutSize - 1 : b >= syncPos <=> b = syncPos \/ b >= syncPos + 1
      BY <1>7, SizesAssumption
    <3> QED
      BY <2>3, <3>1, <3>2, <3>3
  <2>5. AbsWire' = AbsWire
    BY <2>1, <2>2 DEF AbsWire
  <2> QED
    BY <2>2, <2>4, <2>5
<1>9. CASE SyncFetched
  <2>1. /\ syncPc = "fetch" /\ syncPos = OutSize /\ syncPos' = 0
        /\ syncPc' = (IF outcome = "both" THEN "push" ELSE "bump")
        /\ UNCHANGED <<img, outcome, frame, wire>>
    BY <1>9 DEF SyncFetched
  <2>2. AbsOut' = AbsOut
    <3>1. AbsOut = [b \in 0 .. OutSize - 1 |-> IF b >= OutSize THEN frame[b] ELSE img["out"][b]]
      BY <2>1 DEF AbsOut
    <3>2. \A b \in 0 .. OutSize - 1 : ~(b >= OutSize)
      BY SizesAssumption
    <3>3. AbsOut = img["out"]
      BY <1>7, <3>1, <3>2
    <3>4. AbsOut' = img["out"]
      BY <2>1 DEF AbsOut
    <3> QED
      BY <3>3, <3>4
  <2>3. AbsWire' = AbsWire
    <3>1. CASE outcome = "both"
      <4>1. AbsWire = [b \in 0 .. InSize - 1 |-> img["in"][b]]
        BY <2>1, <3>1 DEF AbsWire
      <4>2. AbsWire' = [b \in 0 .. InSize - 1 |-> IF b < 0 THEN wire[b] ELSE img["in"][b]]
        BY <2>1, <3>1 DEF AbsWire
      <4>3. \A b \in 0 .. InSize - 1 : ~(b < 0)
        BY SizesAssumption
      <4> QED
        BY <4>1, <4>2, <4>3
    <3>2. CASE outcome # "both"
      BY <2>1, <3>2 DEF AbsWire
    <3> QED
      BY <3>1, <3>2
  <2> QED
    BY <2>1, <2>2, <2>3
<1>10. CASE SyncPushByte /\ mem
  <2>1. /\ syncPc = "push" /\ syncPc' = "push" /\ syncPos < InSize
        /\ syncPos' = syncPos + 1 /\ UNCHANGED <<img, outcome, frame>>
        /\ wire' = [wire EXCEPT ![syncPos] = img["in"][syncPos]]
        /\ outcome = "both"
    BY <1>10 DEF SyncPushByte, Inv, Shape, CycleShape
  <2>2. AbsOut' = AbsOut
    BY <2>1 DEF AbsOut
  <2>3. AbsWire' = AbsWire
    <3>1. AbsWire = [b \in 0 .. InSize - 1 |-> IF b < syncPos THEN wire[b] ELSE img["in"][b]]
      BY <2>1 DEF AbsWire
    <3>2. AbsWire' = [b \in 0 .. InSize - 1 |->
                        IF b < syncPos + 1 THEN wire'[b] ELSE img["in"][b]]
      BY <2>1 DEF AbsWire
    <3>3. \A b \in 0 .. InSize - 1 : wire'[b] = IF b = syncPos THEN img["in"][b] ELSE wire[b]
      BY <1>7, <2>1
    <3>4. \A b \in 0 .. InSize - 1 : b < syncPos + 1 <=> b = syncPos \/ b < syncPos
      BY <1>7, SizesAssumption
    <3> QED
      BY <1>7, <3>1, <3>2, <3>3, <3>4
  <2> QED
    BY <2>1, <2>2, <2>3
<1>11. CASE SyncPushed
  <2>1. /\ syncPc = "push" /\ syncPos = InSize /\ syncPc' = "bump"
        /\ UNCHANGED <<img, outcome, frame, wire>> /\ outcome = "both"
    BY <1>11 DEF SyncPushed, Inv, Shape, CycleShape
  <2>2. AbsOut' = AbsOut
    BY <2>1 DEF AbsOut
  <2>3. AbsWire' = AbsWire
    <3>1. AbsWire = [b \in 0 .. InSize - 1 |-> IF b < InSize THEN wire[b] ELSE img["in"][b]]
      BY <2>1 DEF AbsWire
    <3>2. \A b \in 0 .. InSize - 1 : b < InSize
      BY SizesAssumption
    <3>3. AbsWire = wire
      BY <1>7, <3>1, <3>2
    <3>4. AbsWire' = wire
      BY <2>1 DEF AbsWire
    <3> QED
      BY <3>3, <3>4
  <2> QED
    BY <2>1, <2>2, <2>3
<1> QED
  BY <1>8, <1>9, <1>10, <1>11

\* What a cycle sends of an image that was freed under it.
LEMMA SyncSpoilMaps ==
  ASSUME Inv, SyncPushByte, ~mem
  PROVE  Atomic!Next
<1>1. /\ syncPc = "push" /\ syncPc' = "push" /\ syncPos < InSize
      /\ syncPos' = syncPos + 1 /\ UNCHANGED <<lifeVars, callVars, img, ioOwner, outcome, frame>>
      /\ heartbeat' = heartbeat
      /\ SyncInside /\ SyncInside' /\ outcome = "both"
  BY DEF SyncPushByte, SyncInside, Inv, Shape, CycleShape
<1>2. ioOwner \notin Callers /\ \A c \in Callers : ioOwner # c /\ ioOwner' # c
  BY <1>1, CycleAlone
<1>3. UNCHANGED <<AbsStage, req, AbsBuf, AbsCount>>
  BY <1>1, <1>2, CallsUnseen
<1>4. AbsHeartbeat' = AbsHeartbeat
  BY <1>1 DEF AbsHeartbeat
<1>5. AbsIn' = AbsIn /\ AbsOut' = AbsOut
  BY <1>1, <1>2 DEF AbsIn, AbsOut, Writing
<1>6. AbsPhase = "leaving" /\ AbsPhase' = AbsPhase
  <2>1. life = "freed" /\ size = Cap
    BY <1>1 DEF Inv, Safe, Lifetime, Guarded, Stages
  <2> QED
    BY <1>1, <2>1, PhaseUnseen DEF AbsPhase
<1>7. AbsWire' \in Contents("in")
  <2>1. wire' \in Contents("in") /\ img["in"] \in Contents("in")
    <3>1. TypeOK'
      BY NextType DEF Inv, Safe, Next, SyncThread
    <3> QED
      BY <3>1, GetImage DEF TypeOK, Inv, Safe, Images
  <2>2. AbsWire' = [b \in 0 .. InSize - 1 |-> IF b < syncPos' THEN wire'[b] ELSE img["in"][b]]
    BY <1>1 DEF AbsWire
  <2>3. \A b \in 0 .. InSize - 1 : wire'[b] \in Byte /\ img["in"][b] \in Byte
    BY <2>1 DEF Contents, Cap, Images
  <2> QED
    BY <2>2, <2>3 DEF Contents, Cap, Images
<1>8. Atomic!Spoil
  BY <1>3, <1>4, <1>5, <1>6, <1>7, SameData DEF Atomic!Spoil
<1> QED
  BY <1>8 DEF Atomic!Next

LEMMA SyncDoneMaps ==
  ASSUME Inv, SyncDone
  PROVE  UNCHANGED Atomic!vars
<1>1. /\ syncPc = "bump" /\ syncPc' = "wait" /\ ioOwner' = NoOne
      /\ heartbeat' = (heartbeat + 1) % HeartbeatModulus
      /\ UNCHANGED <<lifeVars, callVars, img, wire>>
  BY DEF SyncDone
<1>2. ioOwner \notin Callers /\ ioOwner' \notin Callers
  BY <1>1, CycleAlone, ThreadsAssumption DEF SyncInside
<1>3. UNCHANGED <<AbsStage, req, AbsBuf, AbsCount>>
  BY <1>1, <1>2, CallsUnseen
<1>4. AbsHeartbeat' = AbsHeartbeat
  BY <1>1 DEF AbsHeartbeat, SyncInside
<1>5. AbsIn' = AbsIn
  BY <1>1, <1>2 DEF AbsIn, Writing
<1>6. AbsOut' = AbsOut
  BY <1>1 DEF AbsOut
<1>7. AbsWire' = AbsWire
  BY <1>1 DEF AbsWire
<1> QED
  BY <1>1, <1>3, <1>4, <1>5, <1>6, <1>7, PhaseUnseen, StutterMaps

-----------------------------------------------------------------------------
LEMMA NextMaps ==
  ASSUME Disciplined, Inv, [Next]_vars
  PROVE  [Atomic!Next]_(Atomic!vars)
<1>1. ASSUME NEW c \in Callers, Caller(c)
      PROVE  [Atomic!Next]_(Atomic!vars)
  <2>1. CASE \E q \in Requests : \E d \in Buffers(q) : Call(c, q, d)
    BY <1>1, <2>1, CallMaps
  <2>2. CASE TakePyLock(c)
    BY <1>1, <2>2, WaitMaps
  <2>3. CASE Check(c)
    BY <1>1, <2>3, WaitMaps, RefusalMaps
  <2>4. CASE Lock(c)
    BY <1>1, <2>4, LockMaps
  <2>5. CASE CopyByte(c)
    BY <1>1, <2>5, CopyMaps
  <2>6. CASE Unlock(c)
    BY <1>1, <2>6, UnlockMaps
  <2>7. CASE Return(c)
    BY <1>1, <2>7, ReturnMaps
  <2> QED
    BY <1>1, <2>1, <2>2, <2>3, <2>4, <2>5, <2>6, <2>7 DEF Caller
<1>2. CASE SyncThread
  BY <1>2, SyncEventMaps, SyncLockMaps, SyncMoveMaps, SyncSpoilMaps, SyncDoneMaps DEF SyncThread
<1>3. CASE SetUp
  BY <1>3, SetUpMaps
<1>4. CASE UNCHANGED vars
  <2>1. UNCHANGED <<callVars, syncVars, img, ioOwner, lifeVars>>
    BY <1>4 DEF vars
  <2> QED
    BY <2>1, SetUpUnseen, PhaseUnseen, StutterMaps
<1> QED
  BY <1>1, <1>2, <1>3, <1>4 DEF Next

\* Every call and every cycle looks like one indivisible step on the whole
\* image, if the application keeps its calls and plw_shutdown apart: no torn
\* read, no half-written output on the wire, no lost cycle count.
THEOREM ImplementsAtomicImage == ASSUME Disciplined PROVE Spec => AtomicSpec
<1>1. Init => Inv
  BY InitType, InitLocks, InitLifetime, InitShape DEF Inv, Safe
<1>2. Inv /\ [Next]_vars => Inv'
  BY NextType, NextLocks, NextLifetime, NextShape DEF Inv, Safe
<1>3. Init => Atomic!Init
  BY InitMaps
<1>4. Inv /\ [Next]_vars => [Atomic!Next]_(Atomic!vars)
  BY NextMaps
<1> QED
  BY <1>1, <1>2, <1>3, <1>4, PTL DEF Spec, AtomicSpec, Atomic!Spec
=============================================================================
