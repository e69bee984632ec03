------------------------ MODULE PowerlinkStack_proofs ------------------------
(***************************************************************************)
(* Theorems about PowerlinkStack for every number of sessions, polls,      *)
(* events and interrupts, and for every kind of failure unless a theorem   *)
(* says otherwise.                                                         *)
(***************************************************************************)
EXTENDS PowerlinkStack, SequenceTheorems, TLAPS

Events == NmtEvents \cup NodeEvents

\* Delivering the first event, and queuing one more.
LEMMA QueueType ==
  ASSUME NEW s \in Seq(Events)
  PROVE  /\ s # <<>> => Head(s) \in Events /\ Tail(s) \in Seq(Events) /\ Len(Tail(s)) = Len(s) - 1
         /\ \A e \in Events : Append(s, e) \in Seq(Events) /\ Len(Append(s, e)) = Len(s) + 1
BY HeadTailProperties, AppendProperties

LEMMA FlagsType ==
  ASSUME NEW s \in [running : BOOLEAN, mn : BOOLEAN, cn : BOOLEAN], NEW e
  PROVE  /\ AfterNmtEvent(s, e) \in [running : BOOLEAN, mn : BOOLEAN, cn : BOOLEAN]
         /\ AfterNodeEvent(s, e) \in [running : BOOLEAN, mn : BOOLEAN, cn : BOOLEAN]
BY DEF AfterNmtEvent, AfterNodeEvent

\* The poll that is going on was allowed by the timeout.
PollsLeft == app = "alive" => polls < MaxPolls

-----------------------------------------------------------------------------
(* The shim and the native stack. *)

LEMMA EmptyQueue == <<>> \in Seq(Events) /\ Len(<<>>) = 0 /\ Len(<<>>) <= MaxEvents
BY EventsAssumption

LEMMA NoFlagsType == NoFlags \in [running : BOOLEAN, mn : BOOLEAN, cn : BOOLEAN]
BY DEF NoFlags

LEMMA WrapInitType == WrapInit => WrapTypeOK
BY EmptyQueue, NoFlagsType DEF WrapInit, WrapTypeOK, Events

LEMMA EnterType ==
  ASSUME WrapTypeOK, NEW state \in {"off", "preop", "op"}, NEW e \in Events, Enter(state, e),
         command' \in {"none", "reset", "off"}
  PROVE  WrapTypeOK'
<1>1. events' \in Seq(Events) /\ Len(events') <= MaxEvents
  BY QueueType, EventsAssumption, LenProperties DEF Enter, WrapTypeOK, Events
<1> QED
  BY <1>1 DEF Enter, WrapTypeOK, shimVars, Events

LEMMA NativeType == WrapTypeOK /\ NativeStack => WrapTypeOK'
<1> SUFFICES ASSUME WrapTypeOK, NativeStack PROVE WrapTypeOK'
  OBVIOUS
<1>1. CASE ProcessEvents
  <2>1. Tail(events) \in Seq(Events) /\ Len(Tail(events)) <= MaxEvents
    BY <1>1, QueueType, EventsAssumption, LenProperties DEF ProcessEvents, WrapTypeOK, Events
  <2>2. status' \in [running : BOOLEAN, mn : BOOLEAN, cn : BOOLEAN]
    BY <1>1, FlagsType DEF ProcessEvents, WrapTypeOK
  <2> QED
    BY <1>1, <2>1, <2>2 DEF ProcessEvents, WrapTypeOK, Events
<1>2. CASE MnObeys
  <2>1. Enter("preop", "ms_preop") \/ Enter("off", "gs_off")
    BY <1>2 DEF MnObeys
  <2> QED
    BY <1>2, <2>1, EnterType DEF MnObeys, Events, NmtEvents
<1>3. CASE MnReachesOp \/ MnFallsBack
  BY <1>3, EnterType DEF MnReachesOp, MnFallsBack, Events, NmtEvents, WrapTypeOK
<1>4. CASE NodeReports
  BY <1>4, EnterType DEF NodeReports, Events, WrapTypeOK
<1>5. CASE KernelDies
  BY <1>5 DEF KernelDies, WrapTypeOK, shimVars
<1> QED
  BY <1>1, <1>2, <1>3, <1>4, <1>5 DEF NativeStack

LEMMA PlwType ==
  ASSUME WrapTypeOK
  PROVE  /\ \A o \in InitOutcomes : PlwInit(o) => WrapTypeOK'
         /\ \A o \in AllocOutcomes : PlwAllocPi(o) => WrapTypeOK'
         /\ \A c \in {"reset", "off"}, ok \in BOOLEAN : PostCommand(c, ok) => WrapTypeOK'
         /\ PlwShutdown => WrapTypeOK'
         /\ UNCHANGED wrapVars => WrapTypeOK'
<1> USE DEF WrapTypeOK, shimVars, mnVars, wrapVars
<1>1. \A o \in InitOutcomes : PlwInit(o) => WrapTypeOK'
  BY NoFlagsType DEF PlwInit, FlagsAtInit
<1>2. \A o \in AllocOutcomes : PlwAllocPi(o) => WrapTypeOK'
  BY DEF PlwAllocPi
<1>3. \A c \in {"reset", "off"}, ok \in BOOLEAN : PostCommand(c, ok) => WrapTypeOK'
  BY DEF PostCommand
<1>4. PlwShutdown => WrapTypeOK'
  BY EmptyQueue DEF PlwShutdown, ImageAfterShutdown, Events
<1>5. UNCHANGED wrapVars => WrapTypeOK'
  OBVIOUS
<1> QED
  BY <1>1, <1>2, <1>3, <1>4, <1>5

-----------------------------------------------------------------------------
(* The Python side. *)

LEMMA InitTyped == Init => TypeOK /\ PollsLeft
<1> SUFFICES ASSUME Init PROVE TypeOK /\ PollsLeft
  OBVIOUS
<1>1. WrapTypeOK
  BY WrapInitType DEF Init
<1>2. polls \in 0 .. MaxPolls /\ interrupts \in 0 .. MaxInterrupts
  BY BoundsAssumption DEF Init
<1> QED
  BY <1>1, <1>2 DEF Init, TypeOK, PollsLeft

\* Where a supervisor that runs may be.
RunningAt == {"test", "process", "check", "wait"}

LEMMA NoThreadIsNone == \A t \in Threads : t # NoThread
BY BoundsAssumption DEF Threads, NoThread

LEMMA ZeroFits == 0 \in 0 .. MaxPolls
BY BoundsAssumption

\* A step that changes, of the Python side, at most what a supervisor does or the
\* count of interrupts.
LEMMA SideTyped ==
  ASSUME TypeOK, UNCHANGED <<started, stopEvent, thread, app, result, polls, diedBefore>>,
         WrapTypeOK', interrupts' \in 0 .. MaxInterrupts,
         supervisor' \in [Threads -> {"none", "new", "test", "process", "check", "wait", "dead"}]
  PROVE  TypeOK'
<1>1. polls' \in 0 .. MaxPolls
  BY DEF TypeOK
<1> QED
  BY <1>1 DEF TypeOK

LEMMA NextTyped == TypeOK /\ PollsLeft /\ [Next]_vars => TypeOK' /\ PollsLeft'
<1> SUFFICES ASSUME TypeOK, PollsLeft, [Next]_vars PROVE TypeOK' /\ PollsLeft'
  OBVIOUS
<1> USE BoundsAssumption
<1> USE DEF TypeOK, PollsLeft, Goto, End, Checked
<1>a. UNCHANGED wrapVars => WrapTypeOK'
  BY PlwType
<1>1. CASE Start
  <2>1. CASE CallStart
    BY <2>1, <1>a DEF CallStart
  <2>2. CASE StartInit
    <3>1. PICK o \in InitOutcomes : PlwInit(o) /\ Checked(o = "ok", "load")
      BY <2>2 DEF StartInit, InitOutcomesNow, InitOutcomes
    <3>2. WrapTypeOK'
      BY <3>1, PlwType
    <3> QED
      BY <2>2, <3>1, <3>2 DEF StartInit
  <2>3. CASE StartLoadCdc
    BY <2>3, <1>a DEF StartLoadCdc
  <2>4. CASE StartAllocPi
    <3>1. PICK o \in AllocOutcomes : PlwAllocPi(o) /\ Checked(o = "ok", "nmt")
      BY <2>4 DEF StartAllocPi
    <3>2. WrapTypeOK'
      BY <3>1, PlwType
    <3> QED
      BY <2>4, <3>1, <3>2 DEF StartAllocPi
  <2>5. CASE StartNmt
    <3>1. PICK ok \in BOOLEAN : PostCommand("reset", ok) /\ Checked(ok, "mark")
      BY <2>5 DEF StartNmt
    <3>2. WrapTypeOK'
      BY <3>1, PlwType
    <3> QED
      BY <2>5, <3>1, <3>2 DEF StartNmt
  <2>6. CASE StartMark \/ StartClear
    BY <2>6, <1>a DEF StartMark, StartClear
  <2>7. CASE StartThread
    <3>1. PICK t \in Threads : thread' = t /\ supervisor' = [supervisor EXCEPT ![t] = "new"]
      BY <2>7 DEF StartThread
    <3>2. thread' \in Threads \cup {NoThread} /\ thread' # NoThread
      BY <3>1, NoThreadIsNone
    <3>3. supervisor' \in [Threads -> {"none", "new", "test", "process", "check", "wait", "dead"}]
      BY <3>1
    <3> QED
      BY <2>7, <3>2, <3>3, <1>a DEF StartThread
  <2>8. CASE StartSpawn
    BY <2>8, <1>a DEF StartSpawn
  <2> QED
    BY <1>1, <2>1, <2>2, <2>3, <2>4, <2>5, <2>6, <2>7, <2>8 DEF Start
<1>2. CASE Stop
  <2>1. CASE CallStop
    BY <2>1, <1>a DEF CallStop, StopEventAfterCall, StopEntry
  <2>2. CASE StopJoin \/ StopJoinRaises \/ StopForget
    BY <2>2, <1>a DEF StopJoin, StopJoinRaises, StopForget
  <2>3. CASE StopOff
    <3>1. WrapTypeOK'
      BY <2>3, PlwType DEF StopOff
    <3> QED
      BY <2>3, <3>1 DEF StopOff
  <2>4. CASE StopNothing \/ StopSleep
    BY <2>4, <1>a DEF StopNothing, StopSleep
  <2>5. CASE StopShutdown
    <3>1. WrapTypeOK'
      BY <2>5, PlwType DEF StopShutdown
    <3> QED
      BY <2>5, <3>1 DEF StopShutdown
  <2>6. CASE StopUnmark
    BY <2>6, <1>a DEF StopUnmark
  <2> QED
    BY <1>2, <2>1, <2>2, <2>3, <2>4, <2>5, <2>6 DEF Stop
<1>3. CASE Wait
  <2>1. CASE CallWait
    <3>1. SupervisorDead \in BOOLEAN
      BY DEF SupervisorDead
    <3>2. polls' \in 0 .. MaxPolls /\ app' # "alive"
      BY <2>1, ZeroFits DEF CallWait
    <3> QED
      BY <2>1, <3>1, <3>2, <1>a DEF CallWait
  <2>2. CASE WaitTimesOut \/ WaitReadsFlags
    BY <2>2, <1>a DEF WaitTimesOut, WaitReadsFlags
  <2>3. CASE WaitTestsThread
    <3>1. (app = "alive" => polls + 1 \in 0 .. MaxPolls) /\ polls \in 0 .. MaxPolls
      <4>1. polls \in 0 .. MaxPolls /\ (app = "alive" => polls < MaxPolls)
        OBVIOUS
      <4> HIDE DEF TypeOK, PollsLeft
      <4> QED
        BY <4>1
    <3>2. polls' \in 0 .. MaxPolls /\ app' # "alive"
      BY <2>3, <3>1 DEF WaitTestsThread
    <3> QED
      BY <2>3, <3>2, <1>a DEF WaitTestsThread
  <2> QED
    BY <1>3, <2>1, <2>2, <2>3 DEF Wait
<1>4. CASE Interrupt
  <2>1. interrupts' \in 0 .. MaxInterrupts
    <3>1. interrupts \in 0 .. MaxInterrupts
      OBVIOUS
    <3> HIDE DEF TypeOK, PollsLeft
    <3> QED
      BY <1>4, <3>1 DEF Interrupt
  <2>2. app' \in {"shutdown", "idle"}
    BY <1>4 DEF Interrupt
  <2> QED
    BY <1>4, <2>1, <2>2, <1>a DEF Interrupt
<1>5. CASE NativeStack /\ UNCHANGED pyVars
  <2>1. UNCHANGED pyVars /\ WrapTypeOK'
    BY <1>5, NativeType
  <2> QED
    BY <2>1, SideTyped DEF pyVars
<1>6. ASSUME NEW t \in Threads, Supervisor(t) PROVE TypeOK' /\ PollsLeft'
  <2>1. PICK from \in RunningAt, to \in RunningAt \cup {"dead"} : Supervise(t, from, to)
    BY <1>6 DEF Supervisor, SupervisorTest, SupervisorProcess, SupervisorCheck,
                SupervisorWait, AfterCheck, RunningAt
  <2> QED
    <3>1. supervisor' \in [Threads -> {"none", "new", "test", "process", "check", "wait", "dead"}]
      BY <2>1 DEF Supervise, RunningAt
    <3>2. UNCHANGED <<wrapVars, started, stopEvent, thread, app, result, polls, interrupts, diedBefore>>
      BY <2>1 DEF Supervise
    <3> QED
      BY <3>1, <3>2, <1>a, SideTyped
<1>7. CASE UNCHANGED vars
  <2>1. UNCHANGED <<wrapVars, pyVars>>
    BY <1>7 DEF vars
  <2> QED
    BY <2>1, <1>a, SideTyped DEF pyVars
<1> QED
  BY <1>1, <1>2, <1>3, <1>4, <1>5, <1>6, <1>7 DEF Next

\* Every variable keeps a value of its kind, whatever fails or is interrupted.
THEOREM StackTypeCorrect == Spec => []TypeOK
<1>1. Init => TypeOK /\ PollsLeft
  BY InitTyped
<1>2. TypeOK /\ PollsLeft /\ [Next]_vars => TypeOK' /\ PollsLeft'
  BY NextTyped
<1> QED
  BY <1>1, <1>2, PTL DEF Spec

-----------------------------------------------------------------------------
(* Where start() and stop() are, and what they have done by then.          *)

BeforeMark == {"init", "load", "alloc", "nmt", "mark"}
AfterMark == {"clear", "thread", "spawn"}
AfterInit == {"load", "alloc", "nmt", "mark", "clear", "thread", "spawn"}
AfterAlloc == {"nmt", "mark", "clear", "thread", "spawn"}
AfterForget == {"off", "sleep", "shutdown", "unmark"}

\* What start() has built so far.
StartProgress ==
  /\ app \in BeforeMark => ~started
  /\ app \in AfterMark => started
  /\ app \in AfterInit => lib = "created" /\ mutexReady
  /\ app \in AfterAlloc => image = "sized"

\* What stop() has taken down so far.
StopProgress ==
  /\ app \in AfterForget => thread = NoThread
  /\ app = "unmark" => lib = "down" /\ image = "none" /\ ~mutexReady

Progress == StartProgress /\ StopProgress

\* The native stack leaves the shim's lifecycle alone.
LEMMA NativeFrame ==
  NativeStack => UNCHANGED <<lib, image, mutexReady>> /\ (wasOp => wasOp')
<1> SUFFICES ASSUME NativeStack
             PROVE  UNCHANGED <<lib, image, mutexReady>> /\ (wasOp => wasOp')
  OBVIOUS
<1> USE DEF shimVars
<1>1. CASE ProcessEvents \/ KernelDies
  BY <1>1 DEF ProcessEvents, KernelDies
<1>2. ASSUME NEW state, NEW e, Enter(state, e)
      PROVE  UNCHANGED <<lib, image, mutexReady>> /\ (wasOp => wasOp')
  BY <1>2 DEF Enter
<1> QED
  BY <1>1, <1>2 DEF NativeStack, MnObeys, MnReachesOp, MnFallsBack, NodeReports

LEMMA InitProgress == Init => Progress
BY DEF Init, Progress, StartProgress, StopProgress, BeforeMark, AfterMark, AfterInit, AfterAlloc, AfterForget

LEMMA NextProgress == Progress /\ [Next]_vars => Progress'
<1> SUFFICES ASSUME Progress, [Next]_vars PROVE Progress'
  OBVIOUS
<1> USE DEF Progress, StartProgress, StopProgress, BeforeMark, AfterMark, AfterInit, AfterAlloc, AfterForget,
            Goto, End, Checked, wrapVars, shimVars
<1>1. CASE Start
  <2>1. CASE CallStart
    BY <2>1 DEF CallStart
  <2>2. CASE StartInit
    BY <2>2 DEF StartInit, PlwInit
  <2>3. CASE StartLoadCdc
    BY <2>3 DEF StartLoadCdc
  <2>4. CASE StartAllocPi
    BY <2>4 DEF StartAllocPi, PlwAllocPi
  <2>5. CASE StartNmt
    BY <2>5 DEF StartNmt, PostCommand
  <2>6. CASE StartMark \/ StartClear
    BY <2>6 DEF StartMark, StartClear
  <2>7. CASE StartThread
    BY <2>7 DEF StartThread
  <2>8. CASE StartSpawn
    BY <2>8 DEF StartSpawn
  <2> QED
    BY <1>1, <2>1, <2>2, <2>3, <2>4, <2>5, <2>6, <2>7, <2>8 DEF Start
<1>2. CASE Stop
  <2>1. CASE CallStop
    BY <2>1 DEF CallStop, StopEntry
  <2>2. CASE StopJoin \/ StopJoinRaises \/ StopForget
    BY <2>2 DEF StopJoin, StopJoinRaises, StopForget
  <2>3. CASE StopOff
    BY <2>3 DEF StopOff, PostCommand
  <2>4. CASE StopNothing \/ StopSleep
    BY <2>4 DEF StopNothing, StopSleep
  <2>5. CASE StopShutdown
    BY <2>5 DEF StopShutdown, PlwShutdown, ImageAfterShutdown
  <2>6. CASE StopUnmark
    BY <2>6 DEF StopUnmark
  <2> QED
    BY <1>2, <2>1, <2>2, <2>3, <2>4, <2>5, <2>6 DEF Stop
<1>3. CASE Wait
  BY <1>3 DEF Wait, CallWait, WaitTimesOut, WaitReadsFlags, WaitTestsThread
<1>4. CASE Interrupt
  BY <1>4 DEF Interrupt, InTry
<1>5. CASE NativeStack /\ UNCHANGED pyVars
  BY <1>5, NativeFrame DEF pyVars
<1>6. ASSUME NEW t \in Threads, Supervisor(t) PROVE Progress'
  BY <1>6 DEF Supervisor, SupervisorTest, SupervisorProcess, SupervisorCheck, SupervisorWait, Supervise
<1>7. CASE UNCHANGED vars
  BY <1>7 DEF vars, pyVars
<1> QED
  BY <1>1, <1>2, <1>3, <1>4, <1>5, <1>6, <1>7 DEF Next

-----------------------------------------------------------------------------
(* The supervisor, when join() does not time out.                          *)

\* The thread that runs is the one _thread names, on a created stack, and only
\* between the end of start() and the end of stop()'s join.
Supervised ==
  \A t \in Threads : Alive(t) =>
    /\ t = thread /\ lib = "created" /\ started
    /\ app \in {"idle", "poll", "alive", "join"}

LEMMA InitSupervised == Init => Supervised
BY DEF Init, Supervised, Alive

\* A step that starts no thread and moves none keeps what is alive.
LEMMA NextSupervised ==
  ASSUME ~JoinMayTimeOut, TypeOK, Progress, Supervised, [Next]_vars
  PROVE  Supervised'
<1> USE DEF Goto, End, Checked, Supervised, wrapVars, shimVars
<1>a. /\ thread \in Threads \cup {NoThread}
      /\ app \in {"spawn", "join", "forget"} => thread \in Threads
      /\ supervisor = [t \in Threads |-> supervisor[t]]
  BY DEF TypeOK
<1>b. /\ app \in AfterInit => lib = "created"
      /\ app \in AfterMark => started
      /\ app \in AfterForget => thread = NoThread
  BY DEF Progress, StartProgress, StopProgress
\* What is alive stays alive or ends, but nothing comes to life.
<1>c. (\A t \in Threads : Alive(t)' => Alive(t)) /\ UNCHANGED <<thread, lib, started>>
         /\ app' \in {"idle", "poll", "alive", "join"} => Supervised'
  OBVIOUS
<1>d. (\A t \in Threads : ~Alive(t)') => Supervised'
  OBVIOUS
<1>e. app \notin {"idle", "poll", "alive", "join"} => \A t \in Threads : ~Alive(t)
  OBVIOUS
<1>1. CASE Start
  <2>1. CASE CallStart
    <3>1. started => app' = "idle"
      BY <2>1 DEF CallStart
    <3> QED
      BY <2>1, <3>1 DEF CallStart, Alive
  <2>2. CASE StartSpawn
    <3>1. app = "spawn" /\ thread \in Threads /\ lib = "created" /\ started /\ app' = "idle"
          /\ UNCHANGED <<lib, started, thread>>
      BY <2>2, <1>a, <1>b DEF StartSpawn, AfterInit, AfterMark
    <3>2. \A t \in Threads : Alive(t)' => t = thread
      BY <2>2, <1>a, <1>e, <3>1 DEF StartSpawn, Alive
    <3> QED
      BY <3>1, <3>2
  <2>3. CASE StartThread
    BY <2>3, <1>a, <1>d, <1>e DEF StartThread, Alive
  <2>4. CASE StartInit \/ StartLoadCdc \/ StartAllocPi \/ StartNmt \/ StartMark \/ StartClear
    <3>1. UNCHANGED supervisor /\ app \notin {"idle", "poll", "alive", "join"}
      BY <2>4 DEF StartInit, StartLoadCdc, StartAllocPi, StartNmt, StartMark, StartClear
    <3> QED
      BY <3>1, <1>d, <1>e DEF Alive
  <2> QED
    BY <1>1, <2>1, <2>2, <2>3, <2>4 DEF Start
<1>2. CASE Stop
  <2>1. CASE CallStop
    <3>1. (\E t \in Threads : Alive(t)) => app' = "join"
      BY <2>1, NoThreadIsNone DEF CallStop, StopEntry
    <3> QED
      BY <2>1, <3>1 DEF CallStop, Alive
  <2>2. CASE StopJoin
    <3>1. ~Alive(thread)
      BY <2>2 DEF StopJoin, JoinReturns, Alive
    <3> QED
      BY <2>2, <3>1 DEF StopJoin, Alive
  <2>3. CASE StopJoinRaises
    BY <2>3, <1>c DEF StopJoinRaises, Alive
  <2>4. CASE StopForget \/ StopOff \/ StopNothing \/ StopSleep \/ StopShutdown \/ StopUnmark
    <3>1. UNCHANGED supervisor /\ app \notin {"idle", "poll", "alive", "join"}
      BY <2>4 DEF StopForget, StopOff, StopNothing, StopSleep, StopShutdown, StopUnmark
    <3> QED
      BY <3>1, <1>d, <1>e DEF Alive
  <2> QED
    BY <1>2, <2>1, <2>2, <2>3, <2>4 DEF Stop
<1>3. CASE Wait
  <2>1. UNCHANGED <<supervisor, thread, lib, started>> /\ app' \in {"idle", "poll", "alive", "join"}
    BY <1>3 DEF Wait, CallWait, WaitTimesOut, WaitReadsFlags, WaitTestsThread
  <2> QED
    BY <2>1, <1>c DEF Alive
<1>4. CASE Interrupt
  <2>1. UNCHANGED <<supervisor, thread, lib, started>> /\ (app = "sleep" \/ app' = "idle")
    BY <1>4 DEF Interrupt, InTry
  <2>2. CASE app = "sleep"
    BY <2>1, <2>2, <1>d, <1>e DEF Alive
  <2>3. CASE app' = "idle"
    BY <2>1, <2>3, <1>c DEF Alive
  <2> QED
    BY <2>1, <2>2, <2>3
<1>5. CASE NativeStack /\ UNCHANGED pyVars
  BY <1>5, NativeFrame DEF pyVars, Alive
<1>6. ASSUME NEW t \in Threads, Supervisor(t) PROVE Supervised'
  <2>1. PICK from \in RunningAt, to \in RunningAt \cup {"dead"} : Supervise(t, from, to)
    BY <1>6 DEF Supervisor, SupervisorTest, SupervisorProcess, SupervisorCheck, SupervisorWait,
                AfterCheck, RunningAt
  <2>2. Alive(t) /\ UNCHANGED <<thread, lib, started, app>>
    BY <2>1 DEF Supervise, Alive, RunningAt
  <2>3. \A u \in Threads : Alive(u)' => Alive(u)
    BY <2>1, <2>2, <1>a DEF Supervise, Alive
  <2> QED
    BY <2>2, <2>3
<1>7. CASE UNCHANGED vars
  BY <1>7 DEF vars, pyVars, Alive
<1> QED
  BY <1>1, <1>2, <1>3, <1>4, <1>5, <1>6, <1>7 DEF Next

\* The whole invariant of runs whose joins return.
StackInv == TypeOK /\ PollsLeft /\ Progress /\ Supervised

LEMMA StackInvHolds == ASSUME ~JoinMayTimeOut PROVE Spec => []StackInv
<1>1. Init => StackInv
  BY InitTyped, InitProgress, InitSupervised DEF StackInv
<1>2. StackInv /\ [Next]_vars => StackInv'
  BY NextTyped, NextProgress, NextSupervised DEF StackInv
<1> QED
  BY <1>1, <1>2, PTL DEF Spec

\* One supervisor at most, the one `_thread` names, and never on a stack that
\* is not created.
THEOREM OneSupervisor == ASSUME ~JoinMayTimeOut PROVE Spec => []SupervisionDiscipline
<1>1. StackInv => SupervisionDiscipline
  BY DEF StackInv, Supervised, SupervisionDiscipline
<1> QED
  BY <1>1, StackInvHolds, PTL

\* `_started` is given up only when the stack, the image, the mutex and the
\* supervisor are gone.
THEOREM NothingLeftBehind == ASSUME ~JoinMayTimeOut PROVE Spec => GivenUpMeansGone
<1>1. StackInv /\ [Next]_vars
        => [started /\ ~started' =>
              /\ lib' = "down" /\ image' = "none" /\ ~mutexReady'
              /\ \A t \in Threads : ~Alive(t)']_vars
  <2> SUFFICES ASSUME StackInv, Next, started, ~started'
               PROVE  /\ lib' = "down" /\ image' = "none" /\ ~mutexReady'
                      /\ \A t \in Threads : ~Alive(t)'
    OBVIOUS
  <2>1. StopUnmark
    <3>1. ~Start
      BY DEF Start, CallStart, StartInit, StartLoadCdc, StartAllocPi, StartNmt, StartMark,
             StartClear, StartThread, StartSpawn
    <3>2. ~Wait /\ ~Interrupt
      BY DEF Wait, CallWait, WaitTimesOut, WaitReadsFlags, WaitTestsThread, Interrupt
    <3>3. ~(NativeStack /\ UNCHANGED pyVars)
      BY DEF pyVars
    <3>4. \A t \in Threads : ~Supervisor(t)
      BY DEF Supervisor, SupervisorTest, SupervisorProcess, SupervisorCheck, SupervisorWait,
             Supervise
    <3>5. Stop
      BY <3>1, <3>2, <3>3, <3>4 DEF Next
    <3> QED
      BY <3>5 DEF Stop, CallStop, StopJoin, StopJoinRaises, StopForget, StopOff, StopNothing,
                  StopSleep, StopShutdown
  <2>2. app = "unmark" /\ UNCHANGED <<lib, image, mutexReady, supervisor>>
    BY <2>1 DEF StopUnmark, wrapVars, shimVars
  <2>3. lib = "down" /\ image = "none" /\ ~mutexReady
    BY <2>2 DEF StackInv, Progress, StopProgress
  <2>4. \A t \in Threads : ~Alive(t)
    BY <2>2 DEF StackInv, Supervised
  <2> QED
    BY <2>2, <2>3, <2>4 DEF Alive
<1> QED
  BY <1>1, StackInvHolds, PTL DEF Spec, GivenUpMeansGone

-----------------------------------------------------------------------------
(* A stack that was started, when no interrupt has left a method half-way.  *)

Upright ==
  interrupts = 0 /\ started =>
    /\ app \notin AfterForget => lib = "created" /\ image = "sized" /\ mutexReady
    /\ app \in {"idle", "poll", "alive"} => thread # NoThread

LEMMA InitUpright == Init => Upright
BY DEF Init, Upright

LEMMA NextUpright ==
  ASSUME TypeOK, Progress, Upright, [Next]_vars
  PROVE  Upright'
<1> USE DEF Upright, Goto, End, Checked, wrapVars, shimVars, AfterForget
<1>a. /\ app \in {"spawn", "join", "forget"} => thread # NoThread
      /\ interrupts \in 0 .. MaxInterrupts
  BY DEF TypeOK
<1>b. /\ app \in BeforeMark => ~started
      /\ app \in AfterInit => lib = "created" /\ mutexReady
      /\ app \in AfterAlloc => image = "sized"
  BY DEF Progress, StartProgress
<1>1. CASE Start
  <2> USE DEF BeforeMark, AfterInit, AfterAlloc
  <2>1. CASE CallStart
    BY <2>1 DEF CallStart
  <2>2. CASE StartInit \/ StartLoadCdc \/ StartAllocPi \/ StartNmt
    <3>1. app \in BeforeMark /\ UNCHANGED started
      BY <2>2 DEF StartInit, StartLoadCdc, StartAllocPi, StartNmt
    <3> QED
      BY <3>1, <1>b
  <2>3. CASE StartMark
    BY <2>3, <1>b DEF StartMark
  <2>4. CASE StartClear \/ StartThread
    BY <2>4, <1>b DEF StartClear, StartThread
  <2>5. CASE StartSpawn
    BY <2>5, <1>a, <1>b DEF StartSpawn
  <2> QED
    BY <1>1, <2>1, <2>2, <2>3, <2>4, <2>5 DEF Start
<1>2. CASE Stop
  <2>1. CASE CallStop
    BY <2>1 DEF CallStop, StopEntry
  <2>2. CASE StopJoin \/ StopForget
    BY <2>2 DEF StopJoin, StopForget
  <2>3. CASE StopJoinRaises
    BY <2>3, <1>a DEF StopJoinRaises
  <2>4. CASE StopOff \/ StopSleep \/ StopShutdown
    BY <2>4 DEF StopOff, StopSleep, StopShutdown
  <2>5. CASE StopNothing \/ StopUnmark
    BY <2>5 DEF StopNothing, StopUnmark
  <2> QED
    BY <1>2, <2>1, <2>2, <2>3, <2>4, <2>5 DEF Stop
<1>3. CASE Wait
  BY <1>3 DEF Wait, CallWait, WaitTimesOut, WaitReadsFlags, WaitTestsThread
<1>4. CASE Interrupt
  <2>1. interrupts' # 0
    BY <1>4, <1>a DEF Interrupt
  <2> QED
    BY <2>1
<1>5. CASE NativeStack /\ UNCHANGED pyVars
  BY <1>5, NativeFrame DEF pyVars
<1>6. ASSUME NEW t \in Threads, Supervisor(t) PROVE Upright'
  BY <1>6 DEF Supervisor, SupervisorTest, SupervisorProcess, SupervisorCheck, SupervisorWait, Supervise
<1>7. CASE UNCHANGED vars
  BY <1>7 DEF vars, pyVars
<1> QED
  BY <1>1, <1>2, <1>3, <1>4, <1>5, <1>6, <1>7 DEF Next

\* After a start() that succeeded the native side is complete until stop().
THEOREM StartedIsUp == Spec => []StartedMeansUp
<1>1. Init => TypeOK /\ PollsLeft /\ Progress /\ Upright
  BY InitTyped, InitProgress, InitUpright
<1>2. TypeOK /\ PollsLeft /\ Progress /\ Upright /\ [Next]_vars
        => TypeOK' /\ PollsLeft' /\ Progress' /\ Upright'
  BY NextTyped, NextProgress, NextUpright
<1>3. Upright => StartedMeansUp
  BY DEF Upright, StartedMeansUp, AfterForget
<1> QED
  BY <1>1, <1>2, <1>3, PTL DEF Spec

-----------------------------------------------------------------------------
(* Flags of the session that runs.                                          *)

\* While a session runs, Operational is flagged, or queued to be flagged, only
\* if this session has reached it.
OpQueued == \E i \in 1 .. Len(events) : events[i] = "ms_op"

FreshFlags ==
  started \/ app \in AfterInit => (status.mn \/ OpQueued => wasOp)

Fresh ==
  /\ FreshFlags
  /\ lib # "created" => events = <<>>
  /\ app \in {"poll", "alive"} => started
  /\ result = "wait true" => app = "idle" /\ wasOp

LEMMA InitFresh == Init => Fresh
BY DEF Init, WrapInit, Fresh, FreshFlags, NoFlags, AfterInit

LEMMA QueueFacts ==
  /\ events' = events => (OpQueued' <=> OpQueued)
  /\ events = <<>> => ~OpQueued
  /\ events' = <<>> => ~OpQueued'
BY DEF OpQueued

\* The native stack flags Operational only after the MN has reached it.
LEMMA NativeFresh ==
  ASSUME WrapTypeOK, NativeStack
  PROVE  /\ lib = "created" /\ lib' = "created"
         /\ (status.mn \/ OpQueued => wasOp) => (status'.mn \/ OpQueued' => wasOp')
<1>a. events \in Seq(Events) /\ lib = "created" /\ lib' = "created"
  <2>1. lib = "created"
    BY DEF NativeStack, ProcessEvents, MnObeys, MnReachesOp, MnFallsBack, NodeReports, KernelDies, Enter
  <2> QED
    BY <2>1, NativeFrame DEF WrapTypeOK, Events
<1> SUFFICES ASSUME status.mn => wasOp,
                    \A i \in 1 .. Len(events) : events[i] = "ms_op" => wasOp
             PROVE  /\ status'.mn => wasOp'
                    /\ \A i \in 1 .. Len(events') : events'[i] = "ms_op" => wasOp'
  BY <1>a DEF OpQueued
<1>1. CASE ProcessEvents
  <2>1. events # <<>> /\ events' = Tail(events) /\ wasOp' = wasOp
    BY <1>1 DEF ProcessEvents
  <2>2. Head(events) = events[1] /\ 1 \in 1 .. Len(events)
    BY <1>a, <2>1, EmptySeq, LenProperties
  <2>3. \A i \in 1 .. Len(events') : events'[i] = events[i + 1] /\ i + 1 \in 1 .. Len(events)
    BY <1>a, <2>1, HeadTailProperties, LenProperties
  <2>4. status'.mn => wasOp
    <3>1. status' = AfterNmtEvent(status, Head(events)) \/ status' = AfterNodeEvent(status, Head(events))
      BY <1>1 DEF ProcessEvents
    <3>2. AfterNmtEvent(status, Head(events)).mn <=> Head(events) = "ms_op"
      BY DEF AfterNmtEvent, WrapTypeOK
    <3>3. AfterNodeEvent(status, Head(events)).mn = status.mn
      BY DEF AfterNodeEvent, WrapTypeOK
    <3> QED
      BY <2>2, <3>1, <3>2, <3>3
  <2> QED
    BY <2>1, <2>3, <2>4
<1>2. ASSUME NEW state, NEW e \in Events, Enter(state, e), e = "ms_op" => state = "op"
      PROVE  /\ status'.mn => wasOp'
             /\ \A i \in 1 .. Len(events') : events'[i] = "ms_op" => wasOp'
  <2>1. events' = Append(events, e) /\ status' = status /\ wasOp' = (wasOp \/ state = "op")
    BY <1>2 DEF Enter, shimVars
  <2>2. \A i \in 1 .. Len(events') :
          \/ i \in 1 .. Len(events) /\ events'[i] = events[i]
          \/ events'[i] = e
    BY <1>a, <2>1, AppendProperties, LenProperties
  <2> QED
    BY <1>2, <2>1, <2>2
<1>3. CASE MnObeys \/ MnReachesOp \/ MnFallsBack
  BY <1>2, <1>3 DEF MnObeys, MnReachesOp, MnFallsBack, Events, NmtEvents
<1>4. CASE NodeReports
  <2>1. \A e \in NodeEvents : e \in Events /\ e # "ms_op"
    BY DEF Events, NodeEvents
  <2> QED
    BY <1>2, <1>4, <2>1 DEF NodeReports
<1>5. CASE KernelDies
  BY <1>5 DEF KernelDies, shimVars
<1> QED
  BY <1>1, <1>3, <1>4, <1>5 DEF NativeStack

LEMMA NextFresh ==
  ASSUME TypeOK, Progress, Fresh, [Next]_vars
  PROVE  Fresh'
<1> USE DEF Fresh, FreshFlags, Goto, End, Checked, wrapVars, shimVars, mnVars
<1>a. app \in BeforeMark => ~started
  BY DEF Progress, StartProgress
<1> USE QueueFacts
\* A step inside a method that leaves the flags, the queue and the stack alone.
<1>b. ASSUME UNCHANGED <<lib, status, events, wasOp, started>>, app # "idle",
             app' \in AfterInit => app \in AfterInit, app' \notin {"poll", "alive"},
             result' # "wait true" \/ result' = result
      PROVE  Fresh'
  BY <1>b
<1>1. CASE Start
  <2> USE DEF AfterInit
  <2>1. CASE CallStart
    BY <2>1 DEF CallStart
  <2>2. CASE StartInit
    <3>1. PICK o \in InitOutcomesNow : PlwInit(o) /\ Checked(o = "ok", "load")
      BY <2>2 DEF StartInit
    <3>2. app = "init" /\ ~started' /\ events' = events
      <4>1. app = "init" /\ started' = started
        BY <2>2 DEF StartInit
      <4>2. ~started
        BY <1>a, <4>1 DEF BeforeMark
      <4> QED
        BY <3>1, <4>1, <4>2 DEF PlwInit
    <3>3. CASE o = "ok"
      <4>1. lib # "created" /\ events = <<>> /\ status' = NoFlags
        BY <3>1, <3>3 DEF InitOutcomesNow, PlwInit, FlagsAtInit
      <4>2. ~status'.mn /\ ~OpQueued'
        BY <3>2, <4>1 DEF NoFlags
      <4>3. lib' = "created" /\ app' = "load" /\ result' = result
        BY <3>1, <3>3 DEF PlwInit
      <4> QED
        BY <3>2, <4>2, <4>3
    <3>4. CASE o # "ok"
      BY <3>1, <3>2, <3>4 DEF InitOutcomesNow, InitOutcomes, PlwInit
    <3> QED
      BY <3>3, <3>4
  <2>3. CASE StartLoadCdc
    BY <2>3 DEF StartLoadCdc
  <2>4. CASE StartAllocPi
    <3>1. UNCHANGED <<lib, status, events, wasOp, started>> /\ app = "alloc"
      BY <2>4 DEF StartAllocPi, PlwAllocPi
    <3>2. \/ app' = "nmt" /\ result' = result
          \/ app' = "idle" /\ result' = "raised"
      BY <2>4 DEF StartAllocPi
    <3> QED
      BY <3>1, <3>2, <1>b
  <2>5. CASE StartNmt
    <3>1. UNCHANGED <<lib, status, events, wasOp, started>> /\ app = "nmt"
      BY <2>5 DEF StartNmt, PostCommand
    <3>2. \/ app' = "mark" /\ result' = result
          \/ app' = "idle" /\ result' = "raised"
      BY <2>5 DEF StartNmt
    <3> QED
      BY <3>1, <3>2, <1>b
  <2>6. CASE StartMark
    BY <2>6 DEF StartMark
  <2>7. CASE StartClear \/ StartThread
    BY <2>7 DEF StartClear, StartThread
  <2>8. CASE StartSpawn
    BY <2>8 DEF StartSpawn
  <2> QED
    BY <1>1, <2>1, <2>2, <2>3, <2>4, <2>5, <2>6, <2>7, <2>8 DEF Start
<1>2. CASE Stop
  <2> USE DEF AfterInit
  <2>1. CASE CallStop
    BY <2>1 DEF CallStop, StopEntry
  <2>2. CASE StopJoin \/ StopJoinRaises \/ StopForget
    BY <2>2, <1>b DEF StopJoin, StopJoinRaises, StopForget
  <2>3. CASE StopOff
    <3>1. UNCHANGED <<lib, status, events, wasOp, started>> /\ app = "off"
      BY <2>3 DEF StopOff, PostCommand
    <3>2. app' = "sleep" /\ result' = result
      BY <2>3 DEF StopOff
    <3> QED
      BY <3>1, <3>2, <1>b
  <2>4. CASE StopNothing \/ StopSleep
    BY <2>4, <1>b DEF StopNothing, StopSleep
  <2>5. CASE StopShutdown
    <3>1. events' = <<>> /\ UNCHANGED <<status, wasOp, started, result>> /\ app' = "unmark"
          /\ app = "shutdown"
      BY <2>5 DEF StopShutdown, PlwShutdown
    <3> QED
      BY <3>1
  <2>6. CASE StopUnmark
    BY <2>6 DEF StopUnmark
  <2> QED
    BY <1>2, <2>1, <2>2, <2>3, <2>4, <2>5, <2>6 DEF Stop
<1>3. CASE Wait
  <2>1. CASE CallWait
    BY <2>1 DEF CallWait, AfterInit
  <2>2. CASE WaitTimesOut \/ WaitReadsFlags
    BY <2>2 DEF WaitTimesOut, WaitReadsFlags, AfterInit
  <2>3. CASE WaitTestsThread
    BY <2>3 DEF WaitTestsThread, AfterInit
  <2> QED
    BY <1>3, <2>1, <2>2, <2>3 DEF Wait
<1>4. CASE Interrupt
  BY <1>4 DEF Interrupt, InTry, AfterInit
<1>5. CASE NativeStack /\ UNCHANGED pyVars
  <2>1. WrapTypeOK
    BY DEF TypeOK
  <2> QED
    BY <1>5, <2>1, NativeFresh, NativeFrame DEF pyVars
<1>6. ASSUME NEW t \in Threads, Supervisor(t) PROVE Fresh'
  <2>1. UNCHANGED <<lib, status, events, wasOp, started, app, result>>
    BY <1>6 DEF Supervisor, SupervisorTest, SupervisorProcess, SupervisorCheck, SupervisorWait,
                Supervise
  <2> QED
    BY <2>1
<1>7. CASE UNCHANGED vars
  BY <1>7 DEF vars, pyVars
<1> QED
  BY <1>1, <1>2, <1>3, <1>4, <1>5, <1>6, <1>7 DEF Next

\* wait_operational() never answers True on the flags, or the events, of an
\* earlier session, whatever failed or was interrupted before.
THEOREM TrueIsFresh == Spec => []WaitTrueIsFresh
<1>1. Init => TypeOK /\ PollsLeft /\ Progress /\ Fresh
  BY InitTyped, InitProgress, InitFresh
<1>2. TypeOK /\ PollsLeft /\ Progress /\ Fresh /\ [Next]_vars
        => TypeOK' /\ PollsLeft' /\ Progress' /\ Fresh'
  BY NextTyped, NextProgress, NextFresh
<1>3. Fresh => WaitTrueIsFresh
  BY DEF Fresh, WaitTrueIsFresh
<1> QED
  BY <1>1, <1>2, <1>3, PTL DEF Spec

-----------------------------------------------------------------------------
(* PowerlinkStack implements Lifecycle.                                     *)

\* An image is only made on a created stack, and only plw_alloc_pi makes it;
\* stop() gets beyond its test of `_started` only when it is set.
Built ==
  /\ lib # "created" => image = "none"
  /\ app \in {"load", "alloc"} => image = "none"
  /\ app \in {"sleep", "shutdown", "unmark"} => started

LEMMA InitBuilt == Init => Built
BY DEF Init, WrapInit, Built

LEMMA NextBuilt ==
  ASSUME TypeOK, Progress, Built, [Next]_vars
  PROVE  Built'
<1> USE DEF Built, Goto, End, Checked, wrapVars, shimVars
<1>a. app \in AfterInit => lib = "created"
  BY DEF Progress, StartProgress
<1>1. CASE Start
  <2>1. CASE StartInit
    BY <2>1 DEF StartInit, PlwInit, InitOutcomesNow, InitOutcomes
  <2>2. CASE StartAllocPi
    BY <2>2, <1>a DEF StartAllocPi, PlwAllocPi, AfterInit
  <2>3. CASE StartNmt
    BY <2>3 DEF StartNmt, PostCommand
  <2>4. CASE CallStart \/ StartLoadCdc \/ StartMark \/ StartClear \/ StartThread \/ StartSpawn
    BY <2>4 DEF CallStart, StartLoadCdc, StartMark, StartClear, StartThread, StartSpawn
  <2> QED
    BY <1>1, <2>1, <2>2, <2>3, <2>4 DEF Start
<1>2. CASE Stop
  <2>1. CASE StopOff
    BY <2>1 DEF StopOff, PostCommand
  <2>2. CASE StopShutdown
    BY <2>2 DEF StopShutdown, PlwShutdown, ImageAfterShutdown
  <2>3. CASE CallStop \/ StopJoin \/ StopJoinRaises \/ StopForget \/ StopNothing \/ StopSleep
             \/ StopUnmark
    BY <2>3 DEF CallStop, StopEntry, StopJoin, StopJoinRaises, StopForget, StopNothing,
                StopSleep, StopUnmark
  <2> QED
    BY <1>2, <2>1, <2>2, <2>3 DEF Stop
<1>3. CASE Wait
  BY <1>3 DEF Wait, CallWait, WaitTimesOut, WaitReadsFlags, WaitTestsThread
<1>4. CASE Interrupt
  BY <1>4 DEF Interrupt, InTry
<1>5. CASE NativeStack /\ UNCHANGED pyVars
  BY <1>5, NativeFrame DEF pyVars
<1>6. ASSUME NEW t \in Threads, Supervisor(t) PROVE Built'
  BY <1>6 DEF Supervisor, SupervisorTest, SupervisorProcess, SupervisorCheck, SupervisorWait, Supervise
<1>7. CASE UNCHANGED vars
  BY <1>7 DEF vars, pyVars
<1> QED
  BY <1>1, <1>2, <1>3, <1>4, <1>5, <1>6, <1>7 DEF Next

Watched == \E t \in Threads : Alive(t)

LEMMA InitMaps == Init => Contract!Init
BY DEF Init, WrapInit, Contract!Init, Native, Alive

\* A step that touches neither the native side, nor `_started`, nor a supervisor.
LEMMA Unseen ==
  ASSUME UNCHANGED <<lib, image, mutexReady, started, supervisor>>
  PROVE  UNCHANGED Contract!vars
BY DEF Contract!vars, Native, Alive

\* The steps of start() that build, in whatever state a failed one has left.
LEMMA StartMaps ==
  ASSUME TypeOK, Progress, Supervised, Built, Start
  PROVE  Contract!Next \/ UNCHANGED Contract!vars
<1> USE DEF Goto, End, Checked, wrapVars, shimVars
<1>a. app \notin {"idle", "poll", "alive", "join"} => ~Watched
  BY DEF Supervised, Watched
<1>b. /\ app \in BeforeMark => ~started
      /\ app \in AfterMark => started
      /\ app \in AfterInit => lib = "created" /\ mutexReady
      /\ app \in AfterAlloc => image = "sized"
  BY DEF Progress, StartProgress
<1>c. UNCHANGED supervisor => (Watched' <=> Watched)
  BY DEF Watched, Alive
<1>1. CASE CallStart \/ StartLoadCdc \/ StartClear
  BY <1>1, Unseen DEF CallStart, StartLoadCdc, StartClear
<1>2. CASE StartNmt
  BY <1>2, Unseen DEF StartNmt, PostCommand
<1>3. CASE StartInit
  <2>1. ~started /\ ~Watched /\ started' = started /\ ~Watched'
    BY <1>3, <1>a, <1>b, <1>c DEF StartInit, BeforeMark
  <2>2. \/ Native' = Native
        \/ Native # "up" /\ Native' \in {"partial", "up"}
    <3>1. PICK o \in InitOutcomesNow : PlwInit(o)
      BY <1>3 DEF StartInit
    <3>2. mutexReady' = TRUE /\ image' = image /\ (lib = "created" => lib' = "created")
      BY <3>1 DEF PlwInit, InitOutcomesNow, InitOutcomes
    <3>3. lib # "created" => image = "none"
      BY DEF Built
    <3> QED
      BY <3>2, <3>3 DEF Native
  <2> QED
    BY <2>1, <2>2 DEF Contract!Next, Contract!Build, Contract!vars, Watched
<1>4. CASE StartAllocPi
  <2>1. ~started /\ ~Watched /\ started' = started /\ ~Watched'
    BY <1>4, <1>a, <1>b, <1>c DEF StartAllocPi, BeforeMark
  <2>2. lib = "created" /\ mutexReady /\ image = "none" /\ UNCHANGED <<lib, mutexReady>>
    BY <1>4, <1>b DEF StartAllocPi, PlwAllocPi, AfterInit, Built
  <2>3. Native # "up" /\ Native' \in {"partial", "up"}
    BY <2>2 DEF Native, TypeOK, WrapTypeOK
  <2> QED
    BY <2>1, <2>3 DEF Contract!Next, Contract!Build, Watched
<1>5. CASE StartMark
  <2>1. ~started /\ started' /\ ~Watched /\ ~Watched' /\ Native = "up" /\ Native' = Native
    BY <1>5, <1>a, <1>b, <1>c DEF StartMark, Native, BeforeMark, AfterInit, AfterAlloc
  <2>2. started' = TRUE
    BY <1>5 DEF StartMark
  <2> QED
    BY <2>1, <2>2 DEF Contract!Next, Contract!Promise, Watched
<1>6. CASE StartThread
  <2>1. PICK t \in Threads \ Created : supervisor' = [supervisor EXCEPT ![t] = "new"]
    BY <1>6 DEF StartThread
  <2>2. ~Watched
    BY <1>6, <1>a DEF StartThread
  <2>3. ~Watched'
    BY <2>1, <2>2 DEF Watched, Alive, TypeOK
  <2>4. UNCHANGED <<lib, image, mutexReady, started>>
    BY <1>6 DEF StartThread
  <2> QED
    BY <2>2, <2>3, <2>4 DEF Contract!vars, Native, Watched
<1>7. CASE StartSpawn
  <2>1. CASE UNCHANGED supervisor
    BY <1>7, <2>1, Unseen DEF StartSpawn
  <2>2. CASE supervisor' = [supervisor EXCEPT ![thread] = "test"]
    <3>1. started /\ started' = started /\ Native = "up" /\ Native' = Native
      BY <1>7, <1>b DEF StartSpawn, Native, AfterMark, AfterInit, AfterAlloc
    <3>2. ~Watched
      BY <1>7, <1>a DEF StartSpawn
    <3>3. thread \in Threads /\ supervisor'[thread] = "test"
      BY <1>7, <2>2 DEF StartSpawn, TypeOK
    <3>4. Watched'
      BY <3>3, BoundsAssumption DEF Watched, Alive, Threads
    <3> QED
      BY <3>1, <3>2, <3>4 DEF Contract!Next, Contract!Watch, Watched
  <2> QED
    BY <1>7, <2>1, <2>2 DEF StartSpawn
<1> QED
  BY <1>1, <1>2, <1>3, <1>4, <1>5, <1>6, <1>7 DEF Start

\* The steps of stop(): a repeated plw_shutdown takes down what is down.
LEMMA StopMaps ==
  ASSUME TypeOK, Progress, Supervised, Built, Stop
  PROVE  Contract!Next \/ UNCHANGED Contract!vars
<1> USE DEF Goto, End, wrapVars, shimVars
<1>a. app \notin {"idle", "poll", "alive", "join"} => ~Watched
  BY DEF Supervised, Watched
<1>b. UNCHANGED supervisor => (Watched' <=> Watched)
  BY DEF Watched, Alive
<1>1. CASE CallStop \/ StopJoin \/ StopJoinRaises \/ StopForget \/ StopNothing \/ StopSleep
  BY <1>1, Unseen DEF CallStop, StopJoin, StopJoinRaises, StopForget, StopNothing, StopSleep
<1>2. CASE StopOff
  BY <1>2, Unseen DEF StopOff, PostCommand
<1>3. CASE StopShutdown
  <2>1. started /\ started' = started /\ ~Watched /\ ~Watched'
    BY <1>3, <1>a, <1>b DEF StopShutdown, Built
  <2>2. Native' = "down"
    BY <1>3 DEF StopShutdown, PlwShutdown, ImageAfterShutdown, Native
  <2> QED
    BY <2>1, <2>2 DEF Contract!Next, Contract!TakeDown, Watched
<1>4. CASE StopUnmark
  <2>1. started /\ started' = FALSE /\ ~Watched /\ ~Watched'
    BY <1>4, <1>a, <1>b DEF StopUnmark, Built
  <2>2. Native = "down" /\ Native' = Native
    BY <1>4 DEF StopUnmark, Progress, StopProgress, Native
  <2> QED
    BY <2>1, <2>2 DEF Contract!Next, Contract!Release, Watched
<1> QED
  BY <1>1, <1>2, <1>3, <1>4 DEF Stop

\* A supervisor that ends is the only one.
LEMMA SupervisorMaps ==
  ASSUME NEW t \in Threads, Supervisor(t)
  PROVE  Contract!Next \/ UNCHANGED Contract!vars
<1>1. UNCHANGED <<lib, image, mutexReady, started>> /\ Alive(t)
  BY DEF Supervisor, SupervisorTest, SupervisorProcess, SupervisorCheck, SupervisorWait,
         Supervise, wrapVars, shimVars, Alive
<1>2. Watched
  BY <1>1 DEF Watched
<1>3. Native' = Native
  BY <1>1 DEF Native
<1>4. CASE Watched'
  BY <1>1, <1>2, <1>3, <1>4 DEF Contract!vars, Watched
<1>5. CASE ~Watched'
  BY <1>1, <1>2, <1>3, <1>5 DEF Contract!Next, Contract!Unwatch, Watched
<1> QED
  BY <1>4, <1>5

LEMMA NextMaps ==
  ASSUME TypeOK, Progress, Supervised, Built, [Next]_vars
  PROVE  [Contract!Next]_(Contract!vars)
<1>1. CASE Start
  BY <1>1, StartMaps
<1>2. CASE Stop
  BY <1>2, StopMaps
<1>3. CASE Wait \/ Interrupt
  BY <1>3, Unseen DEF Wait, CallWait, WaitTimesOut, WaitReadsFlags, WaitTestsThread, Interrupt,
                      Goto, End, wrapVars, shimVars
<1>4. CASE NativeStack /\ UNCHANGED pyVars
  BY <1>4, NativeFrame, Unseen DEF pyVars
<1>5. ASSUME NEW t \in Threads, Supervisor(t) PROVE Contract!Next \/ UNCHANGED Contract!vars
  BY <1>5, SupervisorMaps
<1>6. CASE UNCHANGED vars
  BY <1>6, Unseen DEF vars, pyVars, wrapVars, shimVars
<1> QED
  BY <1>1, <1>2, <1>3, <1>4, <1>5, <1>6 DEF Next

\* stack.py implements the abstract lifecycle, whatever fails and wherever an
\* interrupt comes: a stack is built, promised, watched, unwatched, taken down
\* and released in this order.
THEOREM ImplementsLifecycle == ASSUME ~JoinMayTimeOut PROVE Spec => LifecycleSpec
<1>1. Init => StackInv /\ Built /\ Contract!Init
  BY InitTyped, InitProgress, InitSupervised, InitBuilt, InitMaps DEF StackInv
<1>2. StackInv /\ Built /\ [Next]_vars
        => StackInv' /\ Built' /\ [Contract!Next]_(Contract!vars)
  BY NextTyped, NextProgress, NextSupervised, NextBuilt, NextMaps DEF StackInv
<1> QED
  BY <1>1, <1>2, PTL DEF Spec, LifecycleSpec, Contract!Spec

-----------------------------------------------------------------------------
(* The supervisor of a session stays until stop() or the kernel's death.    *)

\* The event is clear before the thread exists, the thread is new when it is
\* spawned, and one that runs ends only with the kernel part. A thread that
\* could not be started stays new, whatever stop() tells it.
Guarded ==
  interrupts = 0 /\ started =>
    /\ app \in {"thread", "spawn"} => ~stopEvent
    /\ app = "spawn" => supervisor[thread] = "new"
    /\ app \in {"idle", "poll", "alive"} /\ thread # NoThread =>
         \/ supervisor[thread] = "new"
         \/ ~stopEvent /\ (supervisor[thread] # "dead" \/ ~kernelAlive)

LEMMA InitGuarded == Init => Guarded
BY DEF Init, Guarded

\* The native stack never brings the kernel part back.
LEMMA NativeDeath == NativeStack /\ kernelAlive' => kernelAlive
<1> SUFFICES ASSUME NativeStack, kernelAlive' PROVE kernelAlive
  OBVIOUS
<1> USE DEF shimVars
<1>1. CASE ProcessEvents \/ KernelDies
  BY <1>1 DEF ProcessEvents, KernelDies
<1>2. ASSUME NEW state, NEW e, Enter(state, e) PROVE kernelAlive
  BY <1>2 DEF Enter
<1> QED
  BY <1>1, <1>2 DEF NativeStack, MnObeys, MnReachesOp, MnFallsBack, NodeReports

LEMMA NextGuarded ==
  ASSUME TypeOK, Progress, Upright, Guarded, [Next]_vars
  PROVE  Guarded'
<1> USE DEF Guarded, Goto, End, Checked, wrapVars, shimVars, mnVars
<1>a. /\ app \in {"spawn", "join", "forget"} => thread \in Threads /\ thread # NoThread
      /\ thread # NoThread => thread \in Threads
      /\ interrupts \in 0 .. MaxInterrupts
      /\ supervisor = [t \in Threads |-> supervisor[t]]
  BY NoThreadIsNone DEF TypeOK
<1>b. app \in BeforeMark => ~started
  BY DEF Progress, StartProgress
<1>1. CASE Start
  <2>1. CASE CallStart
    BY <2>1 DEF CallStart
  <2>2. CASE StartInit \/ StartLoadCdc \/ StartAllocPi \/ StartNmt
    <3>1. app \in BeforeMark /\ UNCHANGED started
      BY <2>2 DEF StartInit, StartLoadCdc, StartAllocPi, StartNmt, BeforeMark
    <3> QED
      BY <3>1, <1>b
  <2>3. CASE StartMark
    BY <2>3 DEF StartMark
  <2>4. CASE StartClear
    BY <2>4 DEF StartClear
  <2>5. CASE StartThread
    <3>1. PICK t \in Threads : thread' = t /\ supervisor' = [supervisor EXCEPT ![t] = "new"]
      BY <2>5 DEF StartThread
    <3>2. supervisor'[thread'] = "new"
      BY <3>1, <1>a
    <3> QED
      BY <2>5, <3>2 DEF StartThread
  <2>6. CASE StartSpawn
    <3>1. /\ app = "spawn" /\ app' = "idle" /\ thread' = thread /\ thread \in Threads
          /\ UNCHANGED <<stopEvent, started, interrupts>>
      BY <2>6, <1>a DEF StartSpawn
    <3>2. supervisor'[thread] = "test" \/ supervisor'[thread] = supervisor[thread]
      BY <2>6, <3>1, <1>a DEF StartSpawn
    <3> QED
      BY <3>1, <3>2
  <2> QED
    BY <1>1, <2>1, <2>2, <2>3, <2>4, <2>5, <2>6 DEF Start
<1>2. CASE Stop
  <2>1. CASE CallStop
    BY <2>1 DEF CallStop, StopEntry
  <2>2. CASE StopJoinRaises
    BY <2>2 DEF StopJoinRaises
  <2>3. CASE StopJoin \/ StopForget \/ StopOff \/ StopSleep \/ StopShutdown
    BY <2>3 DEF StopJoin, StopForget, StopOff, StopSleep, StopShutdown
  <2>4. CASE StopNothing \/ StopUnmark
    BY <2>4 DEF StopNothing, StopUnmark
  <2> QED
    BY <1>2, <2>1, <2>2, <2>3, <2>4 DEF Stop
<1>3. CASE Wait
  BY <1>3 DEF Wait, CallWait, WaitTimesOut, WaitReadsFlags, WaitTestsThread
<1>4. CASE Interrupt
  <2>1. interrupts' # 0
    BY <1>4, <1>a DEF Interrupt
  <2> QED
    BY <2>1
<1>5. CASE NativeStack /\ UNCHANGED pyVars
  BY <1>5, NativeDeath DEF pyVars
<1>6. ASSUME NEW t \in Threads, Supervisor(t) PROVE Guarded'
  <2>1. UNCHANGED <<kernelAlive, started, stopEvent, thread, app, interrupts>>
    BY <1>6 DEF Supervisor, SupervisorTest, SupervisorProcess, SupervisorCheck, SupervisorWait,
                Supervise
  <2>2. Alive(t) /\ \A u \in Threads : u # t => supervisor'[u] = supervisor[u]
    BY <1>6, <1>a DEF Supervisor, SupervisorTest, SupervisorProcess, SupervisorCheck,
                SupervisorWait, Supervise, Alive
  <2>3. CASE t # thread
    BY <2>1, <2>2, <2>3, <1>a
  <2>4. CASE t = thread /\ interrupts = 0 /\ started /\ app \in {"idle", "poll", "alive"}
    <3>1. lib = "created" /\ ~stopEvent
      BY <2>2, <2>4, <1>a DEF Upright, AfterForget, Alive
    <3>2. supervisor'[t] # "dead" \/ ~kernelAlive
      BY <1>6, <3>1, <1>a DEF Supervisor, SupervisorTest, SupervisorProcess, SupervisorCheck,
                SupervisorWait, Supervise, AfterCheck
    <3> QED
      BY <2>1, <2>4, <3>1, <3>2
  <2>5. CASE t = thread /\ ~(interrupts = 0 /\ started /\ app \in {"idle", "poll", "alive"})
    BY <2>1, <2>2, <2>5 DEF Alive
  <2> QED
    BY <2>3, <2>4, <2>5
<1>7. CASE UNCHANGED vars
  BY <1>7 DEF vars, pyVars
<1> QED
  BY <1>1, <1>2, <1>3, <1>4, <1>5, <1>6, <1>7 DEF Next

\* A started session is supervised until stop() is called or the kernel part
\* dies: the event of the session before is cleared in time, and no supervisor
\* gives up a stack that lives, even when joins time out.
THEOREM SupervisedWhileItLives == Spec => []SupervisedUntilDeath
<1>1. Init => TypeOK /\ PollsLeft /\ Progress /\ Upright /\ Guarded
  BY InitTyped, InitProgress, InitUpright, InitGuarded
<1>2. TypeOK /\ PollsLeft /\ Progress /\ Upright /\ Guarded /\ [Next]_vars
        => TypeOK' /\ PollsLeft' /\ Progress' /\ Upright' /\ Guarded'
  BY NextTyped, NextProgress, NextUpright, NextGuarded
<1>3. Guarded => SupervisedUntilDeath
  BY DEF Guarded, SupervisedUntilDeath
<1> QED
  BY <1>1, <1>2, <1>3, PTL DEF Spec

-----------------------------------------------------------------------------
(* The flags follow the MN.                                                 *)

\* The NMT state that an event announces.
Announced(e) == IF e = "ms_op" THEN "op" ELSE IF e = "gs_off" THEN "off" ELSE "preop"

NmtQueued == \E i \in 1 .. Len(events) : events[i] \in NmtEvents

\* The last NMT event that is queued announces the state the MN is in.
LastAnnounces ==
  \A i \in 1 .. Len(events) :
    events[i] \in NmtEvents /\ (\A j \in i + 1 .. Len(events) : events[j] \notin NmtEvents) =>
      Announced(events[i]) = nmt

FlagsShow == (status.mn <=> nmt = "op") /\ (status.running <=> nmt # "off")

Quiet == nmt = "off" /\ command = "none" /\ events = <<>>

\* A stack that does not exist is quiet; so is one that start() has made and
\* not yet reset, where a second plw_init may clear the flags.
Told ==
  /\ lib # "created" => Quiet
  /\ interrupts = 0 /\ ~started /\ app # "mark" => Quiet
  /\ interrupts = 0 /\ lib = "created" => LastAnnounces /\ (~NmtQueued => FlagsShow)

LEMMA EmptyQueueTells == events' = <<>> => LastAnnounces' /\ ~NmtQueued'
BY DEF LastAnnounces, NmtQueued

LEMMA InitTold == Init => Told
BY DEF Init, WrapInit, Told, Quiet

LEMMA DeliveryTells ==
  ASSUME WrapTypeOK, ProcessEvents, LastAnnounces, ~NmtQueued => FlagsShow
  PROVE  LastAnnounces' /\ (~NmtQueued' => FlagsShow')
<1>1. events \in Seq(Events) /\ events # <<>> /\ events' = Tail(events) /\ nmt' = nmt
  BY DEF ProcessEvents, WrapTypeOK, Events
<1>2. Len(events) \in Nat /\ Len(events') \in Nat /\ Len(events') = Len(events) - 1
      /\ Head(events) = events[1] /\ 1 \in 1 .. Len(events)
  BY <1>1, EmptySeq, LenProperties, HeadTailProperties
<1>3. \A i \in 1 .. Len(events') : events'[i] = events[i + 1] /\ i + 1 \in 1 .. Len(events)
  BY <1>1, <1>2, HeadTailProperties
<1>4. LastAnnounces'
  <2> SUFFICES ASSUME NEW i \in 1 .. Len(events'), events'[i] \in NmtEvents,
                      \A j \in i + 1 .. Len(events') : events'[j] \notin NmtEvents
               PROVE  Announced(events'[i]) = nmt
    BY <1>1 DEF LastAnnounces, Announced
  <2>1. \A j \in i + 2 .. Len(events) : events[j] \notin NmtEvents
    <3> SUFFICES ASSUME NEW j \in i + 2 .. Len(events) PROVE events[j] \notin NmtEvents
      OBVIOUS
    <3>1. j - 1 \in i + 1 .. Len(events') /\ j - 1 \in 1 .. Len(events') /\ (j - 1) + 1 = j
      BY <1>2
    <3> QED
      BY <3>1, <1>3
  <2>2. i + 1 \in 1 .. Len(events) /\ events'[i] = events[i + 1] /\ (i + 1) + 1 = i + 2
    BY <1>2, <1>3
  <2> QED
    BY <2>1, <2>2 DEF LastAnnounces
<1>5. ASSUME ~NmtQueued' PROVE FlagsShow'
  <2>1. \A j \in 2 .. Len(events) : events[j] \notin NmtEvents
    <3> SUFFICES ASSUME NEW j \in 2 .. Len(events) PROVE events[j] \notin NmtEvents
      OBVIOUS
    <3>1. j - 1 \in 1 .. Len(events') /\ (j - 1) + 1 = j
      BY <1>2
    <3> QED
      BY <3>1, <1>3, <1>5 DEF NmtQueued
  <2>2. CASE Head(events) \in NmtEvents
    <3>1. Announced(Head(events)) = nmt
      BY <1>2, <2>1, <2>2 DEF LastAnnounces
    <3>2. status' = AfterNmtEvent(status, Head(events))
      BY <2>2 DEF ProcessEvents
    <3>3. /\ AfterNmtEvent(status, Head(events)).mn <=> Head(events) = "ms_op"
          /\ AfterNmtEvent(status, Head(events)).running <=> Head(events) # "gs_off"
      BY DEF AfterNmtEvent, WrapTypeOK
    <3> QED
      BY <1>1, <2>2, <3>1, <3>2, <3>3 DEF FlagsShow, Announced, NmtEvents
  <2>3. CASE Head(events) \notin NmtEvents
    <3>1. ~NmtQueued
      BY <1>2, <2>1, <2>3 DEF NmtQueued
    <3>2. status' = AfterNodeEvent(status, Head(events))
      BY <2>3 DEF ProcessEvents
    <3>3. /\ AfterNodeEvent(status, Head(events)).mn = status.mn
          /\ AfterNodeEvent(status, Head(events)).running = status.running
      BY DEF AfterNodeEvent, WrapTypeOK
    <3> QED
      BY <1>1, <3>1, <3>2, <3>3 DEF FlagsShow
  <2> QED
    BY <2>2, <2>3
<1> QED
  BY <1>4, <1>5

\* An NMT event is queued with the state it announces, a node's event in the
\* state that is.
LEMMA EnterTells ==
  ASSUME WrapTypeOK, NEW state, NEW e \in Events, Enter(state, e),
         e \in NmtEvents => Announced(e) = state,
         e \notin NmtEvents => state = nmt,
         LastAnnounces, ~NmtQueued => FlagsShow
  PROVE  LastAnnounces' /\ (~NmtQueued' => FlagsShow')
<1>1. events \in Seq(Events) /\ events' = Append(events, e) /\ nmt' = state /\ status' = status
  BY DEF Enter, WrapTypeOK, Events, shimVars
<1>2. /\ Len(events) \in Nat /\ Len(events') = Len(events) + 1
      /\ events'[Len(events) + 1] = e
      /\ \A i \in 1 .. Len(events) : events'[i] = events[i]
  BY <1>1, AppendProperties, LenProperties
<1>3. CASE e \in NmtEvents
  <2>1. \A i \in 1 .. Len(events) : Len(events) + 1 \in i + 1 .. Len(events')
    BY <1>2
  <2>2. \A i \in 1 .. Len(events') : i \in 1 .. Len(events) \/ i = Len(events) + 1
    BY <1>2
  <2>3. LastAnnounces'
    BY <1>1, <1>2, <1>3, <2>1, <2>2 DEF LastAnnounces, Announced
  <2>4. NmtQueued'
    BY <1>2, <1>3, <2>1 DEF NmtQueued
  <2> QED
    BY <2>3, <2>4
<1>4. CASE e \notin NmtEvents
  <2>1. \A i \in 1 .. Len(events') : events'[i] \in NmtEvents => i \in 1 .. Len(events)
    BY <1>2, <1>4
  <2>2. \A i \in 1 .. Len(events) : \A j \in i + 1 .. Len(events) :
          j \in i + 1 .. Len(events') /\ events'[j] = events[j]
    BY <1>2
  <2>3. LastAnnounces'
    BY <1>1, <1>2, <1>4, <2>1, <2>2 DEF LastAnnounces, Announced
  <2>4. NmtQueued => NmtQueued'
    <3>1. \A i \in 1 .. Len(events) : i \in 1 .. Len(events')
      BY <1>2
    <3> QED
      BY <1>2, <3>1 DEF NmtQueued
  <2> QED
    BY <1>1, <1>4, <2>3, <2>4 DEF FlagsShow
<1> QED
  BY <1>3, <1>4

\* A quiet stack stays quiet by itself.
LEMMA NativeTells ==
  ASSUME WrapTypeOK, NativeStack
  PROVE  /\ lib = "created" /\ lib' = "created"
         /\ Quiet => Quiet'
         /\ LastAnnounces /\ (~NmtQueued => FlagsShow)
              => LastAnnounces' /\ (~NmtQueued' => FlagsShow')
<1> USE DEF shimVars
<1>a. lib = "created" /\ lib' = "created"
  BY DEF NativeStack, ProcessEvents, MnObeys, MnReachesOp, MnFallsBack, NodeReports, KernelDies, Enter
<1>1. ~Quiet \/ KernelDies
  BY DEF NativeStack, ProcessEvents, MnObeys, MnReachesOp, MnFallsBack, NodeReports, Quiet
<1>2. KernelDies => UNCHANGED <<nmt, command, events, status, lib>>
  BY DEF KernelDies
<1>3. ASSUME LastAnnounces, ~NmtQueued => FlagsShow
      PROVE  LastAnnounces' /\ (~NmtQueued' => FlagsShow')
  <2>1. CASE ProcessEvents
    BY <1>3, <2>1, DeliveryTells
  <2>2. CASE MnObeys
    <3>1. Enter("preop", "ms_preop") \/ Enter("off", "gs_off")
      BY <2>2 DEF MnObeys
    <3>2. /\ Announced("ms_preop") = "preop" /\ Announced("gs_off") = "off"
          /\ {"ms_preop", "gs_off"} \subseteq NmtEvents /\ NmtEvents \subseteq Events
      BY DEF Announced, NmtEvents, Events
    <3> QED
      BY <1>3, <3>1, <3>2, EnterTells
  <2>3. CASE MnReachesOp \/ MnFallsBack
    <3>1. Enter("op", "ms_op") \/ Enter("preop", "ms_preop")
      BY <2>3 DEF MnReachesOp, MnFallsBack
    <3>2. /\ Announced("ms_preop") = "preop" /\ Announced("ms_op") = "op"
          /\ {"ms_preop", "ms_op"} \subseteq NmtEvents /\ NmtEvents \subseteq Events
      BY DEF Announced, NmtEvents, Events
    <3> QED
      BY <1>3, <3>1, <3>2, EnterTells
  <2>4. CASE NodeReports
    <3>1. PICK e \in NodeEvents : Enter(nmt, e)
      BY <2>4 DEF NodeReports
    <3>2. e \in Events /\ e \notin NmtEvents
      BY <3>1 DEF NodeEvents, NmtEvents, Events
    <3> QED
      BY <1>3, <3>1, <3>2, EnterTells
  <2>5. CASE KernelDies
    <3>1. (LastAnnounces' <=> LastAnnounces) /\ (NmtQueued' <=> NmtQueued) /\ (FlagsShow' <=> FlagsShow)
      BY <1>2, <2>5 DEF LastAnnounces, NmtQueued, FlagsShow
    <3> QED
      BY <1>3, <3>1
  <2> QED
    BY <2>1, <2>2, <2>3, <2>4, <2>5 DEF NativeStack
<1>4. KernelDies => (Quiet' <=> Quiet)
  BY <1>2 DEF Quiet
<1> QED
  BY <1>a, <1>1, <1>2, <1>3, <1>4

\* What the third conjunct of Told says depends on these only.
LEMMA ToldFrame ==
  ASSUME UNCHANGED <<events, nmt, status>>
  PROVE  (LastAnnounces' <=> LastAnnounces) /\ (NmtQueued' <=> NmtQueued) /\ (FlagsShow' <=> FlagsShow)
BY DEF LastAnnounces, NmtQueued, FlagsShow

LEMMA NextTold ==
  ASSUME TypeOK, Progress, Built, Told, [Next]_vars
  PROVE  Told'
<1>0. interrupts \in 0 .. MaxInterrupts
  BY DEF TypeOK
<1> USE DEF Told, Goto, End, Checked, wrapVars, shimVars, mnVars
<1>a. /\ app \in BeforeMark => ~started
      /\ app \in AfterInit => lib = "created"
      /\ app = "unmark" => lib = "down"
      /\ app \in {"sleep", "shutdown", "unmark"} => started
  BY DEF Progress, StartProgress, StopProgress, Built
\* Steps that leave the native side alone, in a session or before it.
<1>b. ASSUME UNCHANGED <<lib, nmt, command, events, status>>, interrupts' = 0 => interrupts = 0,
             interrupts = 0 /\ ~started' /\ app' # "mark" /\ lib = "created"
               => ~started /\ app # "mark"
      PROVE  Told'
  <2>1. Quiet' <=> Quiet
    BY <1>b DEF Quiet
  <2> QED
    BY <1>b, <2>1, ToldFrame
<1>1. CASE Start
  <2>1. CASE CallStart \/ StartLoadCdc \/ StartMark \/ StartClear \/ StartThread \/ StartSpawn
    <3>1. UNCHANGED <<lib, nmt, command, events, status, interrupts>>
      BY <2>1 DEF CallStart, StartLoadCdc, StartMark, StartClear, StartThread, StartSpawn
    <3>2. ~started' => ~started /\ app # "mark"
      BY <2>1 DEF CallStart, StartLoadCdc, StartMark, StartClear, StartThread, StartSpawn
    <3> QED
      BY <3>1, <3>2, <1>b
  <2>2. CASE StartInit
    <3>1. PICK o \in InitOutcomesNow : PlwInit(o)
      BY <2>2 DEF StartInit
    <3>2. app = "init" /\ ~started /\ ~started' /\ interrupts' = interrupts
      BY <2>2, <1>a DEF StartInit, BeforeMark
    <3>3. UNCHANGED <<nmt, command, events>> /\ status' = NoFlags
      BY <3>1 DEF PlwInit, FlagsAtInit
    <3>4. lib' # "created" => lib # "created"
      BY <3>1 DEF PlwInit, InitOutcomesNow, InitOutcomes
    <3>5. Quiet' <=> Quiet
      BY <3>3 DEF Quiet
    <3>6. Quiet => LastAnnounces' /\ ~NmtQueued' /\ FlagsShow'
      BY <3>3, EmptyQueueTells DEF Quiet, FlagsShow, NoFlags
    <3> QED
      BY <3>2, <3>4, <3>5, <3>6
  <2>3. CASE StartAllocPi
    <3>1. UNCHANGED <<lib, nmt, command, events, status, interrupts, started>> /\ app # "mark"
      BY <2>3 DEF StartAllocPi, PlwAllocPi
    <3> QED
      BY <3>1, <1>b
  <2>4. CASE StartNmt
    <3>1. PICK ok \in BOOLEAN : PostCommand("reset", ok) /\ Checked(ok, "mark")
      BY <2>4 DEF StartNmt
    <3>2. UNCHANGED <<lib, nmt, events, status, interrupts, started>> /\ lib = "created" /\ app # "mark"
      BY <2>4, <1>a DEF StartNmt, PostCommand, AfterInit
    <3>3. app' # "mark" => command' = command
      BY <3>1 DEF PostCommand
    <3>4. command' = command => (Quiet' <=> Quiet)
      BY <3>2 DEF Quiet
    <3> QED
      BY <3>2, <3>3, <3>4, ToldFrame
  <2> QED
    BY <1>1, <2>1, <2>2, <2>3, <2>4 DEF Start
<1>2. CASE Stop
  <2>1. CASE CallStop \/ StopJoin \/ StopJoinRaises \/ StopForget \/ StopNothing \/ StopSleep
    <3>1. UNCHANGED <<lib, nmt, command, events, status, interrupts, started>> /\ app # "mark"
      BY <2>1 DEF CallStop, StopJoin, StopJoinRaises, StopForget, StopNothing, StopSleep
    <3> QED
      BY <3>1, <1>b
  <2>2. CASE StopOff
    <3>1. UNCHANGED <<lib, nmt, events, status, interrupts, started>> /\ started
      BY <2>2 DEF StopOff, PostCommand
    <3>2. lib # "created" => command' = command
      BY <2>2 DEF StopOff, PostCommand
    <3>3. command' = command => (Quiet' <=> Quiet)
      BY <3>1 DEF Quiet
    <3> QED
      BY <3>1, <3>2, <3>3, ToldFrame
  <2>3. CASE StopShutdown
    <3>1. lib' = "down" /\ Quiet'
      BY <2>3 DEF StopShutdown, PlwShutdown, Quiet
    <3> QED
      BY <3>1
  <2>4. CASE StopUnmark
    <3>1. UNCHANGED <<lib, nmt, command, events, status, interrupts>> /\ lib # "created"
      BY <2>4, <1>a DEF StopUnmark
    <3> QED
      BY <3>1, <1>b
  <2> QED
    BY <1>2, <2>1, <2>2, <2>3, <2>4 DEF Stop
<1>3. CASE Wait
  <2>1. UNCHANGED <<lib, nmt, command, events, status, interrupts, started>> /\ app # "mark"
    BY <1>3 DEF Wait, CallWait, WaitTimesOut, WaitReadsFlags, WaitTestsThread
  <2> QED
    BY <2>1, <1>b
<1>4. CASE Interrupt
  <2>1. UNCHANGED <<lib, nmt, command, events, status>> /\ interrupts' # 0
    BY <1>0, <1>4 DEF Interrupt
  <2>2. Quiet' <=> Quiet
    BY <2>1 DEF Quiet
  <2> QED
    BY <2>1, <2>2
<1>5. CASE NativeStack /\ UNCHANGED pyVars
  <2>1. WrapTypeOK
    BY DEF TypeOK
  <2>2. UNCHANGED <<interrupts, started, app>>
    BY <1>5 DEF pyVars
  <2> QED
    BY <1>5, <2>1, <2>2, NativeTells
<1>6. ASSUME NEW t \in Threads, Supervisor(t) PROVE Told'
  <2>1. UNCHANGED <<lib, nmt, command, events, status, interrupts, started, app>>
    BY <1>6 DEF Supervisor, SupervisorTest, SupervisorProcess, SupervisorCheck, SupervisorWait,
                Supervise
  <2> QED
    BY <2>1, <1>b
<1>7. CASE UNCHANGED vars
  BY <1>7, <1>b DEF vars, pyVars
<1> QED
  BY <1>1, <1>2, <1>3, <1>4, <1>5, <1>6, <1>7 DEF Next

\* Once its events are delivered, the flags tell the MN's state: reaching and
\* leaving Operational, and reaching GS_OFF, are all noticed.
THEOREM FlagsFollowTheMn == Spec => []FlagsTellTheMn
<1>1. Init => TypeOK /\ PollsLeft /\ Progress /\ Built /\ Told
  BY InitTyped, InitProgress, InitBuilt, InitTold
<1>2. TypeOK /\ PollsLeft /\ Progress /\ Built /\ Told /\ [Next]_vars
        => TypeOK' /\ PollsLeft' /\ Progress' /\ Built' /\ Told'
  BY NextTyped, NextProgress, NextBuilt, NextTold
<1>3. TypeOK /\ Told => FlagsTellTheMn
  <2>1. events = <<>> => ~NmtQueued
    BY DEF NmtQueued
  <2> QED
    BY <2>1 DEF Told, FlagsShow, FlagsTellTheMn
<1> QED
  BY <1>1, <1>2, <1>3, PTL DEF Spec
=============================================================================
