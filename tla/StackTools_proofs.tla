---------------------------- MODULE StackTools_proofs ----------------------------
(***************************************************************************)
(* Theorems about StackTools for every tool, every number of interrupts,   *)
(* and every kind of failure unless a theorem says otherwise. What start() *)
(* and stop() do is PowerlinkStack's, and so are the invariants about it.  *)
(***************************************************************************)
EXTENDS StackTools, PowerlinkStack_proofs

\* Ctrl+C outside the methods of PowerlinkStack.
CtrlCElsewhere ==
  /\ interrupts < MaxInterrupts
  /\ interrupts' = interrupts + 1
  /\ UNCHANGED <<wrapVars, started, stopEvent, thread, supervisor, app, result, polls, diedBefore>>

\* What the stack guarantees whether or not joins time out.
StackBase == TypeOK /\ PollsLeft /\ Progress /\ Upright /\ Guarded /\ Fresh

\* A tool's step is one of PowerlinkStack, a Ctrl+C outside of it, or none of it.
LEMMA ToolSteps == [ToolNext]_allVars => [Next]_vars \/ CtrlCElsewhere
<1> SUFFICES ASSUME [ToolNext]_allVars PROVE [Next]_vars \/ CtrlCElsewhere
  OBVIOUS
<1>1. CASE EnterWith
  BY <1>1 DEF EnterWith, Start, Next
<1>2. CASE LeaveWith
  BY <1>2 DEF LeaveWith, Stop, Next
<1>3. CASE MethodStep
  BY <1>3 DEF MethodStep, Next
<1>4. CASE CtrlCInMethod
  BY <1>4 DEF CtrlCInMethod, Next
<1>5. CASE CtrlCOutside \/ CtrlCInBody
  BY <1>5 DEF CtrlCOutside, CtrlCInBody, CtrlCElsewhere
<1>6. CASE Background
  BY <1>6 DEF Background, Next
<1>7. CASE BlockSignals \/ StartSniffer \/ MakeStack \/ StartFailed \/ JoinSniffer \/ Report
  BY <1>7 DEF BlockSignals, StartSniffer, MakeStack, StartFailed, JoinSniffer, Report
<1>8. CASE Entered \/ EnterTry \/ StatementReturns \/ TimeIsUp \/ StatementRaises \/ Left
  BY <1>8 DEF Entered, EnterTry, EnterBody, StatementReturns, TimeIsUp, StatementRaises, Left
<1>9. CASE SnifferEnds \/ Frame \/ Exited \/ UNCHANGED allVars
  BY <1>9 DEF SnifferEnds, Frame, Exited, allVars
<1> QED
  BY <1>1, <1>2, <1>3, <1>4, <1>5, <1>6, <1>7, <1>8, <1>9 DEF ToolNext, Tool

LEMMA ElsewhereKeeps ==
  ASSUME StackBase, CtrlCElsewhere
  PROVE  StackBase' /\ interrupts' # 0
<1>1. interrupts \in 0 .. MaxInterrupts /\ TypeOK
  BY DEF StackBase, TypeOK
<1>2. interrupts' \in 0 .. MaxInterrupts /\ interrupts' # 0
  BY <1>1, BoundsAssumption DEF CtrlCElsewhere
<1>3. UNCHANGED <<lib, image, mutexReady, status, nmt, command, events, kernelAlive, wasOp, started,
                  stopEvent, thread, supervisor, app, result, polls, diedBefore>>
  BY DEF CtrlCElsewhere, wrapVars, shimVars, mnVars
<1>4. TypeOK'
  <2>1. WrapTypeOK'
    BY <1>1, PlwType DEF TypeOK, CtrlCElsewhere
  <2>2. UNCHANGED <<started, stopEvent, thread, app, result, polls, diedBefore>>
    BY <1>3
  <2>3. supervisor' \in [Threads -> {"none", "new", "test", "process", "check", "wait", "dead"}]
    BY <1>1, <1>3 DEF TypeOK
  <2> QED
    BY <1>1, <1>2, <2>1, <2>2, <2>3, SideTyped
<1>5. PollsLeft' /\ Progress' /\ Fresh'
  BY <1>3 DEF StackBase, PollsLeft, Progress, StartProgress, StopProgress, Fresh, FreshFlags, OpQueued
<1>6. Upright' /\ Guarded'
  BY <1>2 DEF Upright, Guarded
<1> QED
  BY <1>2, <1>4, <1>5, <1>6 DEF StackBase

LEMMA StackBaseKept ==
  ASSUME StackBase, [ToolNext]_allVars
  PROVE  StackBase'
<1>1. CASE [Next]_vars
  BY <1>1, NextTyped, NextProgress, NextUpright, NextGuarded, NextFresh DEF StackBase
<1>2. CASE CtrlCElsewhere
  BY <1>2, ElsewhereKeeps
<1> QED
  BY <1>1, <1>2, ToolSteps

LEMMA SupervisedKept ==
  ASSUME ~JoinMayTimeOut, StackBase, Supervised, [ToolNext]_allVars
  PROVE  Supervised'
<1>1. CASE [Next]_vars
  BY <1>1, NextSupervised DEF StackBase
<1>2. CASE CtrlCElsewhere
  BY <1>2 DEF CtrlCElsewhere, Supervised, Alive, wrapVars, shimVars
<1> QED
  BY <1>1, <1>2, ToolSteps

-----------------------------------------------------------------------------
(* What the methods and the background do to what the tool relies on.       *)

Down == lib = "down" /\ image = "none" /\ ~mutexReady /\ ~started
Up == started /\ thread # NoThread /\ supervisor[thread] # "new"

InStart == BeforeMark \cup AfterMark
InStop == {"join"} \cup AfterForget \cup {"forget"}

LEMMA StartMoves ==
  ASSUME TypeOK, Progress, Start, app # "idle"
  PROVE  /\ app \in InStart /\ app' \in InStart \cup {"idle"} /\ app' # "init"
         /\ app' # "idle" => result' = result
         /\ app' = "idle" => result' \in {"raised", "started"}
         /\ result' = "started" /\ app' = "idle" => Up' /\ app = "spawn"
         /\ interrupts' = interrupts
         /\ app # "init" => UNCHANGED <<lib, wasOp>>
<1> USE DEF Goto, End, Checked, wrapVars, shimVars, mnVars, InStart, BeforeMark, AfterMark
<1>1. CASE StartInit
  BY <1>1 DEF StartInit
<1>2. CASE StartLoadCdc \/ StartMark \/ StartClear \/ StartThread
  BY <1>2 DEF StartLoadCdc, StartMark, StartClear, StartThread
<1>3. CASE StartAllocPi \/ StartNmt
  BY <1>3 DEF StartAllocPi, StartNmt, PlwAllocPi, PostCommand
<1>4. CASE StartSpawn
  <2>1. /\ app = "spawn" /\ app' = "idle" /\ UNCHANGED <<interrupts, lib, wasOp, started, thread>>
        /\ result' \in {"raised", "started"}
    BY <1>4 DEF StartSpawn
  <2>2. started /\ thread # NoThread /\ thread \in Threads
    BY <2>1 DEF Progress, StartProgress, TypeOK
  <2>3. result' = "started" => supervisor'[thread] = "test"
    <3>1. supervisor = [t \in Threads |-> supervisor[t]]
      BY DEF TypeOK
    <3> QED
      BY <1>4, <2>2, <3>1 DEF StartSpawn
  <2> QED
    BY <2>1, <2>2, <2>3 DEF Up
<1> QED
  BY <1>1, <1>2, <1>3, <1>4 DEF Start, CallStart

LEMMA StopMoves ==
  ASSUME TypeOK, Progress, Stop, app # "idle"
  PROVE  /\ app \in InStop /\ app' \in InStop \cup {"idle"}
         /\ app' # "idle" => UNCHANGED <<started, result>>
         /\ app' # "join"
         /\ app' = "idle" => \/ app = "unmark" /\ Down'
                             \/ app = "off" /\ ~started
                             \/ app = "join" /\ supervisor[thread] = "new"
         /\ UNCHANGED <<interrupts, wasOp>>
<1> USE DEF Goto, End, wrapVars, shimVars, mnVars, InStop, AfterForget
<1>1. CASE StopJoin \/ StopForget \/ StopNothing \/ StopSleep
  BY <1>1 DEF StopJoin, StopForget, StopNothing, StopSleep
<1>2. CASE StopJoinRaises
  BY <1>2 DEF StopJoinRaises
<1>3. CASE StopOff \/ StopShutdown
  BY <1>3 DEF StopOff, StopShutdown, PostCommand, PlwShutdown
<1>4. CASE StopUnmark
  BY <1>4 DEF StopUnmark, Down, Progress, StopProgress
<1> QED
  BY <1>1, <1>2, <1>3, <1>4 DEF Stop, CallStop

LEMMA BackgroundFrame ==
  ASSUME TypeOK, Background
  PROVE  /\ UNCHANGED <<lib, image, mutexReady, started, thread, app, result, interrupts>>
         /\ wasOp => wasOp'
         /\ \A t \in Threads : supervisor[t] # "new" => supervisor'[t] # "new"
         /\ UNCHANGED toolVars /\ place # "exited"
<1>1. CASE NativeStack /\ UNCHANGED pyVars
  BY <1>1, NativeFrame DEF Background, pyVars
<1>2. ASSUME NEW t \in Threads, Supervisor(t)
      PROVE  /\ UNCHANGED <<lib, image, mutexReady, started, thread, app, result, interrupts>>
             /\ wasOp => wasOp'
             /\ \A u \in Threads : supervisor[u] # "new" => supervisor'[u] # "new"
  <2>1. PICK from \in RunningAt, to \in RunningAt \cup {"dead"} : Supervise(t, from, to)
    BY <1>2 DEF Supervisor, SupervisorTest, SupervisorProcess, SupervisorCheck, SupervisorWait,
                AfterCheck, RunningAt
  <2>2. supervisor = [u \in Threads |-> supervisor[u]]
    BY DEF TypeOK
  <2>3. \A u \in Threads : supervisor'[u] = IF u = t THEN to ELSE supervisor[u]
    BY <2>1, <2>2 DEF Supervise
  <2>4. to # "new"
    BY <2>1 DEF RunningAt
  <2> QED
    BY <2>1, <2>3, <2>4 DEF Supervise, wrapVars, shimVars, mnVars
<1> QED
  BY <1>1, <1>2 DEF Background
-----------------------------------------------------------------------------
(* Where the tool is, and what that says of the stack.                      *)

\* start() has been called and nothing has interrupted it, or it has ended.
Starting ==
  /\ app \in InStart \cup {"idle"}
  /\ app # "idle" => result = "none" /\ interrupts = 0
  /\ app = "idle" /\ result = "started" => interrupts = 0 /\ Up

\* stop() is on its way to the end of its `finally`, or it has got there, or an
\* interrupt has cut it short.
Stopping ==
  /\ app \in InStop \cup {"idle"}
  /\ app # "idle" => started /\ ~cut /\ result \in {"none", "interrupted"}
  /\ app = "join" => supervisor[thread] # "new"
  /\ app = "idle" /\ (~cut \/ result = "stopped") => Down

BeforeStart == {"block", "sniff", "make", "enter"}
BeforeBody == BeforeStart \cup {"starting", "started"}

Places ==
  /\ place \in BeforeStart => Down /\ interrupts = 0
  /\ place \in BeforeBody => ~entered /\ ~reached
  /\ place = "starting" => Starting
  /\ place \in {"started", "body"} => Up /\ interrupts = 0
  /\ place = "leave" => Up
  /\ place = "stopping" => Stopping
  /\ place \in {"join", "after"} => Down /\ sniffer # "runs"
  /\ place = "exited" /\ ((entered /\ ~cut) \/ exit = "0") => Down
  /\ place \notin {"stopping", "join", "after", "exited"} => ~cut

Invariant == StackBase /\ ToolTypeOK /\ Places

LEMMA BodyShape ==
  \A c \in Tools : /\ DOMAIN Body[c] = 1 .. 3 /\ Len(Body[c]) = 3
                   /\ c \in DOMAIN LoopFrom => LoopFrom[c] \in 1 .. 3
BY DEF Tools, Body, LoopFrom

LEMMA InitTool == ToolInit => Invariant
<1> SUFFICES ASSUME ToolInit PROVE Invariant
  OBVIOUS
<1>1. Init
  BY DEF ToolInit
<1>2. StackBase
  BY <1>1, InitTyped, InitProgress, InitUpright, InitGuarded, InitFresh DEF StackBase
<1>3. ToolTypeOK
  BY <1>1 DEF ToolInit, ToolTypeOK, Wires, Init
<1>4. Places
  BY <1>1 DEF ToolInit, Init, WrapInit, Places, BeforeStart, BeforeBody, Down
<1> QED
  BY <1>2, <1>3, <1>4 DEF Invariant

\* What ToolTypeOK says of the variables with finitely many values.
Kinds ==
  /\ place \in {"block", "sniff", "make", "enter", "starting", "started", "body", "leave",
                "stopping", "join", "after", "exited"}
  /\ exit \in {"0", "2", "error"}
  /\ app # "idle" => place \in {"starting", "stopping"}
  /\ open \subseteq {"main", "sniffer", "supervisor"}
  /\ sniffer \in {"none", "runs", "told", "ended"}
  /\ verdict \in {"none", "not op", "op", "no tx", "answers", "silent"}

LEMMA ToolStays == [ToolNext]_allVars => tool' = tool
<1> USE DEF toolVars, allVars
<1>1. Tool => tool' = tool
  BY DEF Tool, BlockSignals, StartSniffer, MakeStack, EnterWith, StartFailed, Entered, EnterTry,
         EnterBody, StatementReturns, TimeIsUp, StatementRaises, LeaveWith, Left, JoinSniffer, Report,
         MethodStep
<1> QED
  BY <1>1 DEF ToolNext, CtrlCOutside, CtrlCInBody, CtrlCInMethod, SnifferEnds, Frame, Background, Exited

LEMMA ToolTyped ==
  ASSUME ToolTypeOK, [ToolNext]_allVars
  PROVE  ToolTypeOK'
<1>a. tool \in Tools /\ (place = "body" => at \in DOMAIN Body[tool])
  BY DEF ToolTypeOK
<1>b. /\ DOMAIN Body[tool] = 1 .. 3 /\ Len(Body[tool]) = 3
      /\ tool \in DOMAIN LoopFrom => LoopFrom[tool] \in 1 .. 3
  BY <1>a, BodyShape
<1>c. 1 \in DOMAIN Body[tool] /\ (place = "body" => at \in 1 .. 3)
  BY <1>a, <1>b
<1>d. StatementReturns => /\ IF place' = "body" THEN at' \in DOMAIN Body[tool] ELSE at' = 0
                          /\ place' \in {"body", "leave"}
  <2> SUFFICES ASSUME StatementReturns
               PROVE  /\ IF place' = "body" THEN at' \in DOMAIN Body[tool] ELSE at' = 0
                      /\ place' \in {"body", "leave"}
    OBVIOUS
  <2>1. place = "body" /\ at \in 1 .. 3
    BY <1>c DEF StatementReturns
  <2>2. CASE at < 3 /\ at' = at + 1 /\ UNCHANGED place
    BY <2>1, <2>2, <1>b
  <2>3. CASE tool \in DOMAIN LoopFrom /\ at' = LoopFrom[tool] /\ UNCHANGED place
    BY <2>1, <2>3, <1>b
  <2>4. CASE at' = 0 /\ place' = "leave"
    BY <2>4
  <2> QED
    BY <2>2, <2>3, <2>4, <1>b DEF StatementReturns
<1>e. Kinds /\ tool' = tool
  <2>1. Kinds
    BY DEF ToolTypeOK, Kinds
  <2> QED
    BY <2>1, ToolStays
\* What a step must not disturb.
<1>f. ASSUME Kinds', place' = "body" => at' \in DOMAIN Body[tool], place' # "body" => at' = 0,
             wire' \in Wires
      PROVE  ToolTypeOK'
  BY <1>a, <1>e, <1>f DEF ToolTypeOK, Kinds
<1>g. ASSUME Kinds', wire' = wire, \/ UNCHANGED <<place, at>>
                                   \/ place' # "body" /\ at' = 0
                                   \/ place' = "body" /\ at' \in DOMAIN Body[tool]
      PROVE  ToolTypeOK'
  <2>1. wire' \in Wires
    BY <1>g DEF ToolTypeOK
  <2>2. /\ place' = "body" => at' \in DOMAIN Body[tool]
        /\ place' # "body" => at' = 0
    BY <1>g DEF ToolTypeOK
  <2> QED
    BY <1>f, <1>g, <2>1, <2>2
<1>h. place # "body" => at = 0
  BY DEF ToolTypeOK
<1> USE <1>e DEF Kinds
<1>1. CASE BlockSignals \/ StartSniffer \/ MakeStack \/ StartFailed \/ JoinSniffer
  <2>1. /\ place # "body" /\ place' # "body" /\ UNCHANGED <<app, wire, at, verdict>>
        /\ place' \in {"sniff", "make", "enter", "after", "exited"} /\ app = "idle"
        /\ exit' \in {exit, "2", "error"} /\ sniffer' \in {sniffer, "runs"}
        /\ open' \subseteq open \cup {"sniffer"}
    BY <1>1 DEF BlockSignals, StartSniffer, MakeStack, StartFailed, JoinSniffer, Inherited, vars, pyVars
  <2> QED
    BY <1>g, <1>h, <2>1
<1>2. CASE EnterWith \/ LeaveWith
  <2>1. /\ place # "body" /\ place' \in {"starting", "stopping"}
        /\ UNCHANGED <<wire, at, verdict, exit, open, sniffer>>
    BY <1>2 DEF EnterWith, LeaveWith
  <2> QED
    BY <1>g, <1>h, <2>1
<1>3. CASE Entered \/ EnterTry
  <2>1. /\ UNCHANGED <<app, wire, verdict, exit, open, sniffer>> /\ app = "idle"
        /\ \/ place # "body" /\ place' = "started" /\ at' = at
           \/ place' = "body" /\ at' = 1
    BY <1>3 DEF Entered, EnterTry, EnterBody, vars, pyVars
  <2> QED
    BY <1>c, <1>g, <1>h, <2>1
<1>4. CASE StatementReturns
  <2>1. place = "body" /\ UNCHANGED <<app, wire, verdict, exit, open, sniffer>>
    BY <1>4 DEF StatementReturns, vars, pyVars
  <2> QED
    BY <1>d, <1>4, <1>g, <2>1
<1>5. CASE TimeIsUp \/ StatementRaises \/ CtrlCOutside \/ CtrlCInBody
  <2>1. /\ UNCHANGED <<app, wire, verdict, open, sniffer>> /\ place \notin {"starting", "stopping"}
        /\ place' \in {"leave", "exited"} /\ (at' = 0 \/ (place # "body" /\ at' = at))
        /\ exit' \in {exit, "error"}
    BY <1>5 DEF TimeIsUp, StatementRaises, CtrlCOutside, CtrlCInBody, AfterCtrlC, vars, pyVars
  <2> QED
    BY <1>g, <1>h, <2>1
<1>6. CASE Left
  <2>1. /\ UNCHANGED <<app, wire, verdict, open, at>> /\ app = "idle" /\ place # "body"
        /\ place' \in {"after", "join", "exited"}
        /\ exit' \in {exit, "error"} /\ sniffer' \in {sniffer, "told"}
    BY <1>6 DEF Left, vars, pyVars
  <2> QED
    BY <1>g, <1>h, <2>1
<1>7. CASE Report
  <2>1. /\ UNCHANGED <<app, open, at, exit, sniffer>> /\ place = "after" /\ place' = "exited"
        /\ verdict' \in {"none", "not op", "op", "no tx", "answers", "silent"}
    BY <1>7 DEF Report, Diagnosis, vars, pyVars
  <2>2. wire' \in Wires
    <3>1. PICK nic \in [before : BOOLEAN, after : BOOLEAN] :
            wire' = [wire EXCEPT !.nic = nic]
      BY <1>7 DEF Report
    <3>2. wire \in Wires
      BY DEF ToolTypeOK
    <3> QED
      BY <3>1, <3>2 DEF Wires
  <2> QED
    BY <1>f, <1>h, <2>1, <2>2
<1>8. CASE MethodStep \/ CtrlCInMethod
  <2>1. /\ UNCHANGED <<place, wire, at, exit, sniffer, verdict>> /\ app # "idle"
        /\ open' \subseteq open \cup {"supervisor"}
    BY <1>8 DEF MethodStep, Inherited, CtrlCInMethod, Interrupt
  <2> QED
    BY <1>g, <2>1
<1>9. CASE SnifferEnds
  <2>1. /\ UNCHANGED <<place, wire, at, exit, verdict, app>> /\ sniffer' = "ended" /\ open' \subseteq open
    BY <1>9 DEF SnifferEnds, vars, pyVars
  <2> QED
    BY <1>g, <2>1
<1>10. CASE Exited \/ UNCHANGED allVars
  <2>1. UNCHANGED <<place, wire, at, exit, verdict, app, open, sniffer>>
    BY <1>10 DEF Exited, allVars, toolVars, vars, pyVars
  <2> QED
    BY <1>g, <2>1
<1>11. CASE Frame
  <2>1. wire' \in Wires
    <3>1. PICK f \in Frames, seen \in BOOLEAN :
            wire' = [sent     |-> wire.sent \/ f.outgoing,
                     answered |-> wire.answered \/ Answer(f),
                     tx       |-> wire.tx \/ (seen /\ f.outgoing),
                     ids      |-> wire.ids \/ (seen /\ ProvesCn(f)),
                     nic      |-> wire.nic]
      BY <1>11 DEF Frame
    <3>2. wire \in Wires
      BY DEF ToolTypeOK
    <3> QED
      BY <3>1, <3>2 DEF Wires, Frames, Answer, ProvesCn
  <2>2. UNCHANGED <<place, at, exit, verdict, app, open, sniffer>>
    BY <1>11 DEF Frame, vars, pyVars
  <2> QED
    BY <1>a, <1>f, <1>h, <2>1, <2>2
<1>12. CASE Background
  <2>1. app' = app
    BY <1>12 DEF Background, pyVars, Supervisor, SupervisorTest, SupervisorProcess, SupervisorCheck,
                 SupervisorWait, Supervise
  <2>2. UNCHANGED <<place, at, exit, open, sniffer, wire, verdict>>
    BY <1>12 DEF Background, toolVars
  <2> QED
    BY <1>g, <2>1, <2>2
<1> QED
  BY <1>1, <1>2, <1>3, <1>4, <1>5, <1>6, <1>7, <1>8, <1>9, <1>10, <1>11, <1>12 DEF ToolNext, Tool

\* What a step outside of the methods leaves alone.
Aside == UNCHANGED <<lib, image, mutexReady, started, thread, supervisor, app, result, wasOp>>

LEMMA AsideKeeps ==
  ASSUME Aside
  PROVE  /\ Down => Down'
         /\ Up => Up'
         /\ Starting /\ interrupts' = interrupts => Starting'
         /\ Stopping /\ cut' = cut => Stopping'
BY DEF Aside, Down, Up, Starting, Stopping

LEMMA VarsAside == UNCHANGED vars => Aside /\ interrupts' = interrupts
BY DEF vars, wrapVars, shimVars, mnVars, pyVars, Aside

LEMMA MethodMoves ==
  ASSUME Invariant, MethodStep
  PROVE  \/ place = "starting" /\ Starting /\ Start
         \/ place = "stopping" /\ Stopping /\ Stop
<1>1. TypeOK /\ Progress /\ app # "idle"
  BY DEF Invariant, StackBase, MethodStep
<1>2. (place = "starting" /\ Starting) \/ (place = "stopping" /\ Stopping)
  BY <1>1 DEF Invariant, ToolTypeOK, Places
<1>3. (Start => app \in InStart) /\ (Stop => app \in InStop)
  BY <1>1, StartMoves, StopMoves
<1>4. InStart \cap InStop = {}
  BY DEF InStart, InStop, BeforeMark, AfterMark, AfterForget
<1>5. (Starting => app \in InStart) /\ (Stopping => app \in InStop)
  BY <1>1 DEF Starting, Stopping
<1> QED
  BY <1>2, <1>3, <1>4, <1>5 DEF MethodStep

LEMMA StartingKept ==
  ASSUME Invariant, MethodStep, Starting, Start
  PROVE  Starting'
<1>1. TypeOK /\ Progress /\ app # "idle"
  BY DEF Invariant, StackBase, MethodStep
<1>2. result = "none" /\ interrupts = 0
  BY <1>1 DEF Starting
<1> QED
  BY <1>1, <1>2, StartMoves DEF Starting

LEMMA StoppingKept ==
  ASSUME Invariant, MethodStep, Stopping, Stop
  PROVE  Stopping'
<1>1. TypeOK /\ Progress /\ app # "idle"
  BY DEF Invariant, StackBase, MethodStep
<1>2. /\ started /\ ~cut /\ result \in {"none", "interrupted"}
      /\ app = "join" => supervisor[thread] # "new"
      /\ cut' = cut
  BY <1>1 DEF Stopping, MethodStep
<1> QED
  BY <1>1, <1>2, StopMoves DEF Stopping

LEMMA InterruptedKeeps ==
  ASSUME Invariant, CtrlCInMethod
  PROVE  /\ place = "starting" => Starting'
         /\ place = "stopping" => Stopping'
<1>1. app # "idle" /\ result' = "interrupted" /\ app' = (IF app = "sleep" THEN "shutdown" ELSE "idle")
      /\ cut' = (cut \/ (place = "stopping" /\ app # "sleep")) /\ UNCHANGED <<started, supervisor, thread>>
  BY DEF CtrlCInMethod, Interrupt, InTry
<1>2. ASSUME place = "starting" PROVE Starting'
  <2>1. app \in InStart
    BY <1>1, <1>2 DEF Invariant, Places, Starting
  <2> QED
    BY <1>1, <2>1 DEF Starting, InStart, BeforeMark, AfterMark
<1>3. ASSUME place = "stopping" PROVE Stopping'
  <2>1. started /\ ~cut
    BY <1>1, <1>3 DEF Invariant, Places, Stopping
  <2> QED
    BY <1>1, <1>3, <2>1 DEF Stopping, InStop, AfterForget
<1> QED
  BY <1>2, <1>3

LEMMA BackgroundKeeps ==
  ASSUME Invariant, Background
  PROVE  /\ Down => Down'
         /\ Up => Up'
         /\ place = "starting" => Starting'
         /\ place = "stopping" => Stopping'
<1>1. TypeOK
  BY DEF Invariant, StackBase
<1>2. /\ thread # NoThread => thread \in Threads
      /\ app = "join" => thread \in Threads
  BY <1>1 DEF TypeOK
<1> USE <1>1, BackgroundFrame
<1>3. Down => Down'
  BY DEF Down
<1>4. Up => Up'
  BY <1>2 DEF Up
<1>5. ASSUME place = "starting" PROVE Starting'
  BY <1>4, <1>5 DEF Invariant, Places, Starting
<1>6. ASSUME place = "stopping" PROVE Stopping'
  <2>1. Stopping /\ cut' = cut
    BY <1>6 DEF Invariant, Places, toolVars
  <2> QED
    BY <1>2, <1>3, <2>1 DEF Stopping
<1> QED
  BY <1>3, <1>4, <1>5, <1>6

LEMMA PlacesKept ==
  ASSUME Invariant, [ToolNext]_allVars
  PROVE  Places'
<1> USE DEF Places, BeforeStart, BeforeBody
<1>a. Places /\ ToolTypeOK
  BY DEF Invariant
<1>1. CASE BlockSignals \/ StartSniffer \/ MakeStack
  <2>1. Aside /\ interrupts' = interrupts
    BY <1>1, VarsAside DEF BlockSignals, StartSniffer, MakeStack
  <2>2. place \in BeforeStart /\ place' \in BeforeStart \cup {"exited"} /\ UNCHANGED <<entered, cut, reached>>
        /\ (place' = "exited" => exit' = "error")
    BY <1>1 DEF BlockSignals, StartSniffer, MakeStack
  <2> QED
    BY <1>a, <2>1, <2>2, AsideKeeps
<1>2. CASE EnterWith
  <2>1. ~started /\ interrupts = 0 /\ ~entered /\ ~reached /\ ~cut
    BY <1>2, <1>a DEF EnterWith, Down
  <2>2. app' = "init" /\ result' = "none" /\ place' = "starting" /\ UNCHANGED <<interrupts, entered, cut, reached>>
    BY <1>2, <2>1 DEF EnterWith, CallStart
  <2>3. Starting'
    BY <2>1, <2>2 DEF Starting, InStart, BeforeMark
  <2> QED
    BY <2>1, <2>2, <2>3
<1>3. CASE StartFailed
  BY <1>3, <1>a DEF StartFailed
<1>4. CASE Entered \/ EnterTry
  <2>1. Aside /\ interrupts' = interrupts /\ place' \in {"started", "body"} /\ cut' = cut /\ reached' = reached
        /\ (place' = "started" => entered' = entered)
    BY <1>4, VarsAside DEF Entered, EnterTry, EnterBody
  <2>2. Up /\ interrupts = 0 /\ ~entered /\ ~reached /\ ~cut
    BY <1>4, <1>a DEF Entered, EnterTry, Starting
  <2> QED
    BY <2>1, <2>2, AsideKeeps
<1>5. CASE CtrlCOutside
  <2>1. place \in {"started", "leave", "join"} /\ place' = "exited" /\ exit' = "error" /\ Aside
        /\ entered' = entered /\ cut' = (cut \/ place = "leave")
    BY <1>5 DEF CtrlCOutside, Aside, wrapVars, shimVars, mnVars
  <2> QED
    BY <1>a, <2>1, AsideKeeps
<1>6. CASE StatementReturns \/ TimeIsUp \/ StatementRaises
  <2>1. place = "body" /\ place' \in {"body", "leave"} /\ Aside /\ interrupts' = interrupts /\ cut' = cut
    BY <1>6, VarsAside DEF StatementReturns, TimeIsUp, StatementRaises
  <2> QED
    BY <1>a, <2>1, AsideKeeps
<1>7. CASE CtrlCInBody
  <2>1. place = "body" /\ place' = "leave" /\ Aside /\ cut' = cut
    BY <1>7 DEF CtrlCInBody, AfterCtrlC, Aside, wrapVars, shimVars, mnVars
  <2> QED
    BY <1>a, <2>1, AsideKeeps
<1>8. CASE LeaveWith
  <2>1. Up /\ ~cut
    BY <1>8, <1>a DEF LeaveWith
  <2>2. app' = "join" /\ result' = "none" /\ place' = "stopping" /\ UNCHANGED <<started, supervisor, thread, cut>>
    BY <1>8, <2>1 DEF LeaveWith, CallStop, StopEntry, Up
  <2>3. Stopping'
    BY <2>1, <2>2 DEF Stopping, InStop, Up
  <2> QED
    BY <2>2, <2>3
<1>9. CASE Left
  <2>1. Aside /\ UNCHANGED <<entered, cut>> /\ place' \in {"after", "join", "exited"}
        /\ (place' # "exited" => result = "stopped" /\ sniffer' # "runs")
        /\ (place' = "exited" => (result = "stopped" \/ exit' = "error"))
    BY <1>9, VarsAside DEF Left
  <2>2. ~cut \/ result = "stopped" => Down
    BY <1>9, <1>a DEF Left, Stopping
  <2> QED
    BY <2>1, <2>2, AsideKeeps
<1>10. CASE JoinSniffer \/ Report
  <2>1. Aside /\ place \in {"join", "after"} /\ place' \in {"after", "exited"} /\ sniffer' = sniffer
    BY <1>10, VarsAside DEF JoinSniffer, Report
  <2> QED
    BY <1>a, <2>1, AsideKeeps
<1>11. CASE MethodStep
  <2>1. UNCHANGED <<place, entered, cut, reached>>
    BY <1>11 DEF MethodStep
  <2> QED
    BY <1>a, <1>11, <2>1, MethodMoves, StartingKept, StoppingKept
<1>12. CASE CtrlCInMethod
  <2>1. UNCHANGED <<place, entered, reached>> /\ place \in {"starting", "stopping"}
        /\ (place = "starting" => ~cut')
    BY <1>12, <1>a DEF CtrlCInMethod, Interrupt, ToolTypeOK
  <2> QED
    BY <1>a, <1>12, <2>1, InterruptedKeeps
<1>13. CASE SnifferEnds \/ Frame
  <2>1. Aside /\ interrupts' = interrupts /\ UNCHANGED <<place, entered, cut, reached, exit>>
        /\ (sniffer' = sniffer \/ sniffer' = "ended")
    BY <1>13, VarsAside DEF SnifferEnds, Frame
  <2> QED
    BY <1>a, <2>1, AsideKeeps
<1>14. CASE Background
  <2>1. UNCHANGED <<place, entered, cut, reached, exit, sniffer, interrupts>>
    BY <1>14, BackgroundFrame DEF toolVars, Invariant, StackBase
  <2>2. place # "exited"
    BY <1>14 DEF Background
  <2> QED
    BY <1>a, <1>14, <2>1, <2>2, BackgroundKeeps
<1>15. CASE Exited \/ UNCHANGED allVars
  <2>1. Aside /\ interrupts' = interrupts /\ UNCHANGED <<place, entered, cut, reached, exit, sniffer>>
    BY <1>15, VarsAside DEF Exited, allVars, toolVars
  <2> QED
    BY <1>a, <2>1, AsideKeeps
<1> QED
  BY <1>1, <1>2, <1>3, <1>4, <1>5, <1>6, <1>7, <1>8, <1>9, <1>10, <1>11, <1>12, <1>13, <1>14, <1>15 DEF ToolNext, Tool

LEMMA InvariantKept ==
  ASSUME Invariant, [ToolNext]_allVars
  PROVE  Invariant'
BY StackBaseKept, ToolTyped, PlacesKept DEF Invariant

LEMMA InvariantHolds == ToolSpec => []Invariant
<1>1. Invariant /\ [ToolNext]_allVars => Invariant'
  BY InvariantKept
<1> QED
  BY <1>1, InitTool, PTL DEF ToolSpec
\* Every variable keeps a value of its kind, and a method of PowerlinkStack runs
\* only where the tool has called one.
THEOREM ToolsTypeCorrect == ToolSpec => []ToolTypeOK
<1>1. Invariant => ToolTypeOK
  BY DEF Invariant
<1> QED
  BY <1>1, InvariantHolds, PTL

\* The bodies do their I/O on a stack that is complete and supervised.
THEOREM BodiesOverImage == ToolSpec => []BodyOverImage
<1>1. Invariant => BodyOverImage
  <2> SUFFICES ASSUME Invariant, place = "body"
               PROVE  /\ lib = "created" /\ image = "sized" /\ mutexReady
                      /\ started /\ thread # NoThread /\ ~stopEvent
    BY DEF BodyOverImage
  <2>1. app = "idle"
    BY DEF Invariant, ToolTypeOK
  <2>2. Up /\ interrupts = 0
    BY DEF Invariant, Places
  <2>3. lib = "created" /\ image = "sized" /\ mutexReady
    BY <2>1, <2>2 DEF Invariant, StackBase, Upright, AfterForget, Up
  <2>4. ~stopEvent
    BY <2>1, <2>2 DEF Invariant, StackBase, Guarded, Up
  <2> QED
    BY <2>2, <2>3, <2>4 DEF Up
<1> QED
  BY <1>1, InvariantHolds, PTL

-----------------------------------------------------------------------------
(* Signal masks: what is still open, and until when.                        *)

Masked ==
  /\ open \subseteq {"main"}
  /\ open # {} =>
       /\ lib = "down"
       /\ place \in {"block", "make", "enter", "starting", "exited"}
       /\ place = "starting" => app = "init" \/ (app = "idle" /\ result # "started")
       /\ tool = "cndiag" => place = "block"

LEMMA InitMasked == ToolInit => Masked
BY DEF ToolInit, Init, WrapInit, Masked

LEMMA MaskedKept ==
  ASSUME Invariant, Masked, [ToolNext]_allVars
  PROVE  Masked'
<1> USE DEF Masked
<1>a. ToolTypeOK /\ Places /\ TypeOK /\ Progress
  BY DEF Invariant, StackBase
<1>1. CASE BlockSignals
  BY <1>1 DEF BlockSignals
<1>2. CASE StartSniffer
  <2>1. open = {}
    BY <1>2 DEF StartSniffer
  <2> QED
    BY <1>2, <2>1 DEF StartSniffer, Inherited
<1>3. CASE MakeStack
  BY <1>3 DEF MakeStack, vars, wrapVars, shimVars
<1>4. CASE EnterWith
  <2>1. ~started
    BY <1>a, <1>4 DEF EnterWith, Places, BeforeStart, Down
  <2> QED
    BY <1>4, <2>1 DEF EnterWith, CallStart, wrapVars, shimVars
<1>5. CASE StartFailed
  BY <1>5 DEF StartFailed, vars, wrapVars, shimVars
\* In all the other places nothing is open, and what comes after them opens nothing.
<1>b. open = {} /\ open' = {} => Masked'
  OBVIOUS
<1>6. CASE Entered \/ EnterTry \/ CtrlCOutside \/ StatementReturns \/ TimeIsUp \/ StatementRaises
  BY <1>b, <1>6 DEF Entered, EnterTry, EnterBody, CtrlCOutside, StatementReturns, TimeIsUp, StatementRaises
<1>7. CASE CtrlCInBody \/ LeaveWith \/ Left \/ JoinSniffer \/ Report
  BY <1>b, <1>7 DEF CtrlCInBody, LeaveWith, Left, JoinSniffer, Report
<1>8. CASE MethodStep
  <2>1. app # "idle" /\ place \in {"starting", "stopping"} /\ UNCHANGED <<place, tool>>
    BY <1>a, <1>8 DEF MethodStep, ToolTypeOK
  <2>2. open # {} => app = "init"
    BY <2>1
  <2>3. CASE app = "init"
    BY <1>8, <1>b, <2>3, <2>1 DEF MethodStep
  <2>4. CASE app # "init"
    BY <1>8, <1>b, <2>2, <2>4 DEF MethodStep, Inherited
  <2> QED
    BY <2>3, <2>4
<1>9. CASE CtrlCInMethod
  BY <1>a, <1>9 DEF CtrlCInMethod, Interrupt, InTry, ToolTypeOK, wrapVars, shimVars
<1>10. CASE SnifferEnds
  BY <1>10 DEF SnifferEnds, vars, pyVars, wrapVars, shimVars
<1>11. CASE Frame \/ Exited \/ UNCHANGED allVars
  BY <1>11 DEF Frame, Exited, allVars, toolVars, vars, pyVars, wrapVars, shimVars
<1>12. CASE Background
  BY <1>a, <1>12, BackgroundFrame DEF toolVars
<1> QED
  BY <1>1, <1>2, <1>3, <1>4, <1>5, <1>6, <1>7, <1>8, <1>9, <1>10, <1>11, <1>12 DEF ToolNext, Tool

\* While a stack exists no Python thread of the process can take its timer signals.
THEOREM TimersAlone == ToolSpec => []OnlyTimersTick
<1>1. Invariant /\ Masked /\ [ToolNext]_allVars => Masked'
  BY MaskedKept
<1>2. Masked => OnlyTimersTick
  BY DEF Masked, OnlyTimersTick
<1> QED
  BY <1>1, <1>2, InitMasked, InvariantHolds, PTL DEF ToolSpec

-----------------------------------------------------------------------------
(* What cndiag says of the wire, and what the scripts say of the MN.        *)

Counted ==
  /\ wire.ids => wire.answered
  /\ verdict # "none" => place = "exited"
  /\ BlamesRightly

LEMMA InitCounted == ToolInit => Counted
BY DEF ToolInit, Counted, BlamesRightly

LEMMA CountedKept ==
  ASSUME Invariant, Counted, [ToolNext]_allVars
  PROVE  Counted'
<1> USE DEF Counted, BlamesRightly
<1>1. CASE Frame
  <2>1. PICK f \in Frames, seen \in BOOLEAN :
          wire' = [sent     |-> wire.sent \/ f.outgoing,
                   answered |-> wire.answered \/ Answer(f),
                   tx       |-> wire.tx \/ (seen /\ f.outgoing),
                   ids      |-> wire.ids \/ (seen /\ ProvesCn(f)),
                     nic      |-> wire.nic]
    BY <1>1 DEF Frame
  <2>2. wire'.ids => wire'.answered
    BY <2>1 DEF Answer, ProvesCn
  <2>3. verdict = "none" /\ verdict' = verdict
    BY <1>1 DEF Frame
  <2> QED
    BY <2>2, <2>3
<1>2. CASE Report
  <2>1. PICK others \in BOOLEAN, nic \in [before : BOOLEAN, after : BOOLEAN] :
          /\ verdict' = IF exit = "0" THEN Diagnosis(NicRose(nic, wire.sent \/ others)) ELSE "none"
          /\ wire' = [wire EXCEPT !.nic = nic]
    BY <1>2 DEF Report
  <2>2. place' = "exited" /\ wire \in Wires
    BY <1>2 DEF Report, Invariant, ToolTypeOK
  <2>3. wire'.ids = wire.ids /\ wire'.answered = wire.answered /\ wire'.sent = wire.sent
    BY <2>1, <2>2 DEF Wires
  <2>4. verdict' = "answers" => wire'.answered
    BY <2>1, <2>3 DEF Diagnosis
  <2>5. ASSUME verdict' = "no tx", wire'.nic = [before |-> TRUE, after |-> TRUE]
        PROVE  ~wire'.sent
    <3>1. wire'.nic = nic
      BY <2>1, <2>2 DEF Wires
    <3>2. ~NicRose(nic, wire.sent \/ others)
      BY <2>1, <2>5 DEF Diagnosis
    <3>a. nic = [before |-> TRUE, after |-> TRUE]
      BY <2>5, <3>1
    <3>3. nic.before = TRUE /\ nic.after = TRUE
      BY <3>a
    <3>4. ~(wire.sent \/ others)
      BY <3>2, <3>3 DEF NicRose
    <3> QED
      BY <2>3, <3>4
  <2> QED
    BY <2>2, <2>3, <2>4, <2>5
\* Every other step leaves the wire and the verdict alone, and nothing leaves "exited".
<1>3. UNCHANGED <<wire, verdict>> /\ (place = "exited" => place' = "exited") => Counted'
  OBVIOUS
<1>4. CASE BlockSignals \/ StartSniffer \/ MakeStack \/ EnterWith \/ StartFailed \/ Entered \/ EnterTry
  BY <1>3, <1>4 DEF BlockSignals, StartSniffer, MakeStack, EnterWith, StartFailed, Entered, EnterTry, EnterBody
<1>5. CASE StatementReturns \/ TimeIsUp \/ StatementRaises \/ LeaveWith \/ Left \/ JoinSniffer
  BY <1>3, <1>5 DEF StatementReturns, TimeIsUp, StatementRaises, LeaveWith, Left, JoinSniffer
<1>6. CASE MethodStep \/ CtrlCOutside \/ CtrlCInBody \/ CtrlCInMethod \/ SnifferEnds
  BY <1>3, <1>6 DEF MethodStep, CtrlCOutside, CtrlCInBody, CtrlCInMethod, SnifferEnds
<1>7. CASE Background \/ Exited \/ UNCHANGED allVars
  BY <1>3, <1>7 DEF Background, Exited, allVars, toolVars
<1> QED
  BY <1>1, <1>2, <1>4, <1>5, <1>6, <1>7 DEF ToolNext, Tool

\* cndiag says that a coupler answers only if one has, and, where it could read
\* the NIC's counter before and after, that nothing was sent only if nothing was.
THEOREM BlameIsRight == ToolSpec => []BlamesRightly
<1>1. Invariant /\ Counted /\ [ToolNext]_allVars => Counted'
  BY CountedKept
<1>2. Counted => BlamesRightly
  BY DEF Counted
<1> QED
  BY <1>1, <1>2, InitCounted, InvariantHolds, PTL DEF ToolSpec

\* A sample that showed the MN Operational was of this session, and a verdict is
\* given where the stack is down and the sniffer has been told to stop.
Sampling ==
  /\ reached => wasOp
  /\ verdict # "none" => place = "exited" /\ Down /\ sniffer # "runs"

LEMMA InitSampling == ToolInit => Sampling
BY DEF ToolInit, Sampling

LEMMA SamplingKept ==
  ASSUME Invariant, Sampling, [ToolNext]_allVars
  PROVE  Sampling'
<1> USE DEF Sampling
<1>a. ToolTypeOK /\ Places /\ TypeOK /\ Progress
  BY DEF Invariant, StackBase
<1>1. CASE StatementReturns
  <2>1. place = "body" /\ Aside /\ verdict' = verdict
        /\ (reached' => reached \/ status.mn)
    BY <1>1, VarsAside DEF StatementReturns, Sampled
  <2>2. started
    BY <1>a, <2>1 DEF Places, Up
  <2>3. status.mn => wasOp
    BY <2>2 DEF Invariant, StackBase, Fresh, FreshFlags
  <2> QED
    BY <2>1, <2>3 DEF Aside
<1>2. CASE Report
  <2>1. place = "after" /\ place' = "exited" /\ Aside /\ UNCHANGED <<reached, sniffer>>
    BY <1>2, VarsAside DEF Report
  <2> QED
    BY <1>a, <2>1, AsideKeeps DEF Places, Aside
\* Of the rest, only plw_init forgets that the MN was Operational.
<1>3. verdict = "none" /\ verdict' = verdict /\ reached' = reached /\ (wasOp => wasOp') => Sampling'
  OBVIOUS
<1>4. CASE BlockSignals \/ StartSniffer \/ MakeStack \/ StartFailed \/ Entered \/ EnterTry
  BY <1>3, <1>4, VarsAside DEF BlockSignals, StartSniffer, MakeStack, StartFailed, Entered, EnterTry, EnterBody,
     Aside
<1>5. CASE TimeIsUp \/ StatementRaises \/ Left \/ JoinSniffer \/ SnifferEnds \/ Frame
  BY <1>3, <1>5, VarsAside DEF TimeIsUp, StatementRaises, Left, JoinSniffer, SnifferEnds, Frame, Aside
<1>6. CASE EnterWith \/ LeaveWith \/ CtrlCOutside \/ CtrlCInBody
  BY <1>3, <1>6 DEF EnterWith, LeaveWith, CallStart, CallStop, CtrlCOutside, CtrlCInBody, wrapVars, mnVars
<1>7. CASE MethodStep
  <2>1. place \in {"starting", "stopping"} /\ UNCHANGED <<place, verdict, reached>>
    BY <1>a, <1>7 DEF MethodStep, ToolTypeOK
  <2>2. place = "starting" => ~reached
    BY <1>a DEF Places, BeforeBody
  <2>3. place = "stopping" => wasOp' = wasOp
    BY <1>a, <1>7, MethodMoves, StopMoves DEF MethodStep
  <2> QED
    BY <2>1, <2>2, <2>3
<1>8. CASE CtrlCInMethod
  BY <1>a, <1>3, <1>8 DEF CtrlCInMethod, Interrupt, ToolTypeOK, wrapVars, mnVars
<1>9. CASE Background
  <2>1. UNCHANGED <<verdict, reached>> /\ place # "exited" /\ (wasOp => wasOp')
    BY <1>a, <1>9, BackgroundFrame DEF toolVars
  <2> QED
    BY <1>3, <2>1
<1>10. CASE Exited \/ UNCHANGED allVars
  <2>1. Aside /\ UNCHANGED <<place, verdict, reached, sniffer>>
    BY <1>10, VarsAside DEF Exited, allVars, toolVars
  <2> QED
    BY <2>1, AsideKeeps DEF Aside
<1> QED
  BY <1>1, <1>2, <1>4, <1>5, <1>6, <1>7, <1>8, <1>9, <1>10 DEF ToolNext, Tool

-----------------------------------------------------------------------------
(* What stays behind, when join() does not time out.                        *)

LEMMA SupervisedHolds == ASSUME ~JoinMayTimeOut PROVE ToolSpec => []Supervised
<1>1. ToolInit => Supervised
  BY InitSupervised DEF ToolInit
<1>2. Invariant /\ Supervised /\ [ToolNext]_allVars => Supervised'
  BY SupervisedKept DEF Invariant
<1> QED
  BY <1>1, <1>2, InvariantHolds, PTL DEF ToolSpec

LEMMA DownIsGone == Supervised /\ Down => \A t \in Threads : ~Alive(t)
BY DEF Supervised, Down

\* A program that got into its body leaves nothing behind, unless an interrupt
\* cut stop() short outside its `try`; the exit status 0 means it.
THEOREM NothingOutlivesTheTool == ASSUME ~JoinMayTimeOut PROVE ToolSpec => []LeavesNothing
<1>1. Invariant /\ Supervised => LeavesNothing
  <2>1. Places => (place = "exited" /\ ((entered /\ ~cut) \/ exit = "0") => Down)
    BY DEF Places
  <2> QED
    BY <2>1, DownIsGone DEF Invariant, LeavesNothing, Down
<1> QED
  BY <1>1, SupervisedHolds, InvariantHolds, PTL

\* What a script reports it has seen, in a session that is over and left clean.
THEOREM VerdictsAreSeen == ASSUME ~JoinMayTimeOut PROVE ToolSpec => []VerdictSeen
<1>1. Invariant /\ Sampling /\ [ToolNext]_allVars => Sampling'
  BY SamplingKept
<1>2. Sampling /\ Supervised => VerdictSeen
  BY DownIsGone DEF Sampling, VerdictSeen, Down
<1> QED
  BY <1>1, <1>2, InitSampling, SupervisedHolds, InvariantHolds, PTL DEF ToolSpec
=============================================================================
