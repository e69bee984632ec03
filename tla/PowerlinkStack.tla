--------------------------- MODULE PowerlinkStack ---------------------------
(***************************************************************************)
(* stack.py: the application thread going through start(), stop() and      *)
(* wait_operational(), the supervisor threads it spawns, and the native    *)
(* stack under both. One step per statement that changes state or calls    *)
(* native code. A call may fail, Thread.start() may fail, the join may     *)
(* time out, and a KeyboardInterrupt may arrive between any two statements *)
(* of the application thread, each as far as the constants allow it.       *)
(***************************************************************************)
EXTENDS OplkWrap

CONSTANTS
  MaxSessions,        \* bound: threads created
  MaxPolls,           \* bound: the polls that fit in wait_operational's timeout
  MaxInterrupts,      \* bound: KeyboardInterrupts
  CallsMayFail,       \* plw_* calls may return an error
  ThreadStartMayFail, \* Thread.start() may raise
  JoinMayTimeOut      \* a supervisor may outlast join(timeout=2.0)

ASSUME BoundsAssumption ==
  /\ MaxSessions \in Nat \ {0}
  /\ MaxPolls \in Nat \ {0}
  /\ MaxInterrupts \in Nat
ASSUME SwitchesAssumption ==
  /\ CallsMayFail \in BOOLEAN
  /\ ThreadStartMayFail \in BOOLEAN
  /\ JoinMayTimeOut \in BOOLEAN

VARIABLES
  started,     \* _started
  stopEvent,   \* _stop_evt.is_set()
  thread,      \* _thread: the number of a thread, or 0 for None
  supervisor,  \* of each thread: where it is in _supervise
  app,         \* the statement the application thread executes next
  result,      \* how its last method call ended, "none" while one runs
  polls,       \* polls made by the current wait_operational
  interrupts,  \* KeyboardInterrupts so far
  diedBefore   \* history: the supervisor was dead when the wait was called

pyVars == <<started, stopEvent, thread, supervisor, app, result, polls,
            interrupts, diedBefore>>
vars == <<wrapVars, pyVars>>

Threads == 1 .. MaxSessions
NoThread == 0

Created == {t \in Threads : supervisor[t] # "none"}
Alive(t) == supervisor[t] \in {"test", "process", "check", "wait"}

Init ==
  /\ WrapInit
  /\ started = FALSE
  /\ stopEvent = FALSE
  /\ thread = NoThread
  /\ supervisor = [t \in Threads |-> "none"]
  /\ app = "idle"
  /\ result = "none"
  /\ polls = 0
  /\ interrupts = 0
  /\ diedBefore = FALSE

Goto(pc) == app' = pc /\ UNCHANGED <<result, polls, interrupts, diedBefore>>
End(r) == app' = "idle" /\ result' = r /\ UNCHANGED <<polls, interrupts, diedBefore>>

\* _check: an error code raises StackError, and nothing else is undone.
Checked(ok, pc) == IF ok THEN Goto(pc) ELSE End("raised")

Outcome(ok) == ok \/ CallsMayFail

-----------------------------------------------------------------------------
(* start() *)

CallStart ==
  /\ app = "idle"
  /\ started \/ Created # Threads
  /\ result' = IF started THEN "started" ELSE "none"
  /\ app' = IF started THEN "idle" ELSE "init"
  /\ UNCHANGED <<wrapVars, started, stopEvent, thread, supervisor, polls,
                 interrupts, diedBefore>>

StartInit ==
  /\ app = "init"
  /\ \E o \in InitOutcomesNow :
       /\ Outcome(o = "ok")
       /\ PlwInit(o)
       /\ Checked(o = "ok", "load")
  /\ UNCHANGED <<started, stopEvent, thread, supervisor>>

\* plw_load_cdc or plw_load_cdc_file: the stack takes the configuration.
StartLoadCdc ==
  /\ app = "load"
  /\ \E ok \in BOOLEAN : Outcome(ok) /\ Checked(ok, "alloc")
  /\ UNCHANGED <<wrapVars, started, stopEvent, thread, supervisor>>

\* Mutant: the return code of plw_alloc_pi is not checked.
StartAllocPiUnchecked ==
  /\ app = "alloc"
  /\ \E o \in AllocOutcomes :
       /\ Outcome(o = "ok")
       /\ PlwAllocPi(o)
       /\ Goto("nmt")
  /\ UNCHANGED <<started, stopEvent, thread, supervisor>>

StartAllocPi ==
  /\ app = "alloc"
  /\ \E o \in AllocOutcomes :
       /\ Outcome(o = "ok")
       /\ PlwAllocPi(o)
       /\ Checked(o = "ok", "nmt")
  /\ UNCHANGED <<started, stopEvent, thread, supervisor>>

StartNmt ==
  /\ app = "nmt"
  /\ \E ok \in BOOLEAN :
       /\ Outcome(ok)
       /\ PostCommand("reset", ok)
       /\ Checked(ok, "mark")
  /\ UNCHANGED <<started, stopEvent, thread, supervisor>>

StartMark ==
  /\ app = "mark"
  /\ started' = TRUE
  /\ Goto("clear")
  /\ UNCHANGED <<wrapVars, stopEvent, thread, supervisor>>

\* Mutant: a restart leaves the event that the stop() before has set.
StartClearKept ==
  /\ app = "clear"
  /\ Goto("thread")
  /\ UNCHANGED <<wrapVars, started, stopEvent, thread, supervisor>>

StartClear ==
  /\ app = "clear"
  /\ stopEvent' = FALSE
  /\ Goto("thread")
  /\ UNCHANGED <<wrapVars, started, thread, supervisor>>

StartThread ==
  /\ app = "thread"
  /\ \E t \in Threads \ Created :
       /\ \A u \in Threads \ Created : t <= u
       /\ thread' = t
       /\ supervisor' = [supervisor EXCEPT ![t] = "new"]
  /\ Goto("spawn")
  /\ UNCHANGED <<wrapVars, started, stopEvent>>

StartSpawn ==
  /\ app = "spawn"
  /\ \/ /\ supervisor' = [supervisor EXCEPT ![thread] = "test"]
        /\ End("started")
     \/ /\ ThreadStartMayFail
        /\ UNCHANGED supervisor
        /\ End("raised")
  /\ UNCHANGED <<wrapVars, started, stopEvent, thread>>

Start ==
  \/ CallStart
  \/ StartInit
  \/ StartLoadCdc
  \/ StartAllocPi
  \/ StartNmt
  \/ StartMark
  \/ StartClear
  \/ StartThread
  \/ StartSpawn

-----------------------------------------------------------------------------
(* stop() *)

\* Mutant: the supervisor is not told to stop.
StopEventAfterCallKept == stopEvent

StopEventAfterCall == TRUE

\* Mutant: stop() does not ask whether there is a thread to join.
StopEntryUntested(t) == "join"

StopEntry(t) == IF t = NoThread THEN "off" ELSE "join"

CallStop ==
  /\ app = "idle"
  /\ stopEvent' = StopEventAfterCall
  /\ app' = StopEntry(thread)
  /\ result' = "none"
  /\ UNCHANGED <<wrapVars, started, thread, supervisor, polls, interrupts, diedBefore>>

\* Mutant: join() is not waited for.
JoinReturnsAtOnce(t) == TRUE

\* A native call that lasts longer than the timeout keeps the thread alive.
JoinReturns(t) ==
  \/ supervisor[t] = "dead"
  \/ JoinMayTimeOut /\ supervisor[t] \in {"process", "check"}

StopJoin ==
  /\ app = "join"
  /\ JoinReturns(thread)
  /\ Goto("forget")
  /\ UNCHANGED <<wrapVars, started, stopEvent, thread, supervisor>>

\* join() raises RuntimeError for a thread that was never started.
StopJoinRaises ==
  /\ app = "join"
  /\ supervisor[thread] = "new"
  /\ End("raised")
  /\ UNCHANGED <<wrapVars, started, stopEvent, thread, supervisor>>

StopForget ==
  /\ app = "forget"
  /\ thread' = NoThread
  /\ Goto("off")
  /\ UNCHANGED <<wrapVars, started, stopEvent, supervisor>>

\* plw_stop; its return code is ignored.
StopOff ==
  /\ app = "off"
  /\ started
  /\ \E ok \in BOOLEAN : PostCommand("off", ok)
  /\ Goto("sleep")
  /\ UNCHANGED <<started, stopEvent, thread, supervisor>>

StopNothing ==
  /\ app = "off"
  /\ ~started
  /\ End("stopped")
  /\ UNCHANGED <<wrapVars, started, stopEvent, thread, supervisor>>

StopSleep ==
  /\ app = "sleep"
  /\ Goto("shutdown")
  /\ UNCHANGED <<wrapVars, started, stopEvent, thread, supervisor>>

StopShutdown ==
  /\ app = "shutdown"
  /\ PlwShutdown
  /\ Goto("unmark")
  /\ UNCHANGED <<started, stopEvent, thread, supervisor>>

\* An interrupt that `finally` has overtaken is raised again at its end.
StopUnmark ==
  /\ app = "unmark"
  /\ started' = FALSE
  /\ End(IF result = "interrupted" THEN "interrupted" ELSE "stopped")
  /\ UNCHANGED <<wrapVars, stopEvent, thread, supervisor>>

Stop ==
  \/ CallStop
  \/ StopJoin
  \/ StopJoinRaises
  \/ StopForget
  \/ StopOff
  \/ StopNothing
  \/ StopSleep
  \/ StopShutdown
  \/ StopUnmark

-----------------------------------------------------------------------------
(* wait_operational() *)

SupervisorDead == thread # NoThread /\ ~Alive(thread)

CallWait ==
  /\ app = "idle"
  /\ app' = IF started THEN "poll" ELSE "idle"
  /\ result' = IF started THEN "none" ELSE "raised"
  /\ polls' = 0
  /\ diedBefore' = SupervisorDead
  /\ UNCHANGED <<wrapVars, started, stopEvent, thread, supervisor, interrupts>>

\* while time.monotonic() < deadline
WaitTimesOut ==
  /\ app = "poll"
  /\ End("wait false")
  /\ UNCHANGED <<wrapVars, started, stopEvent, thread, supervisor>>

WaitReadsFlags ==
  /\ app = "poll"
  /\ polls < MaxPolls
  /\ IF status.mn THEN End("wait true") ELSE Goto("alive")
  /\ UNCHANGED <<wrapVars, started, stopEvent, thread, supervisor>>

\* ... the supervisor's liveness, then time.sleep(poll).
WaitTestsThread ==
  /\ app = "alive"
  /\ IF SupervisorDead
       THEN End("raised")
       ELSE /\ app' = "poll"
            /\ polls' = polls + 1
            /\ UNCHANGED <<result, interrupts, diedBefore>>
  /\ UNCHANGED <<wrapVars, started, stopEvent, thread, supervisor>>

Wait ==
  \/ CallWait
  \/ WaitTimesOut
  \/ WaitReadsFlags
  \/ WaitTestsThread

-----------------------------------------------------------------------------
(* KeyboardInterrupt: the method is left; only the `try` of stop() reacts.   *)

InTry == app = "sleep"

Interrupt ==
  /\ app # "idle"
  /\ interrupts < MaxInterrupts
  /\ interrupts' = interrupts + 1
  /\ app' = IF InTry THEN "shutdown" ELSE "idle"
  /\ result' = "interrupted"
  /\ UNCHANGED <<wrapVars, started, stopEvent, thread, supervisor, polls, diedBefore>>

-----------------------------------------------------------------------------
(* _supervise(), in thread t *)

Supervise(t, from, to) ==
  /\ supervisor[t] = from
  /\ supervisor' = [supervisor EXCEPT ![t] = to]
  /\ UNCHANGED <<wrapVars, started, stopEvent, thread, app, result, polls,
                 interrupts, diedBefore>>

SupervisorTest(t) == Supervise(t, "test", IF stopEvent THEN "dead" ELSE "process")

\* plw_process has returned; its return code is ignored.
SupervisorProcess(t) == Supervise(t, "process", "check")

\* Mutant: the answer of plw_check_stack is not looked at.
AfterCheckIgnored(alive) == "wait"

AfterCheck(alive) == IF alive THEN "wait" ELSE "dead"

\* plw_check_stack: without a created stack the answer may be either.
SupervisorCheck(t) ==
  \E alive \in BOOLEAN :
    /\ lib = "created" => alive = kernelAlive
    /\ Supervise(t, "check", AfterCheck(alive))

\* _stop_evt.wait returned: the event is set or the interval is over.
SupervisorWait(t) == Supervise(t, "wait", "test")

Supervisor(t) ==
  \/ SupervisorTest(t)
  \/ SupervisorProcess(t)
  \/ SupervisorCheck(t)
  \/ SupervisorWait(t)

-----------------------------------------------------------------------------
Next ==
  \/ Start
  \/ Stop
  \/ Wait
  \/ Interrupt
  \/ NativeStack /\ UNCHANGED pyVars
  \/ \E t \in Threads : Supervisor(t)

Spec == Init /\ [][Next]_vars

\* A method that was called goes on, and so does a supervisor: plw_process
\* returns, and Event.wait ends after its interval. The MN and the
\* application's calls are under no obligation.
FairSpec ==
  /\ Spec
  /\ WF_vars(app # "idle" /\ (Start \/ Stop \/ Wait))
  /\ \A t \in Threads : WF_vars(Supervisor(t))

-----------------------------------------------------------------------------
(* Properties. *)

\* Every variable holds a value of its kind, and a thread is only spawned or
\* joined when there is one.
TypeOK ==
  /\ WrapTypeOK
  /\ started \in BOOLEAN
  /\ stopEvent \in BOOLEAN
  /\ thread \in Threads \cup {NoThread}
  /\ supervisor \in [Threads -> {"none", "new", "test", "process", "check", "wait", "dead"}]
  /\ app \in {"idle", "init", "load", "alloc", "nmt", "mark", "clear", "thread", "spawn",
              "join", "forget", "off", "sleep", "shutdown", "unmark", "poll", "alive"}
  /\ app \in {"spawn", "join", "forget"} => thread # NoThread
  /\ result \in {"none", "started", "stopped", "raised", "interrupted",
                 "wait true", "wait false"}
  /\ polls \in 0 .. MaxPolls
  /\ interrupts \in 0 .. MaxInterrupts
  /\ diedBefore \in BOOLEAN

\* There is at most one supervisor that runs, it is the one `_thread` names, and
\* the stack it calls plw_process and plw_check_stack on exists: stop() ends it
\* before plw_shutdown, and no restart gets ahead of the old one.
\* stack.py:126-140, 173-184.
SupervisionDiscipline ==
  \A t \in Threads : Alive(t) => t = thread /\ lib = "created"

\* While start() has succeeded and stop() has not been called, the native side
\* is complete: no failing step of start() leads to `_started`. (A
\* KeyboardInterrupt inside stop() can leave `_started` behind a stack that is
\* down, so this is said of runs without one.) stack.py:108-130.
StartedMeansUp ==
  interrupts = 0 /\ started /\ app \in {"idle", "poll", "alive"} =>
    lib = "created" /\ image = "sized" /\ mutexReady /\ thread # NoThread

\* A session that was started is supervised until stop() is called or the kernel
\* part dies: no restart inherits the stop event of the session before, and no
\* supervisor gives up a stack that lives. (Like StartedMeansUp, of runs without
\* an interrupt; a thread whose Thread.start() raised never ran and counts as not
\* dead, although it supervises nothing.) stack.py:125-140, 173.
SupervisedUntilDeath ==
  interrupts = 0 /\ started /\ thread # NoThread /\ app \in {"idle", "poll", "alive"} =>
    supervisor[thread] # "dead" \/ ~kernelAlive

\* `_started` is given up only when nothing native is left: the stack, the
\* image, the mutex and the supervisor are gone, however the stop() before was
\* interrupted. stack.py:177-184, oplkwrap.c:320-332.
GivenUpMeansGone ==
  [][started /\ ~started' =>
       /\ lib' = "down" /\ image' = "none" /\ ~mutexReady'
       /\ \A t \in Threads : ~Alive(t)']_vars

\* The lifecycle that stack.py implements: each step of a method, of a supervisor
\* or of the native stack is one step of Lifecycle, or none. stack.py:93-184.
Native ==
  CASE lib = "created" /\ image = "sized" /\ mutexReady -> "up"
    [] lib = "down" /\ image = "none" /\ ~mutexReady -> "down"
    [] OTHER -> "partial"

Contract == INSTANCE Lifecycle WITH
  native <- Native, promised <- started, watched <- \E t \in Threads : Alive(t)

LifecycleSpec == Contract!Spec

\* wait_operational() never answers True on the flags of an earlier session.
\* stack.py:161-163, oplkwrap.c:108-113, 190.
WaitTrueIsFresh == result = "wait true" => wasOp

\* Once every event is delivered the flags tell the MN's state: reaching and
\* leaving Operational, and reaching GS_OFF, are all noticed. Said of runs
\* without an interrupt, after which a second plw_init may clear the flags of a
\* stack that still runs. oplkwrap.c:108-119.
FlagsTellTheMn ==
  interrupts = 0 /\ lib = "created" /\ events = <<>> =>
    /\ status.mn <=> nmt = "op"
    /\ status.running <=> nmt # "off"

\* Once the kernel part is dead the supervisor ends, whatever the application
\* does. stack.py:133-140.
DeadKernelEndsSupervision ==
  \A t \in Threads : (Alive(t) /\ ~kernelAlive) ~> ~Alive(t)

\* start(), stop() and wait_operational() all return or raise: the supervisor
\* notices the event that the join waits for. stack.py:93-184.
CallsEnd == (app # "idle") ~> (app = "idle")

\* stack.py:172: "Stop the supervisor and shut the stack down (idempotent)."
\* Said of the stack that oplk_create made: when stop() has returned, no stack
\* stays created. (The library that a failing plw_init leaves initialized after
\* oplk_create refused is not held against stop().)
StoppedMeansDown == result = "stopped" => lib # "created"

\* stack.py:154-155: "Raises StackError if the supervisor thread has died". Said
\* of a supervisor that was dead when wait_operational() was called.
WaitNoticesDeath == diedBefore => result # "wait true"
=============================================================================
