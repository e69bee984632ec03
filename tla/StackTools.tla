----------------------------- MODULE StackTools -----------------------------
(***************************************************************************)
(* The programs that run a stack, one process each: the subcommands of pl  *)
(* (cli.py), which enter a PowerlinkStack with `with`, and the scripts     *)
(* diag.py and cndiag.py, which call start() and put stop() in a           *)
(* `finally`. start() and stop() are those of PowerlinkStack, statement by *)
(* statement; Ctrl+C may come in them and in the body. Threads inherit     *)
(* signal masks: the stack's timer signals must not go to any of them.     *)
(***************************************************************************)
EXTENDS PowerlinkStack

VARIABLES
  tool,     \* the program
  place,    \* where its main function is
  at,       \* in the body: the statement it is at
  exit,     \* the exit status as it stands: "0", "2", or "error" after an exception
  entered,  \* history: the body was entered
  cut,      \* history: an interrupt left stop() before its end, or came just before it
  open,     \* the Python threads that do not block the timer signals
  sniffer,  \* cndiag's thread: "none", "runs", "told" (to stop) or "ended"
  wire,     \* of cndiag: frames sent and answered, those the sniffer has counted, and
            \* whether the NIC's counter could be read before and after
  reached,  \* reached_op of the scripts
  verdict   \* what the script has reported

toolVars == <<tool, place, at, exit, entered, cut, open, sniffer, wire, reached, verdict>>
allVars == <<vars, toolVars>>

-----------------------------------------------------------------------------
(* The bodies. A "write" may raise: the channel may not exist, the value may *)
(* not fit. Refused reads answer 0, and nothing else raises. "test" is the   *)
(* `while` of the scripts, which run for a given time.                       *)

Body == [run    |-> <<"status", "sleep", "status">>,
         read   |-> <<"sleep", "read", "status">>,
         watch  |-> <<"read", "status", "sleep">>,
         do     |-> <<"write", "sleep", "read">>,
         ao     |-> <<"write", "sleep", "read">>,
         diag   |-> <<"test", "status", "sleep">>,
         cndiag |-> <<"test", "status", "sleep">>]

Tools == DOMAIN Body
Scripts == {"diag", "cndiag"}

\* The loop runs from here to the end of the body.
LoopFrom == [run |-> 2, watch |-> 1, diag |-> 1, cndiag |-> 1]

\* Those that loop until Ctrl+C, which they catch around the loop.
Endless == {"run", "watch"}

InLoop(c, k) == c \in Endless /\ k >= LoopFrom[c]

ToolInit ==
  /\ Init
  /\ tool \in Tools
  /\ place = IF tool = "cndiag" THEN "block" ELSE "make"
  /\ at = 0
  /\ exit = "0"
  /\ entered = FALSE
  /\ cut = FALSE
  /\ open = {"main"}
  /\ sniffer = "none"
  /\ wire = [sent |-> FALSE, answered |-> FALSE, tx |-> FALSE, ids |-> FALSE,
             nic |-> [before |-> TRUE, after |-> TRUE]]
  /\ reached = FALSE
  /\ verdict = "none"

\* A thread is born with the mask of the one that starts it.
Inherited(t) == IF "main" \in open THEN open \cup {t} ELSE open

-----------------------------------------------------------------------------
(* cndiag.py, before there is a stack *)

\* Mutant: only plw_init blocks the timer signals.
BlockSignalsLater ==
  /\ place = "block"
  /\ place' = "sniff"
  /\ UNCHANGED <<vars, tool, at, exit, entered, cut, open, sniffer, wire, reached, verdict>>

BlockSignals ==
  /\ place = "block"
  /\ open' = open \ {"main"}
  /\ place' = "sniff"
  /\ UNCHANGED <<vars, tool, at, exit, entered, cut, sniffer, wire, reached, verdict>>

\* The raw socket needs privileges.
StartSniffer ==
  /\ place = "sniff"
  /\ \/ /\ place' = "make"
        /\ sniffer' = "runs"
        /\ open' = Inherited("sniffer")
        /\ UNCHANGED exit
     \/ place' = "exited" /\ exit' = "error" /\ UNCHANGED <<sniffer, open>>
  /\ UNCHANGED <<vars, tool, at, entered, cut, wire, reached, verdict>>

\* It ends once it is told to, or when its socket fails.
SnifferEnds ==
  /\ place # "exited"
  /\ sniffer \in {"runs", "told"}
  /\ sniffer' = "ended"
  /\ open' = open \ {"sniffer"}
  /\ UNCHANGED <<vars, tool, place, at, exit, entered, cut, wire, reached, verdict>>

-----------------------------------------------------------------------------
(* The wire under cndiag *)

\* What the MN sends and what others do; a PRes or an IdentResponse that comes in
\* is a CN's answer to the MN.
Frames == [outgoing : {TRUE}, kind : {"SoC", "PReq", "PRes"}]
          \cup [outgoing : {FALSE}, kind : {"PRes", "IdentResponse", "other"}]

Answer(f) == ~f.outgoing /\ f.kind \in {"PRes", "IdentResponse"}

\* Mutant: the direction is not looked at.
ProvesCnByKind(f) == f.kind \in {"PRes", "IdentResponse"}

\* Sniffer.run: which frames put a node into cn_ids.
ProvesCn(f) == ~f.outgoing /\ f.kind \in {"PRes", "IdentResponse"}

\* A frame that the sniffer sees is counted; it may miss any.
Frame ==
  /\ tool = "cndiag" /\ place # "exited"
  /\ lib = "created" /\ nmt # "off"
  /\ \E f \in Frames, seen \in BOOLEAN :
       /\ Answer(f) => wire.sent
       /\ seen => sniffer = "runs"
       /\ wire' = [sent     |-> wire.sent \/ f.outgoing,
                   answered |-> wire.answered \/ Answer(f),
                   tx       |-> wire.tx \/ (seen /\ f.outgoing),
                   ids      |-> wire.ids \/ (seen /\ ProvesCn(f)),
                   nic      |-> wire.nic]
  /\ UNCHANGED <<vars, tool, place, at, exit, entered, cut, open, sniffer, reached, verdict>>

-----------------------------------------------------------------------------
(* Making and entering the stack *)

\* PowerlinkStack(...): the xap.xml or the shared library may not load.
MakeStack ==
  /\ place = "make"
  /\ \/ place' = "enter" /\ UNCHANGED exit
     \/ place' = "exited" /\ exit' = "error"
  /\ UNCHANGED <<vars, tool, at, entered, cut, open, sniffer, wire, reached, verdict>>

EnterWith ==
  /\ place = "enter"
  /\ CallStart
  /\ place' = "starting"
  /\ UNCHANGED <<tool, at, exit, entered, cut, open, sniffer, wire, reached, verdict>>

\* A start() that raised is not followed by stop(), in none of the programs. The
\* scripts answer a StackError with 2; Thread.start() raises a RuntimeError.
StartFailed ==
  /\ place = "starting"
  /\ app = "idle"
  /\ result # "started"
  /\ place' = "exited"
  /\ exit' = IF tool \in Scripts /\ result = "raised" /\ ~started THEN "2" ELSE "error"
  /\ UNCHANGED <<vars, tool, at, entered, cut, open, sniffer, wire, reached, verdict>>

EnterBody ==
  /\ place' = "body"
  /\ at' = 1
  /\ entered' = TRUE
  /\ UNCHANGED <<vars, tool, exit, cut, open, sniffer, wire, reached, verdict>>

\* The scripts print and take the time before their `try`.
Entered ==
  /\ place = "starting"
  /\ app = "idle"
  /\ result = "started"
  /\ IF tool \in Scripts
       THEN /\ place' = "started"
            /\ UNCHANGED <<vars, tool, at, exit, entered, cut, open, sniffer, wire, reached, verdict>>
       ELSE EnterBody

EnterTry == place = "started" /\ EnterBody

\* Between start() and the `try`, on the way from the body to the first statement
\* of stop(), and after stop(), nothing answers to Ctrl+C.
CtrlCOutside ==
  /\ place \in {"started", "leave", "join"}
  /\ interrupts < MaxInterrupts
  /\ interrupts' = interrupts + 1
  /\ place' = "exited"
  /\ exit' = "error"
  /\ cut' = (cut \/ place = "leave")
  /\ UNCHANGED <<wrapVars, started, stopEvent, thread, supervisor, app, result, polls,
                 diedBefore, tool, at, entered, open, sniffer, wire, reached, verdict>>

-----------------------------------------------------------------------------
(* The body *)

\* Mutant: any flag will do.
SampledAnyFlag(s) == s # NoFlags

\* st.flags & FLAG_MN_OPERATIONAL
Sampled(s) == s.mn

StatementReturns ==
  /\ place = "body"
  /\ reached' = (reached \/ (tool \in Scripts /\ Body[tool][at] = "status" /\ Sampled(status)))
  /\ \/ at < Len(Body[tool]) /\ at' = at + 1 /\ UNCHANGED place
     \/ /\ at = Len(Body[tool])
        /\ IF tool \in DOMAIN LoopFrom
             THEN at' = LoopFrom[tool] /\ UNCHANGED place
             ELSE at' = 0 /\ place' = "leave"
  /\ UNCHANGED <<vars, tool, exit, entered, cut, open, sniffer, wire, verdict>>

TimeIsUp ==
  /\ place = "body"
  /\ Body[tool][at] = "test"
  /\ place' = "leave"
  /\ at' = 0
  /\ UNCHANGED <<vars, tool, exit, entered, cut, open, sniffer, wire, reached, verdict>>

\* Mutant: nothing leaves the stack when the body raises.
StatementRaisesOut ==
  /\ place = "body"
  /\ Body[tool][at] = "write"
  /\ place' = "exited"
  /\ at' = 0
  /\ exit' = "error"
  /\ UNCHANGED <<vars, tool, entered, cut, open, sniffer, wire, reached, verdict>>

StatementRaises ==
  /\ place = "body"
  /\ Body[tool][at] = "write"
  /\ place' = "leave"
  /\ at' = 0
  /\ exit' = "error"
  /\ UNCHANGED <<vars, tool, entered, cut, open, sniffer, wire, reached, verdict>>

\* Mutant: the except clause stands inside the loop.
AfterCtrlCGoOn == IF InLoop(tool, at) THEN "body" ELSE "leave"

AfterCtrlC == "leave"

\* Ctrl+C ends the loops of run and watch without an error, and everything else
\* with one.
CtrlCInBody ==
  /\ place = "body"
  /\ interrupts < MaxInterrupts
  /\ interrupts' = interrupts + 1
  /\ place' = AfterCtrlC
  /\ at' = IF AfterCtrlC = "body" THEN at ELSE 0
  /\ exit' = IF InLoop(tool, at) THEN exit ELSE "error"
  /\ UNCHANGED <<wrapVars, started, stopEvent, thread, supervisor, app, result, polls,
                 diedBefore, tool, entered, cut, open, sniffer, wire, reached, verdict>>

-----------------------------------------------------------------------------
(* Leaving *)

LeaveWith ==
  /\ place = "leave"
  /\ CallStop
  /\ place' = "stopping"
  /\ UNCHANGED <<tool, at, exit, entered, cut, open, sniffer, wire, reached, verdict>>

\* Mutant: the process does not wait for stop().
LeftAtOnce ==
  /\ place = "stopping"
  /\ place' = "exited"
  /\ exit' = IF result = "stopped" THEN exit ELSE "error"
  /\ UNCHANGED <<vars, tool, at, entered, cut, open, sniffer, wire, reached, verdict>>

\* After stop() returned diag goes on to its verdict, and cndiag to its sniffer;
\* sniffer.stop() is cndiag's next statement. A stop() that raised ends both.
Left ==
  /\ place = "stopping"
  /\ app = "idle"
  /\ IF result = "stopped" /\ tool \in Scripts
       THEN /\ place' = IF tool = "diag" THEN "after" ELSE "join"
            /\ sniffer' = IF sniffer = "runs" THEN "told" ELSE sniffer
            /\ UNCHANGED exit
       ELSE /\ place' = "exited"
            /\ exit' = IF result = "stopped" THEN exit ELSE "error"
            /\ UNCHANGED sniffer
  /\ UNCHANGED <<vars, tool, at, entered, cut, open, wire, reached, verdict>>

\* sniffer.join(timeout=1.0). Sniffer keeps an Event in `_stop`, the name of a
\* method that Thread.join() of CPython up to 3.12 calls once the thread has
\* ended: it raises a TypeError there, and returns under later releases. A
\* timeout returns under all of them.
JoinSniffer ==
  /\ place = "join"
  /\ \/ place' = "after" /\ UNCHANGED exit
     \/ sniffer = "ended" /\ place' = "exited" /\ exit' = "error"
  /\ UNCHANGED <<vars, tool, at, entered, cut, open, sniffer, wire, reached, verdict>>

\* tx1 - tx0 > 0 of _nic_counters, where a counter that cannot be read is -1.
\* The NIC counts other packets, too.
NicRose(nic, more) == nic.after /\ (nic.before => more)

\* What the script says.
Diagnosis(rose) ==
  IF ~reached THEN "not op"
  ELSE IF tool = "diag" THEN "op"
  ELSE IF ~wire.tx /\ ~rose THEN "no tx"
  ELSE IF wire.ids THEN "answers" ELSE "silent"

\* The end of `finally`: an exception goes on, otherwise the verdict is printed.
\* Whether tx0 was read shows here first.
Report ==
  /\ place = "after"
  /\ place' = "exited"
  /\ \E others \in BOOLEAN, nic \in [before : BOOLEAN, after : BOOLEAN] :
       /\ verdict' = IF exit = "0" THEN Diagnosis(NicRose(nic, wire.sent \/ others)) ELSE "none"
       /\ wire' = [wire EXCEPT !.nic = nic]
  /\ UNCHANGED <<vars, tool, at, exit, entered, cut, open, sniffer, reached>>

\* start() and stop() go on: plw_init blocks the timer signals first of all, and
\* the supervisor is a thread like any other.
MethodStep ==
  /\ app # "idle"
  /\ Start \/ Stop
  /\ open' = CASE app = "init" -> open \ {"main"}
               [] app = "spawn" /\ result' = "started" -> Inherited("supervisor")
               [] OTHER -> open
  /\ UNCHANGED <<tool, place, at, exit, entered, cut, sniffer, wire, reached, verdict>>

CtrlCInMethod ==
  /\ Interrupt
  /\ cut' = (cut \/ (place = "stopping" /\ ~InTry))
  /\ UNCHANGED <<tool, place, at, exit, entered, open, sniffer, wire, reached, verdict>>

-----------------------------------------------------------------------------
Tool ==
  \/ BlockSignals
  \/ StartSniffer
  \/ MakeStack
  \/ EnterWith
  \/ StartFailed
  \/ Entered
  \/ EnterTry
  \/ StatementReturns
  \/ TimeIsUp
  \/ StatementRaises
  \/ LeaveWith
  \/ Left
  \/ JoinSniffer
  \/ Report
  \/ MethodStep

\* The supervisor is a daemon thread: it ends with the process, as the stack does.
Background ==
  /\ place # "exited"
  /\ (NativeStack /\ UNCHANGED pyVars) \/ (\E t \in Threads : Supervisor(t))
  /\ UNCHANGED toolVars

Exited == place = "exited" /\ UNCHANGED allVars

ToolNext ==
  \/ Tool
  \/ CtrlCOutside
  \/ CtrlCInBody
  \/ CtrlCInMethod
  \/ SnifferEnds
  \/ Frame
  \/ Background
  \/ Exited

ToolSpec == ToolInit /\ [][ToolNext]_allVars

\* The tool goes on, and its supervisor does; see FairSpec of PowerlinkStack. The
\* time of the scripts passes: a `while` that is reached again and again ends.
FairToolSpec ==
  /\ ToolSpec
  /\ WF_allVars(Tool)
  /\ SF_allVars(TimeIsUp)
  /\ \A t \in Threads : WF_allVars(place # "exited" /\ Supervisor(t) /\ UNCHANGED toolVars)

-----------------------------------------------------------------------------
(* Properties *)

Wires == [sent : BOOLEAN, answered : BOOLEAN, tx : BOOLEAN, ids : BOOLEAN,
          nic : [before : BOOLEAN, after : BOOLEAN]]

\* Every variable of the tool has a value of its kind, and a method runs only
\* where the tool has called one.
ToolTypeOK ==
  /\ tool \in Tools
  /\ place \in {"block", "sniff", "make", "enter", "starting", "started", "body", "leave",
                "stopping", "join", "after", "exited"}
  /\ IF place = "body" THEN at \in DOMAIN Body[tool] ELSE at = 0
  /\ exit \in {"0", "2", "error"}
  /\ app # "idle" => place \in {"starting", "stopping"}
  /\ open \subseteq {"main", "sniffer", "supervisor"}
  /\ sniffer \in {"none", "runs", "told", "ended"}
  /\ wire \in Wires
  /\ verdict \in {"none", "not op", "op", "no tx", "answers", "silent"}

\* The bodies do their I/O on a stack that is complete and supervised, never on
\* one that is not linked yet or is being taken down: the programs keep the rule
\* that the image's atomicity rests on (cli.py:68-132, diag.py:105-119,
\* cndiag.py:164-175, stack.py:186-191).
BodyOverImage ==
  place = "body" =>
    /\ lib = "created" /\ image = "sized" /\ mutexReady
    /\ started /\ thread # NoThread /\ ~stopEvent

\* A program that got into its body leaves nothing behind, however the body ended
\* and wherever an interrupt came, unless one cut stop() short outside its `try`
\* or came just before stop(); the exit status 0 means it (cli.py:75-80,
\* diag.py:105-119, cndiag.py:164-177, stack.py:171-191). A start() that failed
\* is outside of it, and so is Ctrl+C before the `try` of a script (diag.py:89-104).
LeavesNothing ==
  place = "exited" /\ ((entered /\ ~cut) \/ exit = "0") =>
    /\ lib = "down" /\ image = "none" /\ ~mutexReady /\ ~started
    /\ \A t \in Threads : ~Alive(t)

\* While a stack exists no Python thread of the process can take its timer
\* signals, whichever thread was started before it and whichever after: the
\* ticks reach the stack's own timer threads (cndiag.py:137-151,
\* oplkwrap.c:55-60, 198).
OnlyTimersTick == lib # "down" => open = {}

\* What a script reports it has seen: the MN was Operational in this session if it
\* was sampled so, and the session is over and left clean before the verdict
\* (diag.py:105-131, cndiag.py:164-194).
VerdictSeen ==
  /\ reached => wasOp
  /\ verdict # "none" =>
       /\ lib = "down" /\ ~started /\ sniffer # "runs"
       /\ \A t \in Threads : ~Alive(t)

\* cndiag blames the right side: it says that a coupler answers only if one has,
\* and, where it could read the NIC's counter, that nothing was sent only if
\* nothing was. (That none answers, it says of the frames the sniffer saw.)
\* cndiag.py:99-107, 118-125, 193-206.
BlamesRightly ==
  /\ verdict = "answers" => wire.answered
  /\ verdict = "no tx" /\ wire.nic = [before |-> TRUE, after |-> TRUE] => ~wire.sent

\* read, do, ao, diag and cndiag come to an end, and run and watch do after
\* Ctrl+C, whatever fails or dies (cli.py:68-132, diag.py:106, cndiag.py:165).
CommandEnds == (tool \notin Endless \/ interrupts > 0) ~> (place = "exited")

\* cndiag.py:8: "It answers, in one shot, the two questions that pin down a stuck
\* CN". Said of a cndiag that nobody interrupts and whose stack started.
CnDiagAnswers ==
  place = "exited" /\ tool = "cndiag" /\ entered /\ interrupts = 0 => verdict # "none"
=============================================================================
