------------------------------ MODULE OplkWrap ------------------------------
(***************************************************************************)
(* The native shim oplkwrap.c as its callers see it: what each plw_*       *)
(* lifecycle call does to the shim's static state and to the openPOWERLINK *)
(* stack below it, and how stack events reach the status flags.            *)
(*                                                                         *)
(* The openPOWERLINK stack is external: an MN whose NMT state follows      *)
(* posted commands and the network, a FIFO of API events, and a kernel     *)
(* part that may die. PowerlinkStack calls these operations.               *)
(***************************************************************************)
EXTENDS Naturals, Sequences

CONSTANT MaxEvents      \* bound: API events the stack has queued and not delivered

ASSUME EventsAssumption == MaxEvents \in Nat \ {0}

VARIABLES
  lib,         \* the stack: "down", "initialized" (oplk_initialize) or "created"
  image,       \* what plw_alloc_pi has published: "none", "pointers" or "sized"
  mutexReady,  \* mutexReady_l
  status,      \* the flags of status_l
  nmt,         \* external: the MN's NMT state, "off", "preop" or "op"
  command,     \* external: the NMT command posted last, or "none"
  events,      \* external: API events not yet delivered to processEvents
  kernelAlive, \* external: the kernel part of the stack runs
  wasOp        \* history: the MN has reached Operational since plw_init

mnVars == <<nmt, command, events, kernelAlive, wasOp>>
shimVars == <<lib, image, mutexReady, status>>
wrapVars == <<shimVars, mnVars>>

NoFlags == [running |-> FALSE, mn |-> FALSE, cn |-> FALSE]

WrapInit ==
  /\ lib = "down"
  /\ image = "none"
  /\ mutexReady = FALSE
  /\ status = NoFlags
  /\ nmt = "off"
  /\ command = "none"
  /\ events = <<>>
  /\ kernelAlive = TRUE
  /\ wasOp = FALSE

-----------------------------------------------------------------------------
(* Lifecycle calls. Each takes the outcome it has and leaves the return code *)
(* to its caller; a failing call undoes nothing of what it did.              *)

InitOutcomes == {"ok", "obd", "initialize", "create"}

\* A stack that was initialised before and not shut down is not made again.
InitOutcomesNow == IF lib = "down" THEN InitOutcomes ELSE {"obd", "initialize"}

\* Mutant: the flags of the session before survive into the next one.
FlagsKept == status

\* memset(&status_l, 0, ...)
FlagsAtInit == NoFlags

PlwInit(o) ==
  /\ mutexReady' = TRUE
  /\ status' = FlagsAtInit
  /\ wasOp' = FALSE
  /\ lib' = IF o = "ok" THEN "created"
            ELSE IF o = "create" THEN "initialized" ELSE lib
  /\ kernelAlive' = (o = "ok" \/ kernelAlive)
  /\ UNCHANGED <<image, nmt, command, events>>

AllocOutcomes == {"ok", "alloc", "link"}

PlwAllocPi(o) ==
  /\ image' = IF o = "ok" THEN "sized"
              ELSE IF o = "link" THEN "pointers" ELSE image
  /\ UNCHANGED <<lib, mutexReady, status, mnVars>>

\* plw_start posts kNmtEventSwReset and plw_stop kNmtEventSwitchOff; the MN
\* acts on the command later. A stack that is not created refuses both.
PostCommand(c, ok) ==
  /\ ok => lib = "created"
  /\ command' = IF ok THEN c ELSE command
  /\ UNCHANGED <<shimVars, nmt, events, kernelAlive, wasOp>>

\* Mutant: plw_shutdown leaves the sizes and pointers of the freed image.
ImageKept == image

ImageAfterShutdown == "none"

\* The status is left as it was: only events and plw_init write it.
PlwShutdown ==
  /\ lib' = "down"
  /\ image' = ImageAfterShutdown
  /\ mutexReady' = FALSE
  /\ nmt' = "off"
  /\ command' = "none"
  /\ events' = <<>>
  /\ UNCHANGED <<status, kernelAlive, wasOp>>

-----------------------------------------------------------------------------
(* processEvents, called in the stack's own context. *)

NmtEvents == {"ms_preop", "ms_op", "gs_off"}
NodeEvents == {"cs_op", "cs_other", "cn_error"}

\* Mutant: leaving MsOperational does not clear the flag.
AfterNmtEventSticky(s, e) ==
  [s EXCEPT !.mn = s.mn \/ e = "ms_op", !.running = (e # "gs_off")]

AfterNmtEvent(s, e) ==
  [s EXCEPT !.mn = (e = "ms_op"), !.running = (e # "gs_off")]

\* Any node: the event's node id is not looked at.
AfterNodeEvent(s, e) == [s EXCEPT !.cn = (e = "cs_op")]

ProcessEvents ==
  /\ lib = "created"
  /\ events # <<>>
  /\ status' = IF Head(events) \in NmtEvents
                 THEN AfterNmtEvent(status, Head(events))
                 ELSE AfterNodeEvent(status, Head(events))
  /\ events' = Tail(events)
  /\ UNCHANGED <<lib, image, mutexReady, nmt, command, kernelAlive, wasOp>>

-----------------------------------------------------------------------------
(* The stack below the shim. *)

Enter(state, e) ==
  /\ lib = "created"
  /\ kernelAlive
  /\ Len(events) < MaxEvents
  /\ nmt' = state
  /\ events' = Append(events, e)
  /\ wasOp' = (wasOp \/ state = "op")
  /\ UNCHANGED <<shimVars, kernelAlive>>

MnObeys ==
  /\ command # "none"
  /\ command' = "none"
  /\ IF command = "reset" THEN Enter("preop", "ms_preop") ELSE Enter("off", "gs_off")

MnReachesOp == nmt = "preop" /\ Enter("op", "ms_op") /\ UNCHANGED command

MnFallsBack == nmt = "op" /\ Enter("preop", "ms_preop") /\ UNCHANGED command

NodeReports ==
  /\ nmt # "off"
  /\ \E e \in NodeEvents : Enter(nmt, e)
  /\ UNCHANGED command

KernelDies ==
  /\ lib = "created"
  /\ kernelAlive
  /\ kernelAlive' = FALSE
  /\ UNCHANGED <<shimVars, nmt, command, events, wasOp>>

NativeStack ==
  \/ ProcessEvents
  \/ MnObeys
  \/ MnReachesOp
  \/ MnFallsBack
  \/ NodeReports
  \/ KernelDies

WrapTypeOK ==
  /\ lib \in {"down", "initialized", "created"}
  /\ image \in {"none", "pointers", "sized"}
  /\ mutexReady \in BOOLEAN
  /\ status \in [running : BOOLEAN, mn : BOOLEAN, cn : BOOLEAN]
  /\ nmt \in {"off", "preop", "op"}
  /\ command \in {"none", "reset", "off"}
  /\ events \in Seq(NmtEvents \cup NodeEvents)
  /\ Len(events) <= MaxEvents
  /\ kernelAlive \in BOOLEAN
  /\ wasOp \in BOOLEAN
=============================================================================
