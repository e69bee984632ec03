---------------------------- MODULE AtomicImage ----------------------------
(***************************************************************************)
(* What the shim promises of the process image (oplkwrap.h, "I/O"): every  *)
(* read and write of a byte window, and every exchange with the network,   *)
(* takes effect on the whole image at one instant between its call and its *)
(* return; a window that does not lie in an attached image is refused.     *)
(* While the image is taken away cycles may still come, and nothing is     *)
(* promised of what they send; once it is gone they have ended.            *)
(*                                                                         *)
(* ImageExchange implements this module: there the instant is the moment   *)
(* the operation acquires the cycle mutex.                                 *)
(***************************************************************************)
EXTENDS ImageData

Fits(q) == q.off + q.len <= Cap[q.op.img]

VARIABLES
  phase,      \* an image of the configured size is "attached", "leaving" or "none"
  img,        \* the contents of both images
  wire,       \* the outputs most recently sent to the CN
  heartbeat,  \* cycles processed, modulo HeartbeatModulus
  stage,      \* of each caller: "idle", "called" or "done"
  req,        \* of each caller: the request it is making
  buf,        \* of each caller: the bytes it writes, or has read
  count       \* of each caller: the bytes the call reports as transferred

vars == <<phase, img, wire, heartbeat, stage, req, buf, count>>

Init ==
  /\ phase = "none"
  /\ img \in BothContents
  /\ wire = [b \in 0 .. InSize - 1 |-> Zero]
  /\ heartbeat = 0
  /\ stage = [c \in Callers |-> "idle"]
  /\ req = [c \in Callers |-> NoRequest]
  /\ buf = [c \in Callers |-> Zeros(NoRequest)]
  /\ count = [c \in Callers |-> 0]

Invoke(c, q, d) ==
  /\ stage[c] = "idle"
  /\ stage' = [stage EXCEPT ![c] = "called"]
  /\ req' = [req EXCEPT ![c] = q]
  /\ buf' = [buf EXCEPT ![c] = d]
  /\ count' = [count EXCEPT ![c] = 0]
  /\ UNCHANGED <<phase, img, wire, heartbeat>>

Refuse(c) ==
  /\ stage[c] = "called"
  /\ phase # "attached" \/ ~Fits(req[c])
  /\ stage' = [stage EXCEPT ![c] = "done"]
  /\ UNCHANGED <<phase, img, wire, heartbeat, req, buf, count>>

Transfer(c) ==
  LET q == req[c]
      i == q.op.img
  IN  /\ stage[c] = "called"
      /\ phase = "attached"
      /\ Fits(q)
      /\ stage' = [stage EXCEPT ![c] = "done"]
      /\ count' = [count EXCEPT ![c] = q.len]
      /\ IF q.op.write
           THEN /\ img' = [img EXCEPT ![i] =
                             [b \in 0 .. Cap[i] - 1 |->
                                IF b \in Span(q) THEN buf[c][b] ELSE img[i][b]]]
                /\ UNCHANGED buf
           ELSE /\ buf' = [buf EXCEPT ![c] = [b \in Span(q) |-> img[i][b]]]
                /\ UNCHANGED img
      /\ UNCHANGED <<phase, wire, heartbeat, req>>

Respond(c) ==
  /\ stage[c] = "done"
  /\ stage' = [stage EXCEPT ![c] = "idle"]
  /\ req' = [req EXCEPT ![c] = NoRequest]
  /\ buf' = [buf EXCEPT ![c] = Zeros(NoRequest)]
  /\ count' = [count EXCEPT ![c] = 0]
  /\ UNCHANGED <<phase, img, wire, heartbeat>>

Exchange(outcome, frame) ==
  /\ phase # "none"
  /\ img' = IF outcome = "none" THEN img ELSE [img EXCEPT !["out"] = frame]
  /\ wire' = IF outcome = "both" THEN img["in"] ELSE wire
  /\ heartbeat' = (heartbeat + 1) % HeartbeatModulus
  /\ UNCHANGED <<phase, stage, req, buf, count>>

\* A cycle that runs while the image is taken away may send anything.
Spoil ==
  /\ phase = "leaving"
  /\ wire' \in Contents("in")
  /\ UNCHANGED <<phase, img, heartbeat, stage, req, buf, count>>

\* Memory for a new image: its first contents are whatever they are.
Prepare ==
  /\ phase = "none"
  /\ img' \in BothContents
  /\ UNCHANGED <<phase, wire, heartbeat, stage, req, buf, count>>

Attach ==
  /\ phase = "none"
  /\ phase' = "attached"
  /\ UNCHANGED <<img, wire, heartbeat, stage, req, buf, count>>

\* An image is never taken away under a call. It may be under a cycle.
Detach ==
  /\ phase = "attached"
  /\ \A c \in Callers : stage[c] = "idle"
  /\ phase' = "leaving"
  /\ UNCHANGED <<img, wire, heartbeat, stage, req, buf, count>>

\* From here on no cycle comes.
Leave ==
  /\ phase = "leaving"
  /\ phase' = "none"
  /\ UNCHANGED <<img, wire, heartbeat, stage, req, buf, count>>

Next ==
  \/ \E c \in Callers :
       \/ \E q \in Requests : \E d \in Buffers(q) : Invoke(c, q, d)
       \/ Refuse(c)
       \/ Transfer(c)
       \/ Respond(c)
  \/ \E outcome \in Outcomes, frame \in Contents("out") : Exchange(outcome, frame)
  \/ Spoil
  \/ Prepare
  \/ Attach
  \/ Detach
  \/ Leave

Spec == Init /\ [][Next]_vars
=============================================================================
