----------------------------- MODULE Lifecycle ------------------------------
(***************************************************************************)
(* What PowerlinkStack promises of a native stack, whatever fails and      *)
(* wherever a KeyboardInterrupt comes: it is built before it is promised,  *)
(* promised before it is watched, no longer watched when it is taken down, *)
(* and taken down before the promise is given up and it is built anew.     *)
(***************************************************************************)

VARIABLES
  native,    \* the stack, its image and its mutex: "down", "partial" or "up"
  promised,  \* a start() has succeeded and no stop() has yet
  watched    \* a supervisor runs

vars == <<native, promised, watched>>

Init == native = "down" /\ ~promised /\ ~watched

\* start(), as far as it gets; what a failed one has built stays.
Build ==
  /\ ~promised /\ ~watched
  /\ native # "up"
  /\ native' \in {"partial", "up"}
  /\ UNCHANGED <<promised, watched>>

Promise ==
  /\ ~promised /\ ~watched
  /\ native = "up"
  /\ promised' = TRUE
  /\ UNCHANGED <<native, watched>>

Watch ==
  /\ promised /\ ~watched
  /\ native = "up"
  /\ watched' = TRUE
  /\ UNCHANGED <<native, promised>>

\* stop() is waiting for it, or the kernel part is dead.
Unwatch ==
  /\ watched
  /\ watched' = FALSE
  /\ UNCHANGED <<native, promised>>

TakeDown ==
  /\ promised /\ ~watched
  /\ native' = "down"
  /\ UNCHANGED <<promised, watched>>

Release ==
  /\ promised /\ ~watched
  /\ native = "down"
  /\ promised' = FALSE
  /\ UNCHANGED <<native, watched>>

Next == Build \/ Promise \/ Watch \/ Unwatch \/ TakeDown \/ Release

Spec == Init /\ [][Next]_vars
=============================================================================
