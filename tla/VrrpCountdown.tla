----------------------------- MODULE VrrpCountdown -----------------------------
(***************************************************************************)
(* What a timer of vrrp_timer.c promises the state machine, and all that   *)
(* VrrpState assumes of it: once armed it counts down with the clock, the  *)
(* loop hears TIMER no earlier than at its end, and no packet or command   *)
(* is reported after it.                                                   *)
(***************************************************************************)
EXTENDS Integers

CONSTANT Durations    \* the delays it is armed with

VARIABLES
  armed,    \* whether the timer runs
  left,     \* the time left, negative once it is over; 0 when not armed
  event     \* what vrrp_listen has just returned, "none" while it has not

Init == armed = FALSE /\ left = 0 /\ event = "none"

Arm(d) == armed' = TRUE /\ left' = d /\ event' = "none"

Clear == armed' = FALSE /\ left' = 0 /\ event' = "none"

Pass == armed /\ left' = left - 1 /\ UNCHANGED <<armed, event>>

\* An expired timer comes first; a signal may be delivered before it is seen.
Report(e) ==
  /\ armed
  /\ e = "TIMER" => left <= 0
  /\ e = "READY" => left >= 0
  /\ event' = e
  /\ UNCHANGED <<armed, left>>

\* The handler goes back to vrrp_listen and leaves the timer alone.
Resume == event' = "none" /\ UNCHANGED <<armed, left>>

Next ==
  \/ \E d \in Durations : Arm(d)
  \/ Clear
  \/ Pass
  \/ \E e \in {"TIMER", "READY", "SIGNAL", "INVALID"} : Report(e)
  \/ Resume

Spec == Init /\ [][Next]_<<armed, left, event>>

================================================================================
