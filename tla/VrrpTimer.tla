------------------------------- MODULE VrrpTimer -------------------------------
(***************************************************************************)
(* A timer of vrrp_timer.c, in seconds and nanoseconds, and the part of    *)
(* vrrp_listen (vrrp.c) that waits for it: the update before pselect, the  *)
(* time limit handed to pselect and the check after it.                    *)
(*                                                                         *)
(* now is the raw monotonic clock in nanoseconds.  pselect measures its    *)
(* limit with another clock and may return before or after the limit.      *)
(***************************************************************************)
EXTENDS Integers

CONSTANTS
  NANOUL,     \* nanoseconds in a second, 10^9 in the code
  CENTUL,     \* nanoseconds in a centisecond, 10^7 in the code
  LongMax,    \* LONG_MAX: tv_nsec and its multiplication are of type long
  Delays,     \* the delays vrrp_timer_set is called with: seconds, centiseconds
  Boot,       \* the time at start-up
  MaxNow      \* bound: the time at which the clock stops

ASSUME TimerAssumption ==
  /\ NANOUL \in Nat \ {0} /\ CENTUL \in Nat \ {0}
  /\ Delays \subseteq Nat \X Nat
  /\ Boot \in Nat \ {0} /\ MaxNow \in Nat

\* Holds with 64 bits: a master-down interval is 4 * 4095 centiseconds at most.
\* With 32 bits it fails above 114 centiseconds.
ASSUME LongAssumption ==
  LongMax \in Nat /\ \A d \in Delays : NANOUL + d[2] * CENTUL <= LongMax

VARIABLES
  now,        \* the clock
  timer,      \* struct vrrp_timer: the deadline ts, and delta
  until,      \* when the limit given to pselect is over
  event,      \* what vrrp_listen has just returned, "none" while it has not
  pc          \* "init" (no timer), "listen", "pselect" or "handle"

vars == <<now, timer, until, event, pc>>

Zero == [sec |-> 0, nsec |-> 0]

Total(ts) == ts.sec * NANOUL + ts.nsec

clock_gettime(t) == [sec |-> t \div NANOUL, nsec |-> t % NANOUL]

\* A long that overflows wraps around.
Long(n) ==
  IF n <= LongMax THEN n
  ELSE ((n + LongMax + 1) % (2 * (LongMax + 1))) - (LongMax + 1)

--------------------------------------------------------------------------------
(* vrrp_timer.c *)

\* mutant: the carry is one second short
carry_short(x, y) ==
  IF x.nsec < y.nsec
  THEN LET n == (y.nsec - x.nsec) \div NANOUL
       IN  [sec |-> y.sec + n, nsec |-> y.nsec - NANOUL * n]
  ELSE y

\* The first branch of timespec_substract: y is moved below x.
Carry(x, y) ==
  IF x.nsec < y.nsec
  THEN LET n == (y.nsec - x.nsec) \div NANOUL + 1
       IN  [sec |-> y.sec + n, nsec |-> y.nsec - NANOUL * n]
  ELSE y

\* mutant: the seconds are not corrected
borrow_nsec_only(x, y) ==
  IF x.nsec - y.nsec > NANOUL
  THEN LET n == (x.nsec - y.nsec) \div NANOUL
       IN  [sec |-> y.sec, nsec |-> y.nsec + NANOUL * n]
  ELSE y

\* The second branch: y is moved up, to less than a second below x, unless it
\* is a second below to the nanosecond.
Borrow(x, y) ==
  IF x.nsec - y.nsec > NANOUL
  THEN LET n == (x.nsec - y.nsec) \div NANOUL
       IN  [sec |-> y.sec - n, nsec |-> y.nsec + NANOUL * n]
  ELSE y

\* The difference, the y that the branches leave, and the value returned.
timespec_substract(x, y) ==
  LET z == Borrow(x, Carry(x, y))
  IN  [result |-> [sec |-> x.sec - z.sec, nsec |-> x.nsec - z.nsec],
       y |-> z, negative |-> x.sec < z.sec]

vrrp_timer_set(d, t) ==
  LET ts == clock_gettime(t)
  IN  [ts |-> [sec  |-> ts.sec + d[1],
               nsec |-> Long(ts.nsec + Long(d[2] * CENTUL))],
       delta |-> Zero]

vrrp_timer_clear == [ts |-> Zero, delta |-> Zero]

vrrp_timer_is_running(vt) == vt.ts # Zero

\* mutant: what timespec_substract returns is not looked at
timer_update_unchecked(vt, t) ==
  LET s == timespec_substract(vt.ts, clock_gettime(t))
  IN  [expired |-> FALSE,
       timer |-> [ts |-> [sec  |-> s.y.sec + s.result.sec,
                          nsec |-> s.y.nsec + s.result.nsec],
                  delta |-> s.result]]

vrrp_timer_update(vt, t) ==
  LET s == timespec_substract(vt.ts, clock_gettime(t))
  IN  [expired |-> s.negative,
       timer |-> [ts |-> IF s.negative THEN vt.ts
                         ELSE [sec  |-> s.y.sec + s.result.sec,
                               nsec |-> s.y.nsec + s.result.nsec],
                  delta |-> s.result]]

\* mutant: only the deadline is looked at
timer_is_expired_stale(vt, t) ==
  [expired |-> vt.ts.sec <= 0 /\ vt.ts.nsec <= 0, timer |-> vt]

vrrp_timer_is_expired(vt, t) ==
  LET u == vrrp_timer_update(vt, t)
  IN  [expired |-> u.expired \/ (u.timer.ts.sec <= 0 /\ u.timer.ts.nsec <= 0),
       timer |-> u.timer]

--------------------------------------------------------------------------------
(* vrrp_listen and the handlers around it. *)

Init ==
  /\ now = Boot
  /\ timer = vrrp_timer_clear
  /\ until = 0
  /\ event = "none"
  /\ pc = "init"

Tick ==
  /\ now < MaxNow
  /\ now' = now + 1
  /\ UNCHANGED <<timer, until, event, pc>>

\* The handler arms a timer: always after TIMER and on the way out of INIT, and
\* after some packets.
Set(d) ==
  /\ pc \in {"init", "handle"}
  /\ timer' = vrrp_timer_set(d, now)
  /\ event' = "none" /\ pc' = "listen"
  /\ UNCHANGED <<now, until>>

\* The handler goes to INIT.
Clear ==
  /\ pc = "handle" /\ event \in {"SIGNAL", "READY"}
  /\ timer' = vrrp_timer_clear
  /\ event' = "none" /\ pc' = "init"
  /\ UNCHANGED <<now, until>>

\* The handler leaves the timer alone.
Keep ==
  /\ pc = "handle" /\ event # "TIMER"
  /\ event' = "none" /\ pc' = "listen"
  /\ UNCHANGED <<now, timer, until>>

\* What pselect refuses with EINVAL.
Refused(ts) == ts.sec < 0 \/ ts.nsec \notin 0..(NANOUL - 1)

\* The update, and the call of pselect.
Listen ==
  /\ pc = "listen"
  /\ LET u == vrrp_timer_update(timer, now)
     IN  /\ timer' = u.timer
         /\ IF u.expired \/ Refused(u.timer.delta)
            THEN /\ event' = (IF u.expired THEN "TIMER" ELSE "INVALID")
                 /\ pc' = "handle"
                 /\ UNCHANGED until
            ELSE /\ pc' = "pselect"
                 /\ until' = now + Total(u.timer.delta)
                 /\ UNCHANGED event
  /\ UNCHANGED now

\* pselect returns, because a descriptor is ready or because the limit is over.
\* In the second case there is nothing to read and the event is INVALID.
Return ==
  /\ pc = "pselect"
  /\ LET u == vrrp_timer_is_expired(timer, now)
     IN  /\ timer' = u.timer
         /\ event' \in (IF u.expired THEN {"TIMER"} ELSE {"READY", "INVALID"})
  /\ pc' = "handle"
  /\ UNCHANGED <<now, until>>

\* pselect is interrupted by a signal.
Interrupt ==
  /\ pc = "pselect"
  /\ event' = "SIGNAL" /\ pc' = "handle"
  /\ UNCHANGED <<now, timer, until>>

Handle == (\E d \in Delays : Set(d)) \/ Clear \/ Keep

Next == Tick \/ Handle \/ Listen \/ Return \/ Interrupt

Spec == Init /\ [][Next]_vars

\* Time passes, the loop goes on, and pselect returns once its limit is over.
Fairness ==
  /\ WF_vars(Tick)
  /\ WF_vars(Handle)
  /\ WF_vars(Listen)
  /\ WF_vars(Return /\ now >= until)

FairSpec == Spec /\ Fairness

--------------------------------------------------------------------------------
(* Properties. *)

\* The types of the timer's state.  A deadline need not be normalised, but its
\* fields are not negative, and neither are the nanoseconds of a difference.
TypeOK ==
  /\ now \in Nat
  /\ timer \in [ts : [sec : Nat, nsec : 0..LongMax],
                delta : [sec : Int, nsec : 0..NANOUL]]
  /\ until \in Int
  /\ event \in {"none", "TIMER", "READY", "SIGNAL", "INVALID"}
  /\ pc \in {"init", "listen", "pselect", "handle"}

Duration(d) == d[1] * NANOUL + d[2] * CENTUL

Left == IF vrrp_timer_is_running(timer) THEN Total(timer.ts) - now ELSE 0

\* The timer in seconds and nanoseconds is a countdown: no update moves the
\* deadline, whatever the carries, TIMER is never reported early, and neither a
\* packet nor a command is reported once the time is over.
Countdown == INSTANCE VrrpCountdown
               WITH Durations <- {Duration(d) : d \in Delays},
                    armed <- vrrp_timer_is_running(timer), left <- Left
IsCountdown == Countdown!Spec

\* The limit given to pselect ends exactly at the deadline.
WaitsForDeadline == pc = "pselect" => until = Total(timer.ts)

\* pselect refuses the limit (and the loop spins) only at an instant that is a
\* whole number of seconds, and at least one, before the deadline: the one
\* difference timespec_substract does not normalise.
RefusedOnWholeSeconds ==
  [][event' = "INVALID" /\ pc = "listen" =>
       /\ Total(timer.ts) - now >= NANOUL
       /\ (Total(timer.ts) - now) % NANOUL = 0]_vars

\* A timer that is left alone expires, however often pselect returns early, is
\* interrupted or refuses its limit.  (One that is armed again and again ends up
\* with a deadline past the bound of the clock.)
TimerFires ==
  (vrrp_timer_is_running(timer) /\ Total(timer.ts) < MaxNow)
    ~> (event = "TIMER" \/ pc = "init" \/ Total(timer.ts) >= MaxNow)

================================================================================
