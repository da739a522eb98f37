--------------------------- MODULE VrrpTimer_proofs ---------------------------
(***************************************************************************)
(* A timer in seconds and nanoseconds is a countdown, for every number of  *)
(* nanoseconds in a second, every delay and every clock reading.           *)
(*                                                                         *)
(* The carries of timespec_substract move y by whole seconds, so they keep *)
(* its total; what they achieve is that the difference has its nanoseconds *)
(* in 0..NANOUL.  Everything else follows from these two facts.            *)
(***************************************************************************)
EXTENDS VrrpTimer, TLAPS

Deadlines == [sec : Nat, nsec : 0..LongMax]

\* Division with remainder by the nanoseconds of a second.
LEMMA DivMod ==
  ASSUME NEW a \in Nat
  PROVE  /\ a \div NANOUL \in Nat /\ a % NANOUL \in 0..(NANOUL - 1)
         /\ a = NANOUL * (a \div NANOUL) + (a % NANOUL)
BY TimerAssumption, Z3

\* A clock reading is normalised and stands for the time.
LEMMA ClockPost ==
  ASSUME NEW t \in Nat
  PROVE  /\ clock_gettime(t) \in [sec : Nat, nsec : 0..(NANOUL - 1)]
         /\ Total(clock_gettime(t)) = t
<1>1. /\ t \div NANOUL \in Nat /\ t % NANOUL \in 0..(NANOUL - 1)
      /\ t = NANOUL * (t \div NANOUL) + (t % NANOUL)
  BY DivMod
<1>2. QED
  BY <1>1, TimerAssumption DEF clock_gettime, Total

\* The first branch keeps the total and moves y below x, by a second at most.
LEMMA CarryPost ==
  ASSUME NEW x \in [sec : Nat, nsec : Nat],
         NEW y \in [sec : Nat, nsec : 0..(NANOUL - 1)]
  PROVE  /\ Carry(x, y) \in [sec : Nat, nsec : Int]
         /\ Total(Carry(x, y)) = Total(y)
         /\ x.nsec >= Carry(x, y).nsec
BY TimerAssumption, DivMod, SMT DEF Carry, Total

\* The second branch keeps the total and moves y up, to a second below x at most.
LEMMA BorrowPost ==
  ASSUME NEW x \in [sec : Nat, nsec : Nat], NEW y \in [sec : Nat, nsec : Int],
         x.nsec >= y.nsec
  PROVE  /\ Borrow(x, y) \in [sec : Int, nsec : Int]
         /\ Total(Borrow(x, y)) = Total(y)
         /\ x.nsec - Borrow(x, y).nsec \in 0..NANOUL
BY TimerAssumption, DivMod, SMTT(40) DEF Borrow, Total

\* The difference of a deadline and a clock reading is exact, its nanoseconds are
\* not negative and a second at most, and it is reported negative only when the
\* deadline is reached, and always when it has passed.
LEMMA SubstractPost ==
  ASSUME NEW x \in Deadlines, NEW t \in Nat
  PROVE  LET s == timespec_substract(x, clock_gettime(t))
         IN  /\ s.result \in [sec : Int, nsec : 0..NANOUL]
             /\ s.y \in [sec : Int, nsec : Int]
             /\ Total(s.result) = Total(x) - t
             /\ x = [sec |-> s.y.sec + s.result.sec, nsec |-> s.y.nsec + s.result.nsec]
             /\ s.negative \in BOOLEAN
             /\ s.negative <=> s.result.sec < 0
             /\ s.negative => Total(x) <= t
             /\ ~s.negative => Total(x) >= t
<1> DEFINE y == clock_gettime(t)
           u == Carry(x, y)
           z == Borrow(x, u)
<1>0. x \in [sec : Nat, nsec : Nat]
  BY LongAssumption DEF Deadlines
<1>1. y \in [sec : Nat, nsec : 0..(NANOUL - 1)] /\ Total(y) = t
  BY ClockPost
<1>2. u \in [sec : Nat, nsec : Int] /\ Total(u) = t /\ x.nsec >= u.nsec
  <2> HIDE DEF y
  <2> QED BY <1>0, <1>1, CarryPost
<1>3. /\ z \in [sec : Int, nsec : Int] /\ Total(z) = t
      /\ x.nsec - z.nsec \in 0..NANOUL
  <2> HIDE DEF u
  <2> QED BY <1>0, <1>2, BorrowPost
<1>4. timespec_substract(x, y) =
        [result |-> [sec |-> x.sec - z.sec, nsec |-> x.nsec - z.nsec],
         y |-> z, negative |-> x.sec < z.sec]
  BY DEF timespec_substract
<1>y. y = clock_gettime(t)
  OBVIOUS
<1> HIDE DEF y, u, z
<1> DEFINE r == [sec |-> x.sec - z.sec, nsec |-> x.nsec - z.nsec]
<1>5. r \in [sec : Int, nsec : 0..NANOUL] /\ Total(r) = Total(x) - t
  BY <1>0, <1>3, TimerAssumption DEF Total
<1>6. x.sec < z.sec => Total(x) <= t
  <2> SUFFICES ASSUME x.sec < z.sec PROVE Total(x) <= t
    OBVIOUS
  <2>1. r.sec <= -1 /\ r.nsec <= NANOUL
    BY <1>0, <1>3, <1>5
  <2>2. r.sec * NANOUL <= -NANOUL
    BY <2>1, <1>5, TimerAssumption, SMT
  <2>3. Total(x) \in Int
    BY <1>0, TimerAssumption DEF Total
  <2> QED
    BY <2>1, <2>2, <2>3, <1>5, TimerAssumption, SMT DEF Total
<1>7. ~(x.sec < z.sec) => Total(x) >= t
  BY <1>0, <1>3, <1>5, TimerAssumption, SMT DEF Total
<1>8. x = [sec |-> z.sec + r.sec, nsec |-> z.nsec + r.nsec]
  BY <1>0, <1>3
<1>9. /\ (x.sec < z.sec) \in BOOLEAN
      /\ (x.sec < z.sec) <=> x.sec - z.sec < 0
  BY <1>0, <1>3
<1> HIDE DEF r
<1>10. /\ timespec_substract(x, y).result = r
       /\ timespec_substract(x, y).y = z
       /\ timespec_substract(x, y).negative = (x.sec < z.sec)
       /\ r.sec = x.sec - z.sec
  BY <1>4 DEF r
<1> QED
  BY <1>y, <1>3, <1>5, <1>6, <1>7, <1>8, <1>9, <1>10, ZenonT(60)

\* An update leaves the deadline where it is; the difference it stores is the
\* time left.
LEMMA UpdatePost ==
  ASSUME NEW vt \in [ts : Deadlines, delta : [sec : Int, nsec : 0..NANOUL]],
         NEW t \in Nat
  PROVE  LET u == vrrp_timer_update(vt, t)
         IN  /\ u.timer \in [ts : Deadlines, delta : [sec : Int, nsec : 0..NANOUL]]
             /\ u.timer.ts = vt.ts
             /\ Total(u.timer.delta) = Total(vt.ts) - t
             /\ u.expired \in BOOLEAN
             /\ u.expired <=> u.timer.delta.sec < 0
             /\ u.expired => Total(vt.ts) <= t
             /\ ~u.expired => Total(vt.ts) >= t
<1> DEFINE s == timespec_substract(vt.ts, clock_gettime(t))
           y == [sec |-> s.y.sec + s.result.sec, nsec |-> s.y.nsec + s.result.nsec]
<1>0. vt.ts \in Deadlines
  OBVIOUS
<1>1. /\ s.result \in [sec : Int, nsec : 0..NANOUL]
      /\ Total(s.result) = Total(vt.ts) - t
      /\ vt.ts = y
      /\ s.negative \in BOOLEAN
      /\ s.negative <=> s.result.sec < 0
      /\ s.negative => Total(vt.ts) <= t
      /\ ~s.negative => Total(vt.ts) >= t
  BY <1>0, SubstractPost
<1>2. vrrp_timer_update(vt, t) =
        [expired |-> s.negative,
         timer |-> [ts |-> IF s.negative THEN vt.ts ELSE y, delta |-> s.result]]
  BY DEF vrrp_timer_update
<1> HIDE DEF s, y
<1>3. vrrp_timer_update(vt, t) =
        [expired |-> s.negative, timer |-> [ts |-> vt.ts, delta |-> s.result]]
  BY <1>1, <1>2
<1>4. /\ vrrp_timer_update(vt, t).expired = s.negative
      /\ vrrp_timer_update(vt, t).timer = [ts |-> vt.ts, delta |-> s.result]
      /\ vrrp_timer_update(vt, t).timer.ts = vt.ts
      /\ vrrp_timer_update(vt, t).timer.delta = s.result
  BY <1>3
<1>5. [ts |-> vt.ts, delta |-> s.result]
        \in [ts : Deadlines, delta : [sec : Int, nsec : 0..NANOUL]]
  BY <1>0, <1>1
<1> QED
  BY <1>1, <1>4, <1>5

\* Arming sets the deadline to the sum of clock and delay: nothing overflows.
LEMMA SetPost ==
  ASSUME NEW d \in Delays, NEW t \in Nat \ {0}
  PROVE  LET vt == vrrp_timer_set(d, t)
         IN  /\ vt \in [ts : Deadlines, delta : [sec : Int, nsec : 0..NANOUL]]
             /\ Total(vt.ts) = t + Duration(d)
             /\ vt.ts # Zero
<1> DEFINE y == clock_gettime(t)
           ns == y.nsec + d[2] * CENTUL
<1>1. y \in [sec : Nat, nsec : 0..(NANOUL - 1)] /\ Total(y) = t
  BY ClockPost
<1>2. d[1] \in Nat /\ d[2] \in Nat
  BY TimerAssumption
<1>3. d[2] * CENTUL \in Nat /\ NANOUL + d[2] * CENTUL <= LongMax
  BY <1>2, TimerAssumption, LongAssumption
<1>4. Long(d[2] * CENTUL) = d[2] * CENTUL
  BY <1>3, TimerAssumption, LongAssumption DEF Long
<1>y. y = clock_gettime(t)
  OBVIOUS
<1> HIDE DEF y
<1>5. ns \in 0..LongMax /\ Long(ns) = ns
  BY <1>1, <1>3, TimerAssumption, LongAssumption DEF Long
<1>6. vrrp_timer_set(d, t) =
        [ts |-> [sec |-> y.sec + d[1], nsec |-> ns], delta |-> Zero]
  BY <1>y, <1>4, <1>5 DEF vrrp_timer_set
<1>7. /\ Total([sec |-> y.sec + d[1], nsec |-> ns]) = t + Duration(d)
      /\ Duration(d) \in Nat
  BY <1>1, <1>2, <1>3, TimerAssumption, SMTT(40) DEF Total, Duration
<1>8. [sec |-> y.sec + d[1], nsec |-> ns] # Zero
  BY <1>7, TimerAssumption DEF Total, Zero
<1>9. /\ [sec |-> y.sec + d[1], nsec |-> ns] \in Deadlines
      /\ Zero \in [sec : Int, nsec : 0..NANOUL]
  BY <1>1, <1>2, <1>5, TimerAssumption, SMTT(40) DEF Deadlines, Zero
<1> HIDE DEF ns
<1> QED
  BY <1>6, <1>7, <1>8, <1>9

--------------------------------------------------------------------------------
(* The invariant. *)

\* The timer runs exactly outside INIT, and the clock is past its zero: both are
\* needed for an armed timer never to be taken for a cleared one.
IInv ==
  /\ TypeOK
  /\ now # 0
  /\ pc = "init" <=> timer.ts = Zero
  /\ pc # "handle" => event = "none"
  /\ WaitsForDeadline

\* What the two functions vrrp_listen calls do to the timer of a state.
LEMMA ListenPost ==
  ASSUME TypeOK
  PROVE  LET u == vrrp_timer_update(timer, now)
         IN  /\ u.timer \in [ts : Deadlines, delta : [sec : Int, nsec : 0..NANOUL]]
             /\ u.timer.ts = timer.ts
             /\ Total(u.timer.delta) = Total(timer.ts) - now
             /\ u.expired \in BOOLEAN
             /\ u.expired <=> u.timer.delta.sec < 0
             /\ u.expired => Total(timer.ts) <= now
             /\ ~u.expired => Total(timer.ts) >= now
<1>1. timer \in [ts : Deadlines, delta : [sec : Int, nsec : 0..NANOUL]] /\ now \in Nat
  BY DEF TypeOK, Deadlines
<1> QED
  BY <1>1, UpdatePost

LEMMA ReturnPost ==
  ASSUME TypeOK, timer.ts # Zero
  PROVE  vrrp_timer_is_expired(timer, now) = vrrp_timer_update(timer, now)
<1> DEFINE u == vrrp_timer_update(timer, now)
<1>1. u.timer.ts = timer.ts /\ u.expired \in BOOLEAN
  BY ListenPost
<1>2. ~(timer.ts.sec <= 0 /\ timer.ts.nsec <= 0)
  BY LongAssumption, SMTT(40) DEF TypeOK, Zero
<1>3. u = [expired |-> u.expired, timer |-> u.timer]
  BY DEF vrrp_timer_update
<1>4. vrrp_timer_is_expired(timer, now) =
        [expired |-> u.expired \/ (u.timer.ts.sec <= 0 /\ u.timer.ts.nsec <= 0),
         timer |-> u.timer]
  BY DEF vrrp_timer_is_expired
<1> HIDE DEF u
<1>5. (u.expired \/ (u.timer.ts.sec <= 0 /\ u.timer.ts.nsec <= 0)) = u.expired
  BY <1>1, <1>2, Zenon
<1>6. vrrp_timer_is_expired(timer, now) = u
  BY <1>3, <1>4, <1>5, Zenon
<1> QED
  BY <1>6 DEF u

LEMMA InitInv == Init => IInv
BY TimerAssumption, LongAssumption
   DEF Init, IInv, TypeOK, WaitsForDeadline, vrrp_timer_clear, Zero

LEMMA NextInv == IInv /\ [Next]_vars => IInv'
<1> SUFFICES ASSUME IInv, [Next]_vars PROVE IInv'
  OBVIOUS
<1> USE DEF IInv
<1>0. now' \in Nat
  BY DEF TypeOK, Next, vars, Tick, Handle, Set, Clear, Keep, Listen, Return, Interrupt
<1>1. CASE Tick
  BY <1>1 DEF Tick, TypeOK, WaitsForDeadline
<1>2. ASSUME NEW d \in Delays, Set(d) PROVE IInv'
  <2>1. now \in Nat \ {0}
    BY DEF TypeOK
  <2>2. /\ timer' \in [ts : Deadlines, delta : [sec : Int, nsec : 0..NANOUL]]
        /\ timer'.ts # Zero
    BY <1>2, <2>1, SetPost DEF Set
  <2> QED
    BY <1>2, <2>2 DEF Set, TypeOK, WaitsForDeadline, Deadlines
<1>3. CASE Clear
  BY <1>3, TimerAssumption, LongAssumption
     DEF Clear, TypeOK, WaitsForDeadline, vrrp_timer_clear, Zero
<1>4. CASE Keep
  BY <1>4 DEF Keep, TypeOK, WaitsForDeadline
<1>5. CASE Listen
  <2> DEFINE u == vrrp_timer_update(timer, now)
  <2>1. /\ u.timer \in [ts : Deadlines, delta : [sec : Int, nsec : 0..NANOUL]]
        /\ u.timer.ts = timer.ts
        /\ Total(u.timer.delta) = Total(timer.ts) - now
    BY ListenPost
  <2>2. /\ timer' = u.timer /\ now' = now
        /\ \/ pc' = "handle" /\ until' = until /\ event' \in {"TIMER", "INVALID"}
           \/ /\ pc' = "pselect" /\ until' = now + Total(u.timer.delta)
              /\ event' = event
    BY <1>5 DEF Listen
  <2> HIDE DEF u
  <2>3. Total(timer.ts) \in Int
    BY TimerAssumption DEF TypeOK, Total
  <2>4. pc = "listen"
    BY <1>5 DEF Listen
  <2>5. pc' = "pselect" => until' = Total(timer'.ts)
    BY <2>1, <2>2, <2>3 DEF TypeOK
  <2> QED
    BY <2>1, <2>2, <2>3, <2>4, <2>5 DEF TypeOK, WaitsForDeadline, Deadlines
<1>6. CASE Return
  <2>1. /\ pc = "pselect" /\ timer.ts # Zero
    BY <1>6 DEF Return
  <2> DEFINE u == vrrp_timer_update(timer, now)
  <2>2. /\ u.timer \in [ts : Deadlines, delta : [sec : Int, nsec : 0..NANOUL]]
        /\ u.timer.ts = timer.ts
    BY ListenPost
  <2>3. /\ timer' = u.timer /\ now' = now /\ until' = until /\ pc' = "handle"
        /\ event' \in {"TIMER", "READY", "INVALID"}
    BY <1>6, <2>1, ReturnPost DEF Return
  <2> HIDE DEF u
  <2> QED
    BY <2>1, <2>2, <2>3 DEF TypeOK, WaitsForDeadline, Deadlines
<1>7. CASE Interrupt
  BY <1>7 DEF Interrupt, TypeOK, WaitsForDeadline
<1>8. CASE UNCHANGED vars
  BY <1>8 DEF vars, TypeOK, WaitsForDeadline
<1> QED
  BY <1>1, <1>2, <1>3, <1>4, <1>5, <1>6, <1>7, <1>8 DEF Next, Handle

\* The types of the timer, of the clock and of the events of vrrp_timer.c.
THEOREM TimerTypes == Spec => []TypeOK
<1>1. IInv => TypeOK
  BY DEF IInv
<1> QED
  BY <1>1, InitInv, NextInv, PTL DEF Spec

\* The limit handed to pselect ends at the deadline, in every state.
THEOREM DeadlineKept == Spec => [](TypeOK /\ WaitsForDeadline)
<1>1. IInv => TypeOK /\ WaitsForDeadline
  BY DEF IInv
<1> QED
  BY <1>1, InitInv, NextInv, PTL DEF Spec

\* A whole number of seconds leaves no remainder.
LEMMA WholeSeconds ==
  ASSUME NEW k \in Nat
  PROVE  (k * NANOUL) % NANOUL = 0
<1> DEFINE q == (k * NANOUL) \div NANOUL
           r == (k * NANOUL) % NANOUL
<1>1. k * NANOUL \in Nat
  BY TimerAssumption
<1>2. q \in Nat /\ r \in 0..(NANOUL - 1) /\ k * NANOUL = NANOUL * q + r
  BY <1>1, DivMod
<1> HIDE DEF q, r
<1>3. r = NANOUL * (k - q)
  BY <1>2, TimerAssumption
<1>4. k - q >= 1 => NANOUL * (k - q) >= NANOUL
  BY <1>2, TimerAssumption, SMT
<1>5. k - q <= -1 => NANOUL * (k - q) <= -NANOUL
  BY <1>2, TimerAssumption, SMT
<1>6. k - q = 0
  BY <1>2, <1>3, <1>4, <1>5, TimerAssumption
<1>7. r = 0
  BY <1>3, <1>6, TimerAssumption
<1> QED
  BY <1>7 DEF r

\* pselect refuses its limit only a whole number of seconds before the deadline.
THEOREM SpinsOnWholeSeconds == Spec => RefusedOnWholeSeconds
<1>1. IInv /\ [Next]_vars =>
        [event' = "INVALID" /\ pc = "listen" =>
           /\ Total(timer.ts) - now >= NANOUL
           /\ (Total(timer.ts) - now) % NANOUL = 0]_vars
  <2> SUFFICES ASSUME IInv, Next, event' = "INVALID", pc = "listen"
               PROVE  /\ Total(timer.ts) - now >= NANOUL
                      /\ (Total(timer.ts) - now) % NANOUL = 0
    BY DEF vars
  <2>0. CASE ~Listen
    BY <2>0 DEF IInv, Next, Tick, Handle, Set, Clear, Keep, Return, Interrupt
  <2>1. CASE Listen
    <3> DEFINE u == vrrp_timer_update(timer, now)
               k == u.timer.delta.sec + 1
    <3>1. /\ u.timer \in [ts : Deadlines, delta : [sec : Int, nsec : 0..NANOUL]]
          /\ Total(u.timer.delta) = Total(timer.ts) - now
          /\ u.expired <=> u.timer.delta.sec < 0
      BY ListenPost DEF IInv
    <3>2. ~u.expired /\ Refused(u.timer.delta)
      <4>1. event = "none"
        BY DEF IInv
      <4> QED
        BY <2>1, <4>1 DEF Listen
    <3> HIDE DEF u
    <3>3. u.timer.delta.nsec = NANOUL /\ k \in Nat \ {0}
      BY <3>1, <3>2, TimerAssumption DEF Refused
    <3>4. Total(u.timer.delta) = k * NANOUL
      BY <3>1, <3>3, TimerAssumption DEF Total
    <3> HIDE DEF k
    <3>5. k * NANOUL >= NANOUL
      BY <3>3, TimerAssumption, SMT
    <3> QED
      BY <3>1, <3>3, <3>4, <3>5, WholeSeconds
  <2> QED
    BY <2>0, <2>1
<1> QED
  BY <1>1, InitInv, NextInv, PTL DEF Spec, RefusedOnWholeSeconds

--------------------------------------------------------------------------------
(* The refinement. *)

\* Outside INIT the time left is counted from the deadline.
LEMMA LeftIs ==
  ASSUME TypeOK
  PROVE  /\ timer.ts # Zero => Left = Total(timer.ts) - now
         /\ timer.ts = Zero => Left = 0
         /\ Total(timer.ts) \in Int /\ now \in Int /\ Left \in Int
BY TimerAssumption DEF TypeOK, Left, vrrp_timer_is_running, Total

LEMMA StepIsCountdown ==
  ASSUME IInv, IInv', [Next]_vars
  PROVE  [Countdown!Next]_(<<vrrp_timer_is_running(timer), Left, event>>)
<1> DEFINE armed == vrrp_timer_is_running(timer)
<1>0. /\ TypeOK /\ TypeOK'
      /\ armed <=> timer.ts # Zero
      /\ armed' <=> timer'.ts # Zero
      /\ armed \in BOOLEAN /\ armed' \in BOOLEAN
  BY DEF IInv, vrrp_timer_is_running
<1>1. /\ timer.ts # Zero => Left = Total(timer.ts) - now
      /\ timer.ts = Zero => Left = 0
      /\ Total(timer.ts) \in Int /\ now \in Int /\ Left \in Int
  BY <1>0, LeftIs
<1>2. /\ timer'.ts # Zero => Left' = Total(timer'.ts) - now'
      /\ timer'.ts = Zero => Left' = 0
  BY <1>0, TimerAssumption DEF TypeOK, Left, vrrp_timer_is_running, Total
<1>3. pc = "init" <=> timer.ts = Zero
  BY DEF IInv
<1>4. CASE Tick
  <2>1. timer' = timer /\ event' = event /\ now' = now + 1 /\ armed' = armed
    BY <1>4 DEF Tick, vrrp_timer_is_running
  <2>2. CASE armed
    <3>1. Left' = Left - 1
      BY <2>1, <2>2, <1>0, <1>1, <1>2
    <3> QED
      BY <2>1, <2>2, <3>1 DEF Countdown!Next, Countdown!Pass
  <2>3. CASE ~armed
    BY <2>1, <2>3, <1>0, <1>1, <1>2
  <2> QED
    BY <2>2, <2>3
<1>5. ASSUME NEW d \in Delays, Set(d) PROVE Countdown!Next
  <2>1. now \in Nat \ {0}
    BY DEF IInv, TypeOK
  <2>2. /\ timer' = vrrp_timer_set(d, now) /\ now' = now /\ event' = "none"
    BY <1>5 DEF Set
  <2>3. Total(timer'.ts) = now + Duration(d) /\ timer'.ts # Zero
    BY <2>1, <2>2, SetPost
  <2>4. Duration(d) \in Int
    BY TimerAssumption DEF Duration
  <2>5. Left' = Duration(d) /\ armed' = TRUE
    BY <2>1, <2>2, <2>3, <2>4, <1>0, <1>2
  <2>6. Countdown!Arm(Duration(d))
    BY <2>2, <2>5 DEF Countdown!Arm
  <2> QED
    BY <2>6 DEF Countdown!Next
<1>6. CASE Clear
  <2>1. timer'.ts = Zero /\ event' = "none"
    BY <1>6 DEF Clear, vrrp_timer_clear
  <2> QED
    BY <2>1, <1>0, <1>2 DEF Countdown!Next, Countdown!Clear
<1>7. CASE Keep
  <2>1. timer' = timer /\ now' = now /\ event' = "none"
    BY <1>7 DEF Keep
  <2>2. Left' = Left /\ armed' = armed
    BY <2>1 DEF Left, vrrp_timer_is_running
  <2> QED
    BY <2>1, <2>2 DEF Countdown!Next, Countdown!Resume
\* what vrrp_listen reports, when the timer keeps its deadline
<1>r. ASSUME NEW e \in {"TIMER", "READY", "SIGNAL", "INVALID"}, event' = e,
             timer'.ts = timer.ts, now' = now, pc # "init",
             e = "TIMER" => Total(timer.ts) <= now,
             e = "READY" => Total(timer.ts) >= now
      PROVE  Countdown!Next
  <2>1. armed /\ armed' = armed /\ Left' = Left
    BY <1>r, <1>0, <1>1, <1>2, <1>3
  <2>2. /\ e = "TIMER" => Left <= 0
        /\ e = "READY" => Left >= 0
    BY <1>r, <1>1, <1>3
  <2>3. Countdown!Report(e)
    BY <2>1, <2>2, <1>r DEF Countdown!Report
  <2> QED
    BY <2>3 DEF Countdown!Next
<1>8. CASE Listen
  <2> DEFINE u == vrrp_timer_update(timer, now)
  <2>1. /\ u.timer.ts = timer.ts
        /\ u.expired \in BOOLEAN
        /\ u.expired => Total(timer.ts) <= now
    BY <1>0, ListenPost
  <2>2. /\ timer' = u.timer /\ now' = now /\ pc = "listen"
        /\ \/ event' = "TIMER" /\ u.expired
           \/ event' = "INVALID"
           \/ event' = event
    BY <1>8 DEF Listen
  <2> HIDE DEF u
  <2>3. CASE event' = event
    <3>1. armed' = armed /\ Left' = Left
      BY <2>1, <2>2, <1>0, <1>1, <1>2
    <3> QED
      BY <2>3, <3>1
  <2>4. CASE event' = "TIMER" /\ u.expired
    BY <2>1, <2>2, <2>4, <1>r
  <2>5. CASE event' = "INVALID"
    BY <2>1, <2>2, <2>5, <1>r
  <2> QED
    BY <2>2, <2>3, <2>4, <2>5, SMTT(40)
<1>9. CASE Return
  <2> DEFINE u == vrrp_timer_update(timer, now)
  <2>0. pc = "pselect" /\ timer.ts # Zero
    BY <1>9, <1>3, SMTT(40) DEF Return
  <2>1. /\ u.timer.ts = timer.ts
        /\ u.expired => Total(timer.ts) <= now
        /\ ~u.expired => Total(timer.ts) >= now
    BY <1>0, ListenPost
  <2>2. /\ timer' = u.timer /\ now' = now
        /\ \/ event' = "TIMER" /\ u.expired
           \/ event' \in {"READY", "INVALID"} /\ ~u.expired
    BY <1>9, <1>0, <2>0, ReturnPost DEF Return
  <2> HIDE DEF u
  <2>3. /\ event' \in {"TIMER", "READY", "SIGNAL", "INVALID"}
        /\ event' = "TIMER" => Total(timer.ts) <= now
        /\ event' = "READY" => Total(timer.ts) >= now
    BY <2>1, <2>2
  <2> QED
    BY <2>0, <2>1, <2>2, <2>3, <1>r
<1>10. CASE Interrupt
  <2>1. timer' = timer /\ now' = now /\ event' = "SIGNAL" /\ pc # "init"
    BY <1>10 DEF Interrupt
  <2> QED
    BY <2>1, <1>r
<1>11. CASE UNCHANGED vars
  BY <1>11 DEF vars, Left, vrrp_timer_is_running
<1> QED
  BY <1>4, <1>5, <1>6, <1>7, <1>8, <1>9, <1>10, <1>11 DEF Next, Handle

\* The timer of vrrp_timer.c implements the countdown VrrpState counts with.
THEOREM ImplementsCountdown == Spec => IsCountdown
<1>1. Init => Countdown!Init
  BY DEF Init, Countdown!Init, Left, vrrp_timer_is_running, vrrp_timer_clear
<1>2. IInv /\ IInv' /\ [Next]_vars =>
        [Countdown!Next]_(<<vrrp_timer_is_running(timer), Left, event>>)
  BY StepIsCountdown
<1> QED
  BY <1>1, <1>2, InitInv, NextInv, PTL DEF Spec, IsCountdown, Countdown!Spec

================================================================================
