-------------------------------- MODULE VrrpLan --------------------------------
(***************************************************************************)
(* Several uvrrpd instances of one virtual router on a network segment:    *)
(* each runs the state machine of VrrpState, and the advertisements one    *)
(* sends reach the sockets of the others in order, or are lost.            *)
(*                                                                         *)
(* Time advances in the unit of the protocol version, which is long        *)
(* compared with a transmission and an iteration of the loop: it passes    *)
(* only when no daemon has anything left to do.  Within a unit the daemons *)
(* take their steps in any order.                                          *)
(***************************************************************************)
EXTENDS VrrpState

CONSTANTS
  Routers,
  Config,        \* the configuration of each router
  Priority,      \* the priority of each router (option -p)
  MaxLoss,       \* bound: receptions that may be lost
  MaxFaults      \* bound: crashes, stops and reloads

ASSUME RoutersAssumption ==
  /\ IsFiniteSet(Routers)
  /\ Config \in [Routers -> Configs]
  /\ Priority \in [Routers -> Priorities]

ASSUME BoundsAssumption == MaxLoss \in Nat /\ MaxFaults \in Nat

VARIABLES
  inst,          \* the instance of each router
  up,            \* the routers whose daemon runs
  sock,          \* packets waiting in the socket of each router
  lost,          \* receptions lost so far
  faults,        \* crashes, stops and reloads so far
  dual,          \* units of time passed since there is more than one master
  orphan,        \* units passed with no master and no router started or failed
  reign          \* the routers that were the only master when a unit passed,
                 \* as long as they stay so

vars == <<inst, up, sock, lost, faults, dual, orphan, reign>>

Masters == {i \in up : inst[i].state = "MASTER"}

Init ==
  /\ inst = [i \in Routers |-> NewInstance(Config[i], Priority[i])]
  /\ up = {}
  /\ sock = [i \in Routers |-> <<>>]
  /\ lost = 0 /\ faults = 0
  /\ dual = 0 /\ orphan = 0 /\ reign = {}

--------------------------------------------------------------------------------
(* History: how long two masters, or none, have lasted.  d is the time the step *)
(* takes; the time without a master is counted from the last router that        *)
(* started, reloaded, stopped or crashed.                                       *)

Watch(d, disturbed) ==
  /\ dual' = IF Cardinality(Masters') > 1 THEN dual + d ELSE 0
  /\ orphan' = IF Masters' = {} /\ ~disturbed THEN orphan + d ELSE 0
  /\ reign' = IF Cardinality(Masters') = 1 /\ (d > 0 \/ reign = Masters')
              THEN Masters' ELSE {}

\* The packets of an iteration that ends as w; it sends one at most.
Sent(c, w) ==
  LET advs == {n \in 1..Len(w.out) : w.out[n].ev = "adv"}
  IN  IF advs = {} THEN <<>>
      ELSE <<vrrp_adv_build(c, w.out[CHOOSE n \in advs : TRUE].adv)>>

\* Router i, whose socket held queue after the iteration, ends it as w.  What it
\* sent reaches every router that runs, except the ones that lose it.
Step(i, w, queue) ==
  \E deaf \in SUBSET (up \ {i}) :
    /\ Sent(Config[i], w) = <<>> => deaf = {}
    /\ lost + Cardinality(deaf) <= MaxLoss
    /\ lost' = lost + Cardinality(deaf)
    /\ inst' = [inst EXCEPT ![i] = [w EXCEPT !.out = <<>>]]
    /\ sock' = [j \in Routers |->
                  IF j = i THEN queue
                  ELSE IF j \in up \ deaf THEN sock[j] \o Sent(Config[i], w)
                  ELSE sock[j]]

Expired(i) == vrrp_timer_is_expired(CurrentTimer(inst[i]))

StateInit(i) ==
  /\ i \in up /\ inst[i].state = "INIT"
  /\ Step(i, vrrp_state_init(Config[i], inst[i]), sock[i])
  /\ UNCHANGED <<up, faults>>
  /\ Watch(0, FALSE)

Timer(i) ==
  /\ i \in up /\ inst[i].state # "INIT" /\ Expired(i)
  /\ Step(i, OnTimer(Config[i], inst[i]), sock[i])
  /\ UNCHANGED <<up, faults>>
  /\ Watch(0, FALSE)

Recv(i) ==
  /\ i \in up /\ inst[i].state # "INIT" /\ ~Expired(i) /\ sock[i] # <<>>
  /\ Step(i, OnPkt(Config[i], inst[i], Head(sock[i])), Tail(sock[i]))
  /\ UNCHANGED <<up, faults>>
  /\ Watch(0, FALSE)

--------------------------------------------------------------------------------
(* Faults.  All the daemons may be started; a reload or a stop comes from a      *)
(* signal or the fifo, which the daemon sees once its socket is empty.           *)

Start(i) ==
  /\ i \notin up
  /\ up' = up \cup {i}
  /\ inst' = [inst EXCEPT ![i] = NewInstance(Config[i], Priority[i])]
  /\ UNCHANGED <<sock, lost, faults>>
  /\ Watch(0, TRUE)

Reload(i) ==
  /\ i \in up /\ inst[i].state # "INIT" /\ ~Expired(i) /\ sock[i] = <<>>
  /\ faults < MaxFaults /\ faults' = faults + 1
  /\ Step(i, OnReload(Config[i], inst[i]), sock[i])
  /\ UNCHANGED up
  /\ Watch(0, TRUE)

Stop(i) ==
  /\ i \in up /\ inst[i].state # "INIT" /\ ~Expired(i) /\ sock[i] = <<>>
  /\ faults < MaxFaults /\ faults' = faults + 1
  /\ Step(i, OnReload(Config[i], inst[i]), sock[i])
  /\ up' = up \ {i}
  /\ Watch(0, TRUE)

Crash(i) ==
  /\ i \in up
  /\ faults < MaxFaults /\ faults' = faults + 1
  /\ up' = up \ {i}
  /\ inst' = [inst EXCEPT ![i] = NewInstance(Config[i], Priority[i])]
  /\ sock' = [sock EXCEPT ![i] = <<>>]
  /\ UNCHANGED lost
  /\ Watch(0, TRUE)

\* The daemons that run have nothing to do.
Idle == \A i \in up : inst[i].state # "INIT" /\ ~Expired(i) /\ sock[i] = <<>>

Tick ==
  /\ up # {} /\ Idle
  /\ inst' = [i \in Routers |-> IF i \in up THEN Elapse(inst[i]) ELSE inst[i]]
  /\ UNCHANGED <<up, sock, lost, faults>>
  /\ Watch(1, FALSE)

Loop(i) == StateInit(i) \/ Timer(i) \/ Recv(i)

Next ==
  \/ \E i \in Routers : Loop(i)
  \/ \E i \in Routers : Start(i) \/ Reload(i) \/ Stop(i) \/ Crash(i)
  \/ Tick

Spec == Init /\ [][Next]_vars

\* Every daemon that has something to do does it, and time passes.
FairSpec == Spec /\ WF_vars(Tick) /\ \A i \in Routers : WF_vars(Loop(i))

--------------------------------------------------------------------------------
(* Properties. *)

\* The longest a backup waits before it takes over.
Patience(i) ==
  LET down == MASTERDOWN_INT(Config[i], inst[i])
  IN  IF Config[i].start_delay > down THEN Config[i].start_delay ELSE down

\* The addresses are never without a master for longer than the least patient
\* router that runs waits, whatever was lost and whoever crashed: no sequence of
\* priority 0 packets, late packets and re-armed timers keeps a backup from
\* noticing.
OutageBounded == \A i \in up : orphan <= Patience(i)

\* Two masters at the end of a unit of time are always the work of a lost
\* packet, and each loss prolongs them by one advertisement interval at most.
\* The collisions of an election without loss are settled at once.
SplitBrainHeals == \A i \in up : dual <= lost * Config[i].adv_int

\* Some router that runs is entitled to take over from i.
Preemptible(i) ==
  \E j \in up : Config[j].preempt /\ inst[j].priority > inst[i].priority

\* As long as nothing is lost, a master that is alone keeps its place until it
\* resigns, crashes or a router that may preempt it runs: a router that starts,
\* with preemption off or a priority that is not higher, does not disturb it.
StableReign ==
  [][\A i \in reign :
       \/ reign' = {i}
       \/ lost' > 0 \/ Preemptible(i)
       \/ i \notin up' \/ inst'[i].state = "INIT"]_vars

\* Faults and losses being finite, there is in the end exactly one master, as
\* soon as a router runs.
Converges == <>[](up # {} => Cardinality(Masters) = 1)

\* And it is one from which no router that runs is entitled to take over: the
\* better router that preempts gets its place in the end.
BestWins == <>[](\A i \in Masters : ~Preemptible(i))

================================================================================
