------------------------------ MODULE VrrpDaemon ------------------------------
(***************************************************************************)
(* One running uvrrpd: the loop of main (uvrrpd.c), vrrp_process and       *)
(* vrrp_listen (vrrp.c), the signals, the control fifo and the hook, around *)
(* the state machine of VrrpState.                                         *)
(*                                                                         *)
(* Every action of the daemon is one iteration of the loop.  Packets,      *)
(* commands, signals and time come from the environment at any moment, so  *)
(* they queue up while the daemon is busy (in its hook script, for one).   *)
(***************************************************************************)
EXTENDS VrrpCtrl

CONSTANTS
  Config,        \* the configuration of the daemon
  Priority,      \* its initial priority (option -p)
  Packets,       \* the packets that may arrive
  Commands,      \* the commands that may be written to the fifo
  Signals,       \* the signals that may be sent
  MaxSock,       \* bound: packets waiting in the socket
  MaxFifo        \* bound: words waiting in the fifo

VARIABLES
  v,             \* the instance
  reg,           \* the control register, a set of bits
  sock,          \* packets received by the kernel and not yet read
  fifo,          \* words in the control fifo
  unread,        \* whether there is anything in it, be it an empty line
  flushed,       \* whether ctrl->cmd has been cleared once
  pending,       \* signals sent and not yet delivered
  calls,         \* the calls of the hook script in the last iteration with any
  turn,          \* flipped by every iteration that calls the script
  pc             \* "loop", "stopped" (left the loop) or "crashed"

vars == <<v, reg, sock, fifo, unread, flushed, pending, calls, turn, pc>>

AllSignals == {"HUP", "INT", "TERM", "QUIT", "USR1", "USR2", "PIPE"}

Words == [k : STRING, n : Nat]

ASSUME ConfigAssumption ==
  /\ Config \in Configs
  /\ Priority \in Priorities

ASSUME EnvironmentAssumption ==
  /\ \A p \in Packets : PacketOK(p)
  /\ Commands \subseteq Seq(Words)
  /\ Signals \subseteq AllSignals
  /\ MaxSock \in Nat /\ MaxFifo \in Nat

Init ==
  /\ v = NewInstance(Config, Priority)
  /\ reg = {"KEEP_GOING"}
  /\ sock = <<>> /\ fifo = <<>> /\ unread = FALSE /\ flushed = FALSE
  /\ pending = {}
  /\ calls = <<>> /\ turn = FALSE
  /\ pc = "loop"

--------------------------------------------------------------------------------
(* The environment. *)

\* what an iteration put out is not seen by the steps after the next one
Quiet == [v EXCEPT !.out = <<>>]

Tick ==
  /\ pc = "loop"
  /\ v.adv_timer > 0 \/ v.masterdown_timer > 0
  /\ v' = Elapse(Quiet)
  /\ UNCHANGED <<reg, sock, fifo, unread, flushed, pending, calls, turn, pc>>

Arrive(p) ==
  /\ pc = "loop" /\ Len(sock) < MaxSock
  /\ sock' = Append(sock, p)
  /\ v' = Quiet
  /\ UNCHANGED <<reg, fifo, unread, flushed, pending, calls, turn, pc>>

Write(cmd) ==
  /\ pc = "loop" /\ Len(fifo) + Len(cmd) <= MaxFifo
  /\ fifo' = fifo \o cmd
  /\ unread' = TRUE
  /\ v' = Quiet
  /\ UNCHANGED <<reg, sock, flushed, pending, calls, turn, pc>>

Kill(s) ==
  /\ pc = "loop" /\ s \notin pending
  /\ pending' = pending \cup {s}
  /\ v' = Quiet
  /\ UNCHANGED <<reg, sock, fifo, unread, flushed, calls, turn, pc>>

--------------------------------------------------------------------------------
(* The daemon. *)

\* mutant: the loop is not told to end
signal_handler_keeps_going(r, S) ==
  r \cup (IF S \cap {"HUP", "INT", "TERM", "QUIT"} # {} THEN {"RELOAD"} ELSE {})

signal_handler(r, S) ==
  LET exit == S \cap {"INT", "TERM", "QUIT"} # {}
  IN  (IF exit THEN r \ {"KEEP_GOING"} ELSE r)
        \cup (IF exit \/ "HUP" \in S THEN {"RELOAD"} ELSE {})
        \cup (IF S \cap {"USR1", "USR2"} # {} THEN {"DUMP"} ELSE {})
        \cup (IF "PIPE" \in S THEN {"LOGOUT"} ELSE {})

\* The last call of the hook script.
hook == IF calls = <<>> THEN "none" ELSE calls[Len(calls)]

\* vrrp_exec sets SIGINT and SIGQUIT to SIG_IGN while the script runs, which
\* discards the ones that are pending
AfterExec(w, S) ==
  IF Calls(w.out) # <<>> THEN S \ {"INT", "QUIT"} ELSE S

\* The end of an iteration: vrrp_process takes the DUMP bit, the loop of main
\* tests KEEP_GOING.  w, r and S are the instance, the register and the
\* pending signals the handler leaves.
Finish(w, r, S) ==
  /\ v' = w
  /\ reg' = r \ {"DUMP"}
  /\ pending' = AfterExec(w, S)
  /\ IF Calls(w.out) # <<>> THEN calls' = Calls(w.out) /\ turn' = ~turn
     ELSE UNCHANGED <<calls, turn>>
  /\ pc' = IF "KEEP_GOING" \in r THEN "loop" ELSE "stopped"

\* mutant: test_bit without the clear
Reload_keeps_bit(w, r, S) ==
  IF "RELOAD" \in r THEN Finish(OnReload(Config, w), r, S) ELSE Finish(w, r, S)

\* SIGNAL and CTRL_FIFO, in both states: test_and_clear_bit(UVRRPD_RELOAD)
Reload(w, r, S) ==
  IF "RELOAD" \in r THEN Finish(OnReload(Config, w), r \ {"RELOAD"}, S)
  ELSE Finish(w, r, S)

StateInit ==
  /\ pc = "loop" /\ v.state = "INIT"
  /\ Finish(vrrp_state_init(Config, Quiet), reg, pending)
  /\ UNCHANGED <<sock, fifo, unread, flushed>>

\* vrrp_listen is called: state BACKUP or MASTER
Listening == pc = "loop" /\ v.state # "INIT"

\* An expired timer comes before everything else, before and after pselect.
Timer ==
  /\ Listening
  /\ vrrp_timer_is_expired(CurrentTimer(v))
  /\ Finish(OnTimer(Config, Quiet), reg, pending)
  /\ UNCHANGED <<sock, fifo, unread, flushed>>

Waiting == Listening /\ ~vrrp_timer_is_expired(CurrentTimer(v))

Recv ==
  /\ Waiting /\ sock # <<>>
  /\ Finish(OnPkt(Config, Quiet, Head(sock)), reg, pending)
  /\ sock' = Tail(sock)
  /\ UNCHANGED <<fifo, unread, flushed>>

\* One read takes the first words; flush_fifo throws the others away.
CtrlRead ==
  /\ Waiting /\ sock = <<>> /\ unread
  /\ fifo' = <<>> /\ unread' = FALSE
  /\ \E nword \in split_cmd(fifo, flushed) :
       LET o == vrrp_ctrl_cmd(Config, Quiet, reg, fifo, nword)
       IN  /\ flushed' = (flushed \/ nword # 0)
           /\ IF o.ev = "CTRL_FIFO" THEN Reload(o.v, o.reg, pending)
              ELSE Finish(o.v, o.reg, pending)
  /\ UNCHANGED sock

\* A wild pointer may also point outside the address space.
CtrlCrash ==
  /\ Waiting /\ sock = <<>> /\ unread
  /\ \E nword \in split_cmd(fifo, flushed) : Wild(fifo, nword)
  /\ fifo' = <<>> /\ unread' = FALSE
  /\ v' = Quiet
  /\ pc' = "crashed"
  /\ UNCHANGED <<reg, sock, flushed, pending, calls, turn>>

\* Signals are only unblocked inside pselect; it delivers all the pending ones.
\* When a descriptor is ready at the same time, either may be reported.
Signal ==
  /\ Waiting /\ pending # {}
  /\ Reload(Quiet, signal_handler(reg, pending), {})
  /\ UNCHANGED <<sock, fifo, unread, flushed>>

Done == pc # "loop" /\ UNCHANGED vars

Daemon == StateInit \/ Timer \/ Recv \/ CtrlRead \/ CtrlCrash \/ Signal

Next ==
  \/ Daemon
  \/ Tick
  \/ \E p \in Packets : Arrive(p)
  \/ \E cmd \in Commands : Write(cmd)
  \/ \E s \in Signals : Kill(s)
  \/ Done

Spec == Init /\ [][Next]_vars

\* The daemon is a real-time process (SCHED_RR) whose loop never stops on its
\* own: it keeps iterating, and it is not late for every one of its timers, so
\* that pselect gets to report the fifo and, when no descriptor is ready, to
\* deliver the signals.
Fairness ==
  /\ WF_vars(Tick)
  /\ WF_vars(Daemon)
  /\ SF_vars(Signal /\ sock = <<>> /\ ~unread)
  /\ SF_vars(CtrlRead \/ CtrlCrash)

FairSpec == Spec /\ Fairness

--------------------------------------------------------------------------------
(* Properties. *)

\* The types of the daemon's state.
TypeOK ==
  /\ v \in Instances
  /\ reg \subseteq RegBits
  /\ sock \in Seq(Packets)
  /\ fifo \in Seq(Words)
  /\ unread \in BOOLEAN /\ flushed \in BOOLEAN
  /\ pending \subseteq AllSignals
  /\ calls \in Seq({"init", "master", "backup"}) /\ turn \in BOOLEAN
  /\ pc \in {"loop", "stopped", "crashed"}

\* Between two iterations a master runs adv_timer and only it, a backup runs
\* masterdown_timer and only it, and no timer survives a return to INIT.
\* vrrp_listen picks the timer by looking at which one runs, not at the state,
\* and exits with "no timer running !" when there is none.
TimerDiscipline ==
  /\ vrrp_timer_is_running(v.adv_timer) <=> v.state = "MASTER"
  /\ vrrp_timer_is_running(v.masterdown_timer) <=> v.state = "BACKUP"

\* The packet buffer always announces the current priority under a checksum
\* that verifies, whatever sequence of prio commands and resignations went
\* before; and so does every packet sent, which announces that priority or 0.
AdvertisementIsCurrent ==
  LET Good(adv, prio) == adv = [priority |-> prio,
                                chksum |-> adv_checksum(Config, prio)]
  IN  /\ Good(v.adv, v.priority)
      /\ \A i \in 1..Len(v.out) : v.out[i].ev = "adv" =>
           \E prio \in {0, v.priority} : Good(v.out[i].adv, prio)

\* The interface with the virtual addresses is up exactly while the instance is
\* master: the last call of the script is "master" then, and no path out of MASTER
\* (a better router, a reload, a new priority, a stop) forgets to call it again.
VipsFollowMaster == hook = "master" <=> v.state = "MASTER"

\* The owner of the addresses is never a backup: a priority of 255 that arrives
\* through the fifo takes effect through INIT, not on a running backup.
OwnerIsMaster == v.priority = PRIO_OWNER => v.state # "BACKUP"

\* No request is left over between iterations (test_and_clear_bit on every path
\* that sets RELOAD or DUMP), and the daemon leaves its loop only from INIT,
\* with its interface released and its timers cleared, never from MASTER.
StopIsClean ==
  /\ reg \cap {"RELOAD", "DUMP"} = {}
  /\ "KEEP_GOING" \in reg <=> pc # "stopped"
  /\ pc = "stopped" => v.state = "INIT" /\ hook # "master"

\* A master that gives up because it was told to announces it (priority 0)
\* before its hook removes the addresses.
ResignationIsAnnounced ==
  [][v.state = "MASTER" /\ v'.state = "INIT" =>
       \E i, j \in 1..Len(v'.out) :
         i < j /\ v'.out[i].ev = "adv" /\ v'.out[i].adv.priority = 0
               /\ v'.out[j] = Hook("backup")]_vars

\* The calls of the hook script, all of them and in the order of the code, are
\* the ones VrrpSwitch promises: the interface is not created twice, not deleted
\* without having been created, and not left behind when the daemon starts over.
Switch == INSTANCE VrrpSwitch
HookProtocol == Switch!Spec

\* SIGTERM stops the daemon, whatever it was doing when the signal came, provided
\* packets and commands do not keep pselect from ever waiting (a signal is only
\* certain to be delivered when no descriptor is ready).
TermStops ==
  []<>(pc = "loop" => Waiting /\ sock = <<>> /\ ~unread) =>
    (("TERM" \in pending) ~> (pc # "loop"))

\* A stop at the head of the fifo stops the daemon, provided packets do not keep
\* it from ever looking at the fifo (the socket is always read first).
StopCommandStops ==
  []<>(pc = "loop" => Waiting /\ sock = <<>>) =>
    ((fifo # <<>> /\ Head(fifo).k = "stop") ~> (pc # "loop"))

\* A stop written to the fifo stops the daemon, wherever the commands written
\* before it and not yet read leave it (README.md: "stop (exit)").
EveryStopStops ==
  []<>(pc = "loop" => Waiting /\ sock = <<>>) =>
    ((\E n \in 1..Len(fifo) : fifo[n].k = "stop") ~> (pc # "loop"))

================================================================================
