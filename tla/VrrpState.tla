------------------------------- MODULE VrrpState -------------------------------
(***************************************************************************)
(* The VRRP state machine of vrrp_state.c, one operator per function, as   *)
(* functions from an instance to the instance it leaves behind.  VrrpDaemon *)
(* runs one instance inside its event loop, VrrpLan several on a network.  *)
(*                                                                         *)
(* An instance v holds the part of struct vrrp and struct vrrp_net that    *)
(* changes while the daemon runs:                                          *)
(*   state, priority, master_adv_int, adv_timer, masterdown_timer,         *)
(*   adv   the priority and checksum in the packet to emit, __adv[2]       *)
(*   out   what this iteration of the loop did to the outside: packets     *)
(*         sent, topology updates (ARP or NA), hook script calls, in order *)
(*                                                                         *)
(* A timer is the time left before it expires, in the unit of the protocol *)
(* version (seconds in VRRPv2, centiseconds in VRRPv3), or Cleared.        *)
(***************************************************************************)
EXTENDS VrrpNet

States == {"INIT", "BACKUP", "MASTER"}
Cleared == -1
Timers == Nat \cup {Cleared}
Priorities == 0..255

\* The configurations vrrp_options accepts, as far as the types go.
Configs ==
  [version : {RFC3768, RFC5798}, vrid : 0..255, adv_int : 1..ADVINT_MAX,
   start_delay : 0..ADVINT_MAX, preempt : BOOLEAN, auth_type : {NOAUTH, SIMPLE},
   auth_data : Seq(Chars), family : {4, 6}, addr : Nat, vips : Seq(Nat),
   mtu : Nat]

\* What the bytes of a packet can hold.
PacketOK(p) == p.priority \in Priorities /\ p.hi \in 0..255 /\ p.lo \in 0..255

Adv(adv) == [ev |-> "adv", adv |-> adv]
Topology == [ev |-> "topology"]
Hook(arg) == [ev |-> "hook", arg |-> arg]

Buffers == [priority : Priorities,
            chksum : [priority : Priorities, sizes : SUBSET Nat]]

Effects ==
  [ev : {"adv"}, adv : Buffers] \cup [ev : {"topology"}]
    \cup [ev : {"hook"}, arg : {"init", "master", "backup"}]

Instances ==
  [state : States, priority : Priorities, master_adv_int : Nat,
   adv_timer : Timers, masterdown_timer : Timers, adv : Buffers,
   out : Seq(Effects)]

Emit(v, e) == [v EXCEPT !.out = Append(@, e)]

\* The calls of the hook script in a log, in order.
Calls(log) ==
  LET upto[n \in 0..Len(log)] ==
        IF n = 0 THEN <<>>
        ELSE IF log[n].ev = "hook" THEN Append(upto[n - 1], log[n].arg)
        ELSE upto[n - 1]
  IN  upto[Len(log)]

--------------------------------------------------------------------------------
(* vrrp_timer.h: the delays.  SKEW_TIME is an integer division. *)

vrrp_timer_is_running(t) == t # Cleared
vrrp_timer_is_expired(t) == t = 0

SKEW_TIME(c, v) ==
  ((256 - v.priority) * (IF c.version = RFC5798 THEN v.master_adv_int ELSE 1))
    \div 256

MASTERDOWN_INT(c, v) == 3 * v.master_adv_int + SKEW_TIME(c, v)

VRRP_SET_ADV_TIMER(c, v) ==
  [v EXCEPT !.adv_timer =
     IF c.version = RFC5798 THEN v.master_adv_int ELSE c.adv_int]

\* mutant: one interval too many
set_masterdown_late(c, v) ==
  [v EXCEPT !.masterdown_timer = MASTERDOWN_INT(c, v) + v.master_adv_int]

VRRP_SET_MASTERDOWN_TIMER(c, v) ==
  [v EXCEPT !.masterdown_timer = MASTERDOWN_INT(c, v)]

VRRP_SET_SKEW_TIME(c, v) == [v EXCEPT !.masterdown_timer = SKEW_TIME(c, v)]

VRRP_SET_STARTDELAY_TIMER(c, v) == [v EXCEPT !.masterdown_timer = c.start_delay]

\* The timer vrrp_listen waits for.
CurrentTimer(v) ==
  IF vrrp_timer_is_running(v.adv_timer) THEN v.adv_timer ELSE v.masterdown_timer

\* One unit of time passes for an instance.
Elapse(v) ==
  LET Less(t) == IF t > 0 THEN t - 1 ELSE t
  IN  [v EXCEPT !.adv_timer = Less(@), !.masterdown_timer = Less(@)]

--------------------------------------------------------------------------------
(* vrrp_adv.c, vrrp_adv.h: the packet to emit. *)

vrrp_adv_send(v) == Emit(v, Adv(v.adv))

\* mutant: the checksum is not set back
send_zero_keeps_chksum(c, v) ==
  LET zero == [v EXCEPT !.adv = [priority |-> 0, chksum |-> adv_checksum(c, 0)]]
  IN  [vrrp_adv_send(zero) EXCEPT !.adv.priority = v.adv.priority]

\* The buffer is set to priority 0, sent, and set back.
vrrp_adv_send_zero(c, v) ==
  LET zero == [v EXCEPT !.adv = [priority |-> 0, chksum |-> adv_checksum(c, 0)]]
  IN  [vrrp_adv_send(zero) EXCEPT !.adv = [priority |-> v.adv.priority,
                                           chksum   |-> v.adv.chksum]]

vrrp_adv_set_priority(c, v, prio) ==
  [v EXCEPT !.adv = [priority |-> prio, chksum |-> adv_checksum(c, prio)]]

\* vrrp_init and vrrp_adv_init, after the options set the priority
NewInstance(c, prio) ==
  [state |-> "INIT", priority |-> prio, master_adv_int |-> 0,
   adv_timer |-> Cleared, masterdown_timer |-> Cleared,
   adv |-> [priority |-> prio, chksum |-> adv_checksum(c, prio)], out |-> <<>>]

--------------------------------------------------------------------------------
(* vrrp_state.c *)

vrrp_state_goto_master(c, v) ==
  LET sent == Emit(Emit(vrrp_adv_send([v EXCEPT !.state = "MASTER"]), Topology),
                   Hook("master"))
  IN  VRRP_SET_ADV_TIMER(c, [sent EXCEPT !.masterdown_timer = Cleared])

\* advint is the interval in the last valid packet received
vrrp_state_goto_backup(c, v, advint) ==
  LET fromInit == v.state = "INIT"
      hooked   == IF fromInit THEN v ELSE Emit(v, Hook("backup"))
      backup   == [hooked EXCEPT
                     !.state = "BACKUP",
                     !.adv_timer = Cleared,
                     !.master_adv_int = IF c.version # RFC5798 THEN @
                                        ELSE IF fromInit THEN c.adv_int
                                        ELSE advint]
  IN  IF fromInit /\ c.start_delay # 0
      THEN VRRP_SET_STARTDELAY_TIMER(c, backup)
      ELSE VRRP_SET_MASTERDOWN_TIMER(c, backup)

\* mutant: the owner waits like the others
state_init_owner_waits(c, v) ==
  vrrp_state_goto_backup(c,
    [Emit(v, Hook("init")) EXCEPT !.master_adv_int = c.adv_int], c.adv_int)

vrrp_state_init(c, v) ==
  LET w == [Emit(v, Hook("init")) EXCEPT !.master_adv_int = c.adv_int]
  IN  IF w.priority = PRIO_OWNER THEN vrrp_state_goto_master(c, w)
      ELSE vrrp_state_goto_backup(c, w, c.adv_int)

BackupTimer(c, v) == vrrp_state_goto_master(c, v)

\* mutant: the preempt flag is not looked at
backup_pkt_always_preempts(c, v, p) ==
  IF p.priority = 0 THEN VRRP_SET_SKEW_TIME(c, v)
  ELSE IF p.priority >= v.priority THEN VRRP_SET_MASTERDOWN_TIMER(c, v)
  ELSE v

\* mutant: the priority is not looked at
backup_pkt_never_preempts(c, v, p) ==
  IF p.priority = 0 THEN VRRP_SET_SKEW_TIME(c, v)
  ELSE VRRP_SET_MASTERDOWN_TIMER(c, v)

\* mutant: the timer is not armed again
backup_pkt_no_rearm(c, v, p) ==
  IF p.priority = 0 THEN VRRP_SET_SKEW_TIME(c, v) ELSE v

BackupPkt(c, v, p) ==
  IF p.priority = 0 THEN VRRP_SET_SKEW_TIME(c, v)
  ELSE IF ~c.preempt \/ p.priority >= v.priority
  THEN VRRP_SET_MASTERDOWN_TIMER(c,
         IF c.version = RFC5798
         THEN [v EXCEPT !.master_adv_int = vrrp_adv_get_advint(p)] ELSE v)
  ELSE v

\* mutant: the timer is not cleared
backup_reload_keeps_timer(v) == [v EXCEPT !.state = "INIT"]

BackupReload(v) == [v EXCEPT !.masterdown_timer = Cleared, !.state = "INIT"]

\* mutant: the router takes over again with every advertisement
master_timer_takes_over(c, v) == vrrp_state_goto_master(c, v)

MasterTimer(c, v) == VRRP_SET_ADV_TIMER(c, vrrp_adv_send(v))

\* mutant: equal priorities are not told apart
master_pkt_ignores_ties(c, v, p) ==
  IF p.priority = 0 THEN VRRP_SET_ADV_TIMER(c, vrrp_adv_send(v))
  ELSE IF p.priority > v.priority
  THEN vrrp_state_goto_backup(c, v, vrrp_adv_get_advint(p))
  ELSE v

MasterPkt(c, v, p) ==
  IF p.priority = 0 THEN VRRP_SET_ADV_TIMER(c, vrrp_adv_send(v))
  ELSE IF \/ p.priority > v.priority
          \/ p.priority = v.priority /\ vrrp_adv_addr_cmp(c, p) > 0
  THEN vrrp_state_goto_backup(c, v, vrrp_adv_get_advint(p))
  ELSE v

\* mutant: the hook is forgotten
master_reload_no_hook(c, v) ==
  [vrrp_adv_send_zero(c, [v EXCEPT !.adv_timer = Cleared]) EXCEPT !.state = "INIT"]

\* mutant: the hook is called first
master_reload_hook_first(c, v) ==
  [vrrp_adv_send_zero(c, Emit([v EXCEPT !.adv_timer = Cleared], Hook("backup")))
     EXCEPT !.state = "INIT"]

MasterReload(c, v) ==
  [Emit(vrrp_adv_send_zero(c, [v EXCEPT !.adv_timer = Cleared]), Hook("backup"))
     EXCEPT !.state = "INIT"]

\* The two handlers dispatch the same way on the event of vrrp_listen.
OnTimer(c, v) ==
  IF v.state = "BACKUP" THEN BackupTimer(c, v) ELSE MasterTimer(c, v)

\* VRID_MISMATCH and INVALID leave the instance alone in both states
OnPkt(c, v, p) ==
  IF vrrp_net_recv(c, v.priority, p) # "PKT" THEN v
  ELSE IF v.state = "BACKUP" THEN BackupPkt(c, v, p)
  ELSE MasterPkt(c, v, p)

OnReload(c, v) ==
  IF v.state = "BACKUP" THEN BackupReload(v) ELSE MasterReload(c, v)

================================================================================
