------------------------------ MODULE VrrpOptions ------------------------------
(***************************************************************************)
(* The command line (vrrp_options.c) up to the point where main enters its *)
(* loop: what configuration the daemon runs with.  Each option is one step *)
(* of the getopt_long loop; they come in any order, and may be repeated.   *)
(*                                                                         *)
(* The argument of an option that takes a number is [n, tail]: the value   *)
(* strtoull finds and whether something follows it.  The options that only *)
(* name files or switch logging (-f -s -F -C -d) are left out.             *)
(***************************************************************************)
EXTENDS VrrpState

CONSTANTS
  Vrids, Prios, Delays, Rfcs,  \* numbers given to -v, -p, -t and -T, -r
  Passwords,                   \* words given to -a
  VipCounts,                   \* numbers of addresses given
  MaxOptions                   \* bound: options given

Numbers == [n : Nat, tail : BOOLEAN]

ASSUME OptionsAssumption ==
  /\ Vrids \subseteq Numbers /\ Prios \subseteq Numbers
  /\ Delays \subseteq Numbers /\ Rfcs \subseteq Numbers
  /\ Passwords \subseteq Seq(Chars) /\ VipCounts \subseteq Nat /\ MaxOptions \in Nat

VRID_MAX == 255
VRRP_AUTH_PASS_LEN == 8

VARIABLES
  cfg,       \* what the options set of struct vrrp and struct vrrp_net
  prio,      \* vrrp->priority
  ifname,    \* whether an interface was given
  given,     \* options seen
  pc         \* "options", "checked" (vrrp_options returned 0), "running", "exit"

vars == <<cfg, prio, ifname, given, pc>>

\* vrrp_init and vrrp_net_init
Init ==
  /\ cfg = [version |-> RFC3768, vrid |-> 0, adv_int |-> 0, start_delay |-> 0,
            preempt |-> TRUE, auth_type |-> NOAUTH, auth_data |-> <<>>,
            family |-> 4, addr |-> 0, vips |-> <<>>, mtu |-> 0]
  /\ prio = 100
  /\ ifname = FALSE
  /\ given = 0
  /\ pc = "options"

\* The range is checked before what follows the number.
mystrtoul(w, max) ==
  IF w.n > max THEN "ERANGE" ELSE IF w.tail THEN "EINVAL" ELSE "ok"

Option ==
  /\ pc = "options" /\ given < MaxOptions
  /\ given' = given + 1

Set(c) == cfg' = c /\ UNCHANGED <<prio, ifname, pc>>
Fail == pc' = "exit" /\ UNCHANGED <<cfg, prio, ifname>>

\* A vrid of 0 is refused with the value mystrtoul returned, which is 0: main
\* goes on with what the options before it set.
OptVrid(w) ==
  /\ Option
  /\ CASE mystrtoul(w, VRID_MAX) # "ok" -> Fail
       [] w.n = 0 /\ mystrtoul(w, VRID_MAX) = "ok" ->
            pc' = "checked" /\ UNCHANGED <<cfg, prio, ifname>>
       [] OTHER -> Set([cfg EXCEPT !.vrid = w.n])

OptInterface ==
  Option /\ ifname' = TRUE /\ UNCHANGED <<cfg, prio, pc>>

OptPriority(w) ==
  /\ Option
  /\ IF mystrtoul(w, PRIO_OWNER) # "ok" THEN Fail
     ELSE prio' = w.n /\ UNCHANGED <<cfg, ifname, pc>>

OptTime(w) ==
  /\ Option
  /\ IF mystrtoul(w, ADVINT_MAX) # "ok" THEN Fail
     ELSE Set([cfg EXCEPT !.adv_int = w.n])

OptStartDelay(w) ==
  /\ Option
  /\ IF mystrtoul(w, ADVINT_MAX) # "ok" THEN Fail
     ELSE Set([cfg EXCEPT !.start_delay = w.n])

OptPreempt(word) ==
  /\ Option
  /\ IF word \in {"on", "off"} THEN Set([cfg EXCEPT !.preempt = (word = "on")])
     ELSE Fail

OptRfc(w) ==
  /\ Option
  /\ IF mystrtoul(w, RFC5798) # "ok" \/ w.n < RFC3768 THEN Fail
     ELSE Set([cfg EXCEPT !.version = w.n])

OptIpv6 ==
  Option /\ Set([cfg EXCEPT !.version = RFC5798, !.family = 6])

OptAuth(word) ==
  /\ Option
  /\ IF Len(word) > VRRP_AUTH_PASS_LEN THEN Fail
     ELSE Set([cfg EXCEPT !.auth_type = SIMPLE, !.auth_data = word])

OptHelp == Option /\ Fail

DefaultAdvInt(c) ==
  IF c.adv_int # 0 THEN c
  ELSE [c EXCEPT !.adv_int = IF c.version = RFC3768 THEN 1 ELSE 100]

\* After the options: n addresses, all of the family chosen or not.  The primary
\* address and the MTU are those of the interface, and stay 0 when it has none.
Addresses(n, valid) ==
  /\ pc = "options"
  /\ UNCHANGED <<prio, ifname, given>>
  /\ IF n = 0 \/ ~valid \/ cfg.vrid = 0 \/ ~ifname
     THEN pc' = "exit" /\ UNCHANGED cfg
     ELSE /\ \E a \in {0, 5}, m \in {0, 1500} :
               cfg' = DefaultAdvInt([cfg EXCEPT !.vips = [i \in 1..n |-> i],
                                                !.addr = a, !.mtu = m])
          /\ pc' = "checked"

\* mutant: no address is as good as some
start_without_addresses(c) == Len(c.vips) <= naddr(c)

\* vrrp_adv_build fails when there are more addresses than the count says;
\* vrrp_arp_init and vrrp_na_init, when there is none.
InitSucceeds(c) == Len(c.vips) <= naddr(c) /\ c.vips # <<>>

\* main, from the options to its loop
Start ==
  /\ pc = "checked"
  /\ pc' = IF InitSucceeds(cfg) THEN "running" ELSE "exit"
  /\ UNCHANGED <<cfg, prio, ifname, given>>

Done == pc \in {"running", "exit"} /\ UNCHANGED vars

Next ==
  \/ \E w \in Vrids : OptVrid(w)
  \/ OptInterface
  \/ \E w \in Prios : OptPriority(w)
  \/ \E w \in Delays : OptTime(w) \/ OptStartDelay(w)
  \/ \E word \in {"on", "off", "maybe"} : OptPreempt(word)
  \/ \E w \in Rfcs : OptRfc(w)
  \/ OptIpv6
  \/ \E word \in Passwords : OptAuth(word)
  \/ OptHelp
  \/ \E n \in VipCounts, valid \in BOOLEAN : Addresses(n, valid)
  \/ Start
  \/ Done

Spec == Init /\ [][Next]_vars

--------------------------------------------------------------------------------
(* Properties. *)

\* Whatever the options and their order, a daemon that enters its loop has a
\* virtual router, an interface, 1 to 255 addresses it counts right, and a
\* configuration of the kind the state machine is written for: an interval that
\* is not 0 above all, since a timer of 0 fires for ever.
RunningIsConfigured ==
  pc = "running" =>
    /\ cfg \in Configs /\ prio \in Priorities
    /\ cfg.vrid # 0 /\ ifname
    /\ naddr(cfg) = Len(cfg.vips) /\ naddr(cfg) > 0

================================================================================
