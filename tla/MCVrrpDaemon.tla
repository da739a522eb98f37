----------------------------- MODULE MCVrrpDaemon -----------------------------
(* Instances of VrrpDaemon for TLC. *)
EXTENDS VrrpDaemon

MCConfig3 ==
  [version |-> RFC5798, vrid |-> 42, adv_int |-> 1, start_delay |-> 1,
   preempt |-> TRUE, auth_type |-> NOAUTH, auth_data |-> <<>>, family |-> 4,
   addr |-> 5, vips |-> <<9>>, mtu |-> 1500]

MCConfig2 == [MCConfig3 EXCEPT !.version = RFC3768, !.start_delay = 0,
                               !.preempt = FALSE]

\* What a peer with the same configuration, address addr and priority prio sends
Peer(c, addr, prio) ==
  vrrp_adv_build([c EXCEPT !.addr = addr],
                 [priority |-> prio, chksum |-> adv_checksum(c, prio)])

\* A resignation, a lower priority, the initial priority from a lower and from a
\* greater address (which a "prio 90" makes the higher priority), and a packet
\* of another virtual router
MCPackets3 ==
  {Peer(MCConfig3, 7, 0), Peer(MCConfig3, 7, 50),
   Peer(MCConfig3, 3, 100), Peer(MCConfig3, 7, 100),
   [Peer(MCConfig3, 7, 200) EXCEPT !.vrid = 41]}
FewPackets == {Peer(MCConfig2, 7, 0), Peer(MCConfig2, 7, 200)}

Prio(n) == <<Word("prio"), Num(n)>>

PrioCommands == {Prio(90)}

\* A lone "prio 90" in the fifo changes the priority (README.md: "prio X (change
\* priority while running, and switch to init state)").
PrioApplies ==
  []<>(pc = "loop" => Waiting /\ sock = <<>>) =>
    ((fifo = Prio(90)) ~> (v.priority = 90))

StopCommands == {<<Word("stop")>>, <<Word("reload")>>}

\* Every command of vrrp_ctrl_cmd, valid or not: the words that can stand alone
\* in the fifo are those whose order matters, and a second word, which the code
\* ignores behind "reload" and "status", keeps the others from piling up
MCCommands ==
  {<<Word("stop")>>, <<>>, <<Word("prio")>>, Prio(90), Prio(255), Prio(300)}
    \cup {<<Word(k), Word("text")>> : k \in {"reload", "status", "prio"}}

================================================================================
