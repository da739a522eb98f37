------------------------------- MODULE VrrpPeers -------------------------------
(***************************************************************************)
(* Two masters of one virtual router, configured alike, hear each other    *)
(* for the first time: what vrrp_net_recv and the handler of the MASTER    *)
(* state make of the advertisement of the other, for a set of             *)
(* configurations.                                                         *)
(***************************************************************************)
EXTENDS VrrpState, VrrpFrames

CONSTANTS
  SharedConfigs,    \* configurations both have (addr excepted)
  Addresses,        \* primary addresses
  PeerPriorities,   \* priorities
  MaxSummed         \* bound: addresses of the packets whose checksum is computed

ASSUME PeersAssumption ==
  /\ Addresses \subseteq 0..(2 * HalfSpace - 1)
  /\ PeerPriorities \subseteq 1..254

VARIABLES
  c,        \* the configuration of both
  addr,     \* the address of each
  inst,     \* the instance of each
  sent,     \* the advertisements on their way to each
  verdict   \* what vrrp_net_recv returned to each, "none" before

vars == <<c, addr, inst, sent, verdict>>

Two == {1, 2}

ConfigOf(i) == [c EXCEPT !.addr = addr[i]]

\* Both became master out of reach of the other.
Init ==
  /\ c \in SharedConfigs
  /\ addr \in {a \in [Two -> Addresses] : a[1] # a[2]}
  /\ \E prio \in [Two -> PeerPriorities] :
       inst = [i \in Two |->
                 LET b == vrrp_state_init(ConfigOf(i), NewInstance(c, prio[i]))
                 IN  [BackupTimer(ConfigOf(i), b) EXCEPT !.out = <<>>]]
  /\ sent = [i \in Two |->
               LET peer == ConfigOf(3 - i)
               IN  vrrp_adv_build(peer, inst[3 - i].adv)]
  /\ verdict = [i \in Two |-> "none"]

Deliver(i) ==
  /\ verdict[i] = "none"
  /\ verdict' = [verdict EXCEPT
                   ![i] = vrrp_net_recv(ConfigOf(i), inst[i].priority, sent[i])]
  /\ inst' = [inst EXCEPT ![i] = [OnPkt(ConfigOf(i), @, sent[i])
                                    EXCEPT !.out = <<>>]]
  /\ UNCHANGED <<c, addr, sent>>

Done == (\A i \in Two : verdict[i] # "none") /\ UNCHANGED vars

Next == (\E i \in Two : Deliver(i)) \/ Done

Spec == Init /\ [][Next]_vars

--------------------------------------------------------------------------------
(* Properties. *)

\* Routers configured alike accept each other's advertisements: what
\* vrrp_adv_build writes is what vrrp_net_recv expects.
PeersAccept == \A i \in Two : verdict[i] \in {"none", "PKT"}

\* The configurations that vrrp_net_recv understands when it gets back what
\* vrrp_adv_build made of them: the interval fits the byte it looks at, the packet
\* the size it allows, and there is no password among IPv6 addresses.
Understood(d) ==
  /\ d.adv_int <= 255
  /\ adv_getsize(d) <= VRRP_PKT_MAXSIZE
  /\ (d.version = RFC3768 /\ d.auth_type = SIMPLE /\ d.family = 6) => d.auth_data = <<>>

\* Routers configured alike accept each other's advertisements with every
\* configuration that vrrp_options lets through, except for three kinds with which
\* they refuse all of them: an interval of more than 255, more than 64 IPv6
\* addresses, and VRRPv2 over IPv6 with a password.
PeersAgree ==
  \A i \in Two : verdict[i] # "none" => (verdict[i] = "PKT" <=> Understood(c))

Greater(i, j) ==
  \/ inst[i].priority > inst[j].priority
  \/ inst[i].priority = inst[j].priority /\ addr[i] > addr[j]

\* Once both have accepted the advertisement of the other, the one with the greater
\* priority is the only master, or the one with the greater address when the
\* priorities are equal (vrrp_state.c: "Priority of received pkt is equal, but primary
\* IP address of the sender is greater than the local primary IP address, switch to
\* backup").
GreaterStaysMaster ==
  (\A i \in Two : verdict[i] = "PKT") =>
    \A i \in Two : inst[i].state = "MASTER" <=> Greater(i, 3 - i)

\* The abstract checksum of VrrpNet is exact: what the receiver computes over the
\* bytes of the advertisement, whatever its spare bytes hold, is what the sender
\* put in, except when the priority is not the one the sender summed.
ChecksumIsExact ==
  \A i \in Two : verdict[i] = "none" /\ Len(c.vips) <= MaxSummed =>
    \A prio \in PeerPriorities \cup {0}, w \in {0, 65535} :
      LET p == [sent[i] EXCEPT !.priority = prio]
          spare == <<w, w, w, w>>
      IN  chksum(ConfigOf(i), p, p.saddr, spare)
            = chksum(ConfigOf(3 - i), sent[i], 0, spare)
          <=> ChecksumOK(ConfigOf(i), p)

\* A new master sends a frame for each of its addresses, and one that no host
\* discards: gratuitous ARP from the hardware address of the interface that the script
\* made, neighbour advertisements with a checksum that verifies.
FramesAreAccepted == Announced(c) = {c.vips[n] : n \in 1..Len(c.vips)}

\* A new master updates the topology for each of its addresses (README.md: "It
\* provides a network topology update by sending" them): the hosts and the switches
\* learn from its frames where the virtual router is.
TakeoverIsAnnounced == Updated(c) = {c.vips[n] : n \in 1..Len(c.vips)}

================================================================================
