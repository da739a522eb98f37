------------------------------- MODULE VrrpFrames -------------------------------
(***************************************************************************)
(* The bytes behind VrrpNet, where they matter: the Internet checksum of   *)
(* advertisements (cksum of common.h, vrrp_ip4_chksum, vrrp_ip6_chksum)    *)
(* and the frames that update the topology when a router becomes master    *)
(* (vrrp_arp.c, vrrp_na.c).                                                *)
(*                                                                         *)
(* Buffers are sequences of 16-bit words, high byte first; the code adds   *)
(* them up in host order, which only swaps the bytes of the result.        *)
(***************************************************************************)
EXTENDS VrrpNet

\* The two lines that bring a 32-bit sum down to 16 bits.
fold(sum) ==
  LET s == (sum \div Word16) + (sum % Word16)
  IN  (s + (s \div Word16)) % Word16

\* uint32_t holds the sum of the words of any packet, and all the sizes are even.
cksum(buf) ==
  LET sum[n \in 0..Len(buf)] == IF n = 0 THEN 0 ELSE sum[n - 1] + buf[n]
  IN  (Word16 - 1) - fold(sum[Len(buf)])

--------------------------------------------------------------------------------
(* Advertisements. *)

INADDR_VRRP_GROUP == <<57344, 18>>                       \* 224.0.0.18
IN6ADDR_VRRP_GROUP == <<65282, 0, 0, 0, 0, 0, 0, 18>>    \* ff02::12

\* The words of an advertisement, its checksum set to 0; spare is what the bytes
\* after the addresses hold, the password or what malloc returned.
AdvWords(c, p, spare) ==
  LET size == IF c.family = 4 THEN 2 ELSE 8
      Vip(a) == IF c.family = 4 THEN Ip4(a) ELSE Ip6(a)
  IN  <<p.version * 4096 + 256 + p.vrid, p.priority * 256 + p.naddr,
        p.hi * 256 + p.lo, 0>>
      \o [k \in 1..(size * Len(p.vips)) |->
            Vip(p.vips[((k - 1) \div size) + 1])[((k - 1) % size) + 1]]
      \o (IF c.family = 4 THEN spare ELSE <<>>)

\* mutant: the receiver takes its own address for the sender's
ip4_chksum_own_addr(c, p, saddr, spare) ==
  cksum(Ip4(c.addr) \o INADDR_VRRP_GROUP \o <<IPPROTO_VRRP, vrrp_ip4_getsize(c)>>
          \o AdvWords(c, p, spare))

\* saddr is the source of a received packet, or 0 for the address in our own
\* IP header.
vrrp_ip4_chksum(c, p, saddr, spare) ==
  CASE p.version = RFC3768 -> cksum(AdvWords(c, p, spare))
    [] p.version = RFC5798 ->
         cksum(Ip4(IF saddr # 0 THEN saddr ELSE c.addr) \o INADDR_VRRP_GROUP
                 \o <<IPPROTO_VRRP, vrrp_ip4_getsize(c)>> \o AdvWords(c, p, spare))
    [] OTHER -> 0

\* htons puts the length in the first half of its 32 bits.
vrrp_ip6_chksum(c, p, saddr, spare) ==
  cksum(Ip6(IF saddr # 0 THEN saddr ELSE c.addr) \o IN6ADDR_VRRP_GROUP
          \o <<vrrp_ip6_getsize(c), 0, 0, IPPROTO_VRRP>> \o AdvWords(c, p, spare))

chksum(c, p, saddr, spare) ==
  IF c.family = 4 THEN vrrp_ip4_chksum(c, p, saddr, spare)
  ELSE vrrp_ip6_chksum(c, p, saddr, spare)

--------------------------------------------------------------------------------
(* Topology updates: one frame per virtual address, the last address first. *)

IPPROTO_ICMPV6 == 58
NA_SIZE == 24
IN6ADDR_MCAST == <<65282, 0, 0, 0, 0, 0, 0, 1>>          \* ff02::1

\* what vrrp_switch.sh gives to the interface
VirtualMac(c) == <<0, 0, 94, 0, 1, c.vrid>>

\* the source of the Ethernet header
vrrp_arp_eth_build(c) == <<0, 0, 94, 0, 1, c.vrid>>

\* ARPHRD_ETHER, ETHERTYPE_IP and the lengths of their addresses, ARPOP_REQUEST
vrrp_arp_build == [hrd |-> 1, pro |-> 2048, hln |-> 6, pln |-> 4, op |-> 1]

vrrp_arp_vrrp_build(c, vip) ==
  [sha |-> <<0, 0, 94, 0, 1, c.vrid>>, sip |-> vip, tip |-> vip]

\* the three parts of a frame
vrrp_arp_init(c, vip) ==
  [shost |-> vrrp_arp_eth_build(c), hdr |-> vrrp_arp_build,
   arp |-> vrrp_arp_vrrp_build(c, vip)]

vrrp_na_eth_build(c) == <<0, 0, 82, 0, 1, c.vrid>>

\* source, destination and hop limit
vrrp_na_ip6_build(vip) == [src |-> Ip6(vip), dst |-> IN6ADDR_MCAST, hlim |-> 255]

\* The neighbour advertisement: type, checksum, flags, target, and no option.
NaWords(vip, sum) == <<34816, sum, 40960, 0>> \o Ip6(vip)

\* mutant: the pseudo header of the advertisements
na_chksum_vrrp(iph, vip) ==
  cksum(iph.src \o iph.dst \o <<NA_SIZE, 0, 0, IPPROTO_VRRP>> \o NaWords(vip, 0))

vrrp_na_chksum(iph, vip) ==
  cksum(iph.src \o iph.dst \o <<NA_SIZE, 0, 0, IPPROTO_ICMPV6>> \o NaWords(vip, 0))

vrrp_na_build(c, vip) ==
  LET iph == vrrp_na_ip6_build(vip)
  IN  [shost |-> vrrp_na_eth_build(c), iph |-> iph, target |-> vip,
       words |-> NaWords(vip, vrrp_na_chksum(iph, vip))]

vrrp_arp_send(c) ==
  [i \in 1..Len(c.vips) |-> vrrp_arp_init(c, c.vips[Len(c.vips) + 1 - i])]

vrrp_na_send(c) ==
  [i \in 1..Len(c.vips) |-> vrrp_na_build(c, c.vips[Len(c.vips) + 1 - i])]

--------------------------------------------------------------------------------
(* What the others make of these frames. *)

\* A host believes a gratuitous ARP packet, a request or an answer for the address it
\* comes from, and a switch learns the port of its source.
ArpUpdates(c, f) ==
  /\ f.hdr = [hrd |-> 1, pro |-> 2048, hln |-> 6, pln |-> 4, op |-> f.hdr.op]
  /\ f.hdr.op \in {1, 2} /\ f.arp.tip = f.arp.sip
  /\ f.arp.sha = VirtualMac(c) /\ f.shost = VirtualMac(c)

\* A host does not discard a neighbour advertisement: its hop limit is 255 and its
\* checksum verifies over the pseudo header of RFC 8200.
NaAccepted(f) ==
  /\ f.iph.hlim = 255
  /\ cksum(f.iph.src \o f.iph.dst \o <<0, NA_SIZE, 0, IPPROTO_ICMPV6>> \o f.words) = 0

\* The option that tells the hardware address of the target (RFC 4861).
TargetAddress(mac) ==
  <<513, mac[1] * 256 + mac[2], mac[3] * 256 + mac[4], mac[5] * 256 + mac[6]>>

\* A host learns the hardware address in the option of a neighbour advertisement, a
\* switch the port of its source.
NaUpdates(c, f) ==
  /\ NaAccepted(f)
  /\ SubSeq(f.words, (NA_SIZE \div 2) + 1, Len(f.words)) = TargetAddress(VirtualMac(c))
  /\ f.shost = VirtualMac(c)

\* The addresses for which a new master sends a frame that no host discards.
Announced(c) ==
  IF c.family = 4
  THEN LET frames == vrrp_arp_send(c)
       IN  {frames[k].arp.sip : k \in {k \in DOMAIN frames : ArpUpdates(c, frames[k])}}
  ELSE LET frames == vrrp_na_send(c)
       IN  {frames[k].target : k \in {k \in DOMAIN frames : NaAccepted(frames[k])}}

\* The addresses for which the hosts and the switches learn where the new master is.
Updated(c) ==
  IF c.family = 4 THEN Announced(c)
  ELSE LET frames == vrrp_na_send(c)
       IN  {frames[k].target : k \in {k \in DOMAIN frames : NaUpdates(c, frames[k])}}

================================================================================
