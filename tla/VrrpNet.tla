-------------------------------- MODULE VrrpNet --------------------------------
(***************************************************************************)
(* The VRRP advertisement on the wire: how vrrp_adv.c builds it and how    *)
(* vrrp_net_recv (vrrp_net.c) judges one that was received, with the IPv4  *)
(* and IPv6 helpers (vrrp_ip4.c, vrrp_ip6.c) both of them call.            *)
(*                                                                         *)
(* A configuration c holds the fields of struct vrrp and struct vrrp_net   *)
(* that the daemon fixes at start-up:                                      *)
(*   version, vrid, adv_int, start_delay, preempt, auth_type, auth_data,   *)
(*   family (4 or 6), addr (the primary address, vnet->vif.ipx), vips, mtu *)
(*                                                                         *)
(* A packet p is one received datagram:                                    *)
(*   ttl, proto, hdrlen (IP header), size (VRRP payload), saddr,           *)
(*   version, vrid, priority, naddr, hi and lo (the two bytes the union of *)
(*   vrrp_rfc.h gives to auth_type/adv_int or to max_adv_int), vips,       *)
(*   auth (what the sender wrote behind the addresses), chksum.            *)
(* A password is a sequence of characters, bytes other than 0.             *)
(*                                                                         *)
(* A checksum is abstracted to what it covers: the priority, the only byte *)
(* rewritten after the packet is built, and the set of payload sizes over  *)
(* which the bytes add up to it.  Two payloads that differ only in the     *)
(* priority byte never have the same Internet checksum.                    *)
(***************************************************************************)
EXTENDS Integers, Sequences, FiniteSets

CONSTANT HalfSpace    \* half the number of IPv4 addresses, 2^31 in the code

ASSUME HalfSpaceAssumption == HalfSpace \in Nat \ {0}

RFC3768 == 2
RFC5798 == 3
NOAUTH == 0
SIMPLE == 1
PRIO_OWNER == 255
ADVINT_MAX == 4095
VRRP_TTL == 255
IPPROTO_VRRP == 112
IPHDR_SIZE == 20
VRRP_PKTHDR_SIZE == 8
VRRP_AUTH_SIZE == 8
VRRP_PKT_MINSIZE == VRRP_PKTHDR_SIZE + 4
VRRP_PKT_MAXSIZE == VRRP_PKTHDR_SIZE + 255 * 4 + VRRP_AUTH_SIZE
Word16 == 65536
Chars == 1..255

\* The 16-bit words of an address, of which the model keeps a number: the IPv6
\* addresses are the ones of fe80::/64 that end in it.
Ip4(a) == <<a \div Word16, a % Word16>>
Ip6(a) == <<65152, 0, 0, 0, 0, 0, a \div Word16, a % Word16>>

\* naddr is a uint8_t, set from the number of addresses on the command line
naddr(c) == Len(c.vips) % 256

vrrp_ip4_getsize(c) == VRRP_PKTHDR_SIZE + 4 * naddr(c) + VRRP_AUTH_SIZE
vrrp_ip6_getsize(c) == VRRP_PKTHDR_SIZE + 16 * naddr(c)

adv_getsize(c) ==
  IF c.family = 4 THEN vrrp_ip4_getsize(c) ELSE vrrp_ip6_getsize(c)

adv_checksum(c, priority) == [priority |-> priority, sizes |-> {adv_getsize(c)}]

\* The advertisement a router with configuration c puts on the wire when its
\* buffer __adv[2] holds adv (priority and checksum).  vrrp_adv_build writes the
\* password behind the addresses; vrrp_ip6_getsize has no room for it, so that in
\* IPv6 it lands behind the buffer and is not sent.
vrrp_adv_build(c, adv) ==
  [ttl |-> VRRP_TTL, proto |-> IPPROTO_VRRP, hdrlen |-> IPHDR_SIZE,
   size |-> adv_getsize(c), saddr |-> c.addr,
   version |-> c.version, vrid |-> c.vrid, priority |-> adv.priority,
   naddr |-> naddr(c),
   hi |-> IF c.version = RFC3768 THEN c.auth_type ELSE c.adv_int \div 256,
   lo |-> c.adv_int % 256,
   vips |-> [i \in 1..Len(c.vips) |-> c.vips[Len(c.vips) + 1 - i]],
   auth |-> IF c.version = RFC3768 /\ c.auth_type = SIMPLE /\ c.family = 4
            THEN c.auth_data ELSE <<>>,
   chksum |-> adv.chksum]

\* mutant: addresses are compared in order
viplist_cmp_ordered(c, p) ==
  Cardinality({i \in 1..naddr(c) : c.vips[i] # p.vips[i]})

\* ndiff: how many of the packet's addresses are not ours
viplist_cmp(c, p) ==
  Cardinality({i \in 1..naddr(c) :
                 \A j \in 1..Len(c.vips) : c.vips[j] # p.vips[i]})

\* The unsigned difference, returned as a signed int of the same width.
vrrp_ip4_cmp(s1, s2) ==
  LET d == (s1 - s2) % (2 * HalfSpace)
  IN  IF d < HalfSpace THEN d ELSE d - 2 * HalfSpace

\* memcmp
vrrp_ip6_cmp(s1, s2) == s1 - s2

ipx_cmp(c, s1, s2) ==
  IF c.family = 4 THEN vrrp_ip4_cmp(s1, s2) ELSE vrrp_ip6_cmp(s1, s2)

\* mutant: arguments swapped
adv_addr_cmp_swapped(c, p) == ipx_cmp(c, c.addr, p.saddr)

vrrp_adv_addr_cmp(c, p) == ipx_cmp(c, p.saddr, c.addr)

vrrp_adv_get_advint(p) ==
  IF p.version = RFC5798 THEN 256 * p.hi + p.lo ELSE p.lo

--------------------------------------------------------------------------------
(* The checks of vrrp_net_recv, in groups that give the same verdict. *)

\* What a raw socket returns: the IP header is part of it in IPv4; in IPv6 it is
\* not, and the protocol is taken for granted.
vrrp_ip4_recv(p) == [len |-> p.hdrlen + p.size, proto |-> p.proto]
vrrp_ip6_recv(p) == [len |-> p.size, proto |-> IPPROTO_VRRP]

pkt_receive(c, p) == IF c.family = 4 THEN vrrp_ip4_recv(p) ELSE vrrp_ip6_recv(p)

LengthOK(c, p) ==
  LET len == pkt_receive(c, p).len
  IN  /\ adv_getsize(c) <= len /\ len <= c.mtu
      /\ VRRP_PKT_MINSIZE <= p.size /\ p.size <= VRRP_PKT_MAXSIZE

HeaderOK(c, p) ==
  /\ LengthOK(c, p)
  /\ pkt_receive(c, p).proto = IPPROTO_VRRP
  /\ p.version = c.version
  /\ p.ttl = VRRP_TTL

ChecksumOK(c, p) ==
  p.chksum.priority = p.priority /\ adv_getsize(c) \in p.chksum.sizes

\* The byte at offset k behind the VRRP header of p: one of an address, or of what
\* follows the addresses.  Where the sender wrote nothing it is no character.
PayloadByte(c, p, k) ==
  LET size == IF c.family = 4 THEN 4 ELSE 16
      end  == size * Len(p.vips)
      a    == p.vips[(k \div size) + 1]
      w    == (IF c.family = 4 THEN Ip4(a) ELSE Ip6(a))[((k % size) \div 2) + 1]
  IN  IF k < end THEN (IF k % 2 = 0 THEN w \div 256 ELSE w % 256)
      ELSE IF k - end < Len(p.auth) THEN p.auth[k - end + 1]
      ELSE 0

\* memcmp over the length of the local password only, at 4 bytes per address behind
\* the header whatever the family: in IPv6 that is inside the addresses
AuthOK(c, p) ==
  c.version # RFC5798 =>
    /\ p.hi = c.auth_type
    /\ p.hi = SIMPLE =>
         \A k \in 1..Len(c.auth_data) :
           PayloadByte(c, p, 4 * naddr(c) + k - 1) = c.auth_data[k]

VipsOK(c, p) ==
  \/ p.naddr = naddr(c) /\ viplist_cmp(c, p) = 0
  \/ p.priority = PRIO_OWNER
  \/ c.version # RFC3768

\* lo is adv_int in VRRPv2 and the low byte of max_adv_int in VRRPv3
AdvIntOK(c, p) == p.lo = c.adv_int

vrrp_net_recv(c, priority, p) ==
  IF ~HeaderOK(c, p) THEN "INVALID"
  ELSE IF p.vrid # c.vrid THEN "VRID_MISMATCH"
  ELSE IF /\ ChecksumOK(c, p)
          /\ priority # PRIO_OWNER
          /\ AuthOK(c, p)
          /\ VipsOK(c, p)
          /\ AdvIntOK(c, p)
       THEN "PKT"
       ELSE "INVALID"

================================================================================
