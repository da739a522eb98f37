------------------------------ MODULE MCVrrpPeers ------------------------------
(* Instances of VrrpPeers for TLC. *)
EXTENDS VrrpPeers

Base ==
  [version |-> RFC5798, vrid |-> 42, adv_int |-> 100, start_delay |-> 0,
   preempt |-> TRUE, auth_type |-> NOAUTH, auth_data |-> <<>>, family |-> 4,
   addr |-> 0, vips |-> <<9>>, mtu |-> 1500]

V2(d) == [d EXCEPT !.version = RFC3768]
Pass(d, word) == [V2(d) EXCEPT !.auth_type = SIMPLE, !.auth_data = word]
Vips(d, vips) == [d EXCEPT !.vips = vips]
First(n) == [i \in 1..n |-> i]

\* n virtual IPv6 addresses
Ipv6(n) == [Vips(Base, First(n)) EXCEPT !.family = 6]

\* Both sides of every limit: intervals, addresses, passwords
Shared ==
  {[d EXCEPT !.adv_int = t] :
     d \in {Base, V2(Base), Pass(Base, <<>>), Pass(Base, <<112, 119>>),
            Vips(V2(Base), <<9, 8, 9>>), Vips(Pass(Base, <<112>>), First(255)),
            Ipv6(1), Ipv6(64), Ipv6(65),
            V2(Ipv6(1)), Pass(Ipv6(1), <<>>), Pass(Ipv6(4), <<112, 119>>)},
     t \in {1, 255, 256, ADVINT_MAX}}

\* What vrrp_options lets through and the documentation announces
Refused == {[Base EXCEPT !.adv_int = 300], Ipv6(65), Pass(Ipv6(1), <<112, 119>>)}

OneOfEach == {Base, Ipv6(1)}

================================================================================
