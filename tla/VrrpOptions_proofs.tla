-------------------------- MODULE VrrpOptions_proofs --------------------------
(***************************************************************************)
(* Proofs about VrrpOptions: the configuration of a daemon that runs, for  *)
(* any number of options with any arguments.                               *)
(***************************************************************************)
EXTENDS VrrpOptions, TLAPS

\* What the options leave at any moment: a configuration, but for the interval
\* that may still be 0.
Partial ==
  [version : {RFC3768, RFC5798}, vrid : 0..255, adv_int : 0..ADVINT_MAX,
   start_delay : 0..ADVINT_MAX, preempt : BOOLEAN, auth_type : {NOAUTH, SIMPLE},
   auth_data : Seq(Chars), family : {4, 6}, addr : Nat, vips : Seq(Nat),
   mtu : Nat]

\* The addresses come last; with them the interval is set and the router and the
\* interface are known.
OptionsInv ==
  /\ cfg \in Partial /\ prio \in Priorities
  /\ cfg.vips # <<>> =>
       cfg.adv_int # 0 /\ cfg.vrid # 0 /\ ifname
  /\ pc = "options" => cfg.vips = <<>>
  /\ pc = "running" => InitSucceeds(cfg)

\* A count that is not less than the length is the length.
LEMMA Count == \A n \in Nat : n <= n % 256 => n % 256 = n
BY SMTT(40)

\* A number mystrtoul accepts is in the range it was given.
LEMMA Ranges ==
  \A n \in Nat : /\ \A max \in Nat : ~(n > max) => n \in 0..max
                 /\ n \in 0..255 /\ n # 0 => n \in 1..255
                 /\ n \in 0..ADVINT_MAX /\ n # 0 => n \in 1..ADVINT_MAX
                 /\ n \in 0..3 /\ ~(n < 2) => n \in {2, 3}
<1>1. \A n, max \in Nat : ~(n > max) => n \in 0..max
  BY SMTT(40)
<1>2. \A n, max \in Nat : n \in 0..max /\ n # 0 => n \in 1..max
  BY SMTT(40)
<1>3. \A n \in Nat : n \in 0..3 /\ ~(n < 2) => n \in {2, 3}
  BY SMTT(40)
<1>4. \A n \in Nat : n \in 0..255 /\ n # 0 => n \in 1..255
  BY SMTT(40)
<1>5. ADVINT_MAX \in Nat
  BY SMTT(40) DEF ADVINT_MAX
<1>6. \A n \in Nat : n \in 0..ADVINT_MAX /\ n # 0 => n \in 1..ADVINT_MAX
  BY <1>2, <1>5, Zenon
<1> QED BY <1>1, <1>3, <1>4, <1>6, SMTT(40)

LEMMA Limits == VRID_MAX \in Nat /\ PRIO_OWNER \in Nat /\ ADVINT_MAX \in Nat /\ RFC5798 \in Nat
BY DEF VRID_MAX, PRIO_OWNER, ADVINT_MAX, RFC5798

LEMMA Parsed ==
  ASSUME NEW w \in Numbers, NEW max \in Nat, mystrtoul(w, max) = "ok"
  PROVE  w.n \in 0..max
<1>1. w.n \in Nat
  BY DEF Numbers
<1>2. ~(w.n > max)
  BY DEF mystrtoul
<1> QED BY <1>1, <1>2, Ranges, ZenonT(60)

\* Setting a field to a value of its range.
LEMMA SetField ==
  ASSUME NEW d \in Partial
  PROVE  /\ \A n \in 0..255 : [d EXCEPT !.vrid = n] \in Partial
         /\ \A n \in 0..ADVINT_MAX : /\ [d EXCEPT !.adv_int = n] \in Partial
                                     /\ [d EXCEPT !.start_delay = n] \in Partial
         /\ \A n \in {RFC3768, RFC5798} : [d EXCEPT !.version = n] \in Partial
         /\ \A n : /\ [d EXCEPT !.vrid = n].vips = d.vips
                  /\ [d EXCEPT !.adv_int = n].vips = d.vips
                  /\ [d EXCEPT !.adv_int = n].adv_int = n
                  /\ [d EXCEPT !.adv_int = n].vrid = d.vrid
                  /\ [d EXCEPT !.start_delay = n].vips = d.vips
                  /\ [d EXCEPT !.version = n].vips = d.vips
BY ZenonT(60) DEF Partial

LEMMA SetAuth ==
  ASSUME NEW d \in Partial, NEW word \in Seq(Chars)
  PROVE  LET e == [d EXCEPT !.auth_type = SIMPLE, !.auth_data = word]
         IN  e \in Partial /\ e.vips = d.vips
BY ZenonT(60) DEF Partial

\* The interval of a configuration whose options are all read is not 0.
LEMMA DefaultAdvIntPost ==
  ASSUME NEW d \in Partial
  PROVE  LET e == DefaultAdvInt(d)
         IN  e \in Partial /\ e.vrid = d.vrid /\ e.adv_int # 0
<1>1. 1 \in 0..ADVINT_MAX /\ 100 \in 0..ADVINT_MAX
  BY DEF ADVINT_MAX
<1>2. CASE d.adv_int # 0
  BY <1>2 DEF DefaultAdvInt
<1>3. CASE d.adv_int = 0
  <2>1. DefaultAdvInt(d) \in {[d EXCEPT !.adv_int = 1], [d EXCEPT !.adv_int = 100]}
    BY <1>3 DEF DefaultAdvInt
  <2>2. ASSUME NEW n \in {1, 100}
        PROVE  /\ [d EXCEPT !.adv_int = n] \in Partial
               /\ [d EXCEPT !.adv_int = n].vrid = d.vrid
               /\ [d EXCEPT !.adv_int = n].adv_int # 0
    <3>1. n \in 0..ADVINT_MAX /\ n # 0
      BY <1>1
    <3>2. [d EXCEPT !.adv_int = n] \in Partial
      BY <3>1, SetField, ZenonT(60)
    <3>3. [d EXCEPT !.adv_int = n].vrid = d.vrid /\ [d EXCEPT !.adv_int = n].adv_int = n
      BY DEF Partial
    <3> QED BY <3>1, <3>2, <3>3, Zenon
  <2> QED BY <2>1, <2>2, ZenonT(60)
<1> QED BY <1>2, <1>3

\* A configuration with its addresses and what the interface adds.
Filled(d, n, a, m) ==
  DefaultAdvInt([d EXCEPT !.vips = [i \in 1..n |-> i], !.addr = a, !.mtu = m])

LEMMA Completed ==
  ASSUME NEW d \in Partial, NEW n \in Nat, NEW a \in Nat, NEW m \in Nat
  PROVE  /\ Filled(d, n, a, m) \in Partial
         /\ Filled(d, n, a, m).vrid = d.vrid
         /\ Filled(d, n, a, m).adv_int # 0
<1> DEFINE vips == [i \in 1..n |-> i]
           f == [d EXCEPT !.vips = vips, !.addr = a, !.mtu = m]
<1>1. vips \in Seq(Nat)
  OBVIOUS
<1>2. Filled(d, n, a, m) = DefaultAdvInt(f)
  BY DEF Filled
<1> HIDE DEF vips
<1>3. f \in Partial /\ f.vrid = d.vrid
  BY <1>1, ZenonT(60) DEF Partial
<1> HIDE DEF f
<1> QED BY <1>2, <1>3, DefaultAdvIntPost

LEMMA InitOptions == Init => OptionsInv
<1> SUFFICES ASSUME Init PROVE OptionsInv
  OBVIOUS
<1>1. <<>> \in Seq(Chars) /\ <<>> \in Seq(Nat)
  OBVIOUS
<1> QED BY <1>1 DEF Init, OptionsInv, Partial, Priorities, ADVINT_MAX

LEMMA RunningComplete == OptionsInv => RunningIsConfigured
<1> SUFFICES ASSUME OptionsInv, pc = "running" PROVE
      /\ cfg \in Configs /\ prio \in Priorities
      /\ cfg.vrid # 0 /\ ifname
      /\ naddr(cfg) = Len(cfg.vips) /\ naddr(cfg) > 0
  BY DEF RunningIsConfigured
<1>1. cfg.vips \in Seq(Nat) /\ cfg.vips # <<>>
  BY DEF OptionsInv, Partial, InitSucceeds
<1>2. Len(cfg.vips) \in Nat /\ Len(cfg.vips) > 0
  BY <1>1
<1>3. naddr(cfg) = Len(cfg.vips)
  BY <1>2, Count, ZenonT(60) DEF OptionsInv, InitSucceeds, naddr
<1>4. cfg.adv_int \in 0..ADVINT_MAX /\ cfg.adv_int # 0 /\ cfg.vrid # 0 /\ ifname
  BY <1>1 DEF OptionsInv, Partial
<1>5. cfg.adv_int \in 1..ADVINT_MAX
  <2>1. cfg.adv_int \in Nat
    BY <1>4
  <2> QED BY <1>4, <2>1, Ranges, ZenonT(60)
<1>6. cfg \in Configs
  BY <1>5 DEF OptionsInv, Partial, Configs
<1> QED BY <1>2, <1>3, <1>4, <1>6 DEF OptionsInv

LEMMA NextOptions ==
  ASSUME OptionsInv, [Next]_vars
  PROVE  OptionsInv'
<1> USE DEF OptionsInv
<1>0. cfg \in Partial
  OBVIOUS
<1>1. ASSUME NEW w \in Vrids, OptVrid(w) PROVE OptionsInv'
  <2>1. w \in Numbers
    BY OptionsAssumption
  <2>2. CASE cfg' = cfg
    BY <1>1, <2>2 DEF OptVrid, Option, Fail, Set
  <2>3. CASE cfg' # cfg
    <3>1. mystrtoul(w, VRID_MAX) = "ok" /\ cfg' = [cfg EXCEPT !.vrid = w.n]
      BY <1>1, <2>3 DEF OptVrid, Fail, Set
    <3>2. w.n \in 0..255
      BY <2>1, <3>1, Parsed, Limits, ZenonT(60) DEF VRID_MAX
    <3>3. cfg' \in Partial /\ cfg'.vips = cfg.vips
      BY <1>0, <3>1, <3>2, SetField, ZenonT(60)
    <3> QED BY <1>1, <2>3, <3>3 DEF OptVrid, Option, Fail, Set
  <2> QED BY <2>2, <2>3
<1>2. ASSUME OptInterface PROVE OptionsInv'
  BY <1>2 DEF OptInterface, Option
<1>3. ASSUME NEW w \in Prios, OptPriority(w) PROVE OptionsInv'
  <2>1. w \in Numbers
    BY OptionsAssumption
  <2>2. mystrtoul(w, PRIO_OWNER) = "ok" => w.n \in Priorities
    <3>1. mystrtoul(w, PRIO_OWNER) = "ok" => w.n \in 0..PRIO_OWNER
      BY <2>1, Parsed, Limits
    <3> QED BY <3>1 DEF PRIO_OWNER, Priorities
  <2> QED BY <1>3, <2>2 DEF OptPriority, Option, Fail
<1>4. ASSUME NEW w \in Delays, OptTime(w) \/ OptStartDelay(w) PROVE OptionsInv'
  <2>1. w \in Numbers
    BY OptionsAssumption
  <2>2. CASE cfg' = cfg
    BY <1>4, <2>2 DEF OptTime, OptStartDelay, Option, Fail, Set
  <2>3. CASE cfg' # cfg
    <3>1. /\ mystrtoul(w, ADVINT_MAX) = "ok"
          /\ \/ cfg' = [cfg EXCEPT !.adv_int = w.n]
             \/ cfg' = [cfg EXCEPT !.start_delay = w.n]
      BY <1>4, <2>3 DEF OptTime, OptStartDelay, Fail, Set
    <3>2. w.n \in 0..ADVINT_MAX
      BY <2>1, <3>1, Parsed, Limits
    <3>3. cfg' \in Partial /\ cfg'.vips = cfg.vips
      <4>1. /\ [cfg EXCEPT !.adv_int = w.n] \in Partial
            /\ [cfg EXCEPT !.start_delay = w.n] \in Partial
        BY <1>0, <3>2, SetField, ZenonT(60)
      <4>2. /\ [cfg EXCEPT !.adv_int = w.n].vips = cfg.vips
            /\ [cfg EXCEPT !.start_delay = w.n].vips = cfg.vips
        BY <1>0, SetField, ZenonT(60)
      <4> QED BY <3>1, <4>1, <4>2, Zenon
    <3> QED BY <1>4, <2>3, <3>3 DEF OptTime, OptStartDelay, Option, Fail, Set
  <2> QED BY <2>2, <2>3
<1>5. ASSUME NEW word \in {"on", "off", "maybe"}, OptPreempt(word) PROVE OptionsInv'
  <2>1. cfg' = cfg \/ \E b \in BOOLEAN : cfg' = [cfg EXCEPT !.preempt = b]
    BY <1>5, Zenon DEF OptPreempt, Fail, Set
  <2>2. cfg' \in Partial /\ cfg'.vips = cfg.vips
    BY <2>1, ZenonT(60) DEF Partial
  <2> QED BY <1>5, <2>2 DEF OptPreempt, Option, Fail, Set
<1>6. ASSUME NEW w \in Rfcs, OptRfc(w) PROVE OptionsInv'
  <2>1. w \in Numbers /\ w.n \in Nat
    BY OptionsAssumption DEF Numbers
  <2>2. \/ cfg' = cfg
        \/ /\ mystrtoul(w, RFC5798) = "ok" /\ ~(w.n < RFC3768)
           /\ cfg' = [cfg EXCEPT !.version = w.n]
    BY <1>6 DEF OptRfc, Fail, Set
  <2>3. cfg' \in Partial /\ cfg'.vips = cfg.vips
    <3>1. CASE cfg' = cfg
      BY <3>1
    <3>2. CASE cfg' # cfg
      <4>1. w.n \in 0..3
        BY <2>1, <2>2, <3>2, Parsed, Limits, Zenon DEF RFC5798
      <4>2. w.n \in {2, 3}
        BY <2>1, <2>2, <3>2, <4>1, Ranges, ZenonT(60) DEF RFC3768
      <4>3. w.n \in {RFC3768, RFC5798}
        BY <4>2, Zenon DEF RFC3768, RFC5798
      <4>4. /\ [cfg EXCEPT !.version = w.n] \in Partial
            /\ [cfg EXCEPT !.version = w.n].vips = cfg.vips
        BY <1>0, <4>3, SetField, ZenonT(60)
      <4> QED BY <2>2, <3>2, <4>4, Zenon
    <3> QED BY <3>1, <3>2
  <2> QED BY <1>6, <2>3 DEF OptRfc, Option, Fail, Set
<1>7. ASSUME OptIpv6 PROVE OptionsInv'
  <2>1. cfg' \in Partial /\ cfg'.vips = cfg.vips
    BY <1>7, ZenonT(60) DEF OptIpv6, Set, Partial
  <2> QED BY <1>7, <2>1 DEF OptIpv6, Option, Set
<1>8. ASSUME NEW word \in Passwords, OptAuth(word) PROVE OptionsInv'
  <2>1. word \in Seq(Chars)
    BY OptionsAssumption
  <2>2. cfg' = cfg \/ cfg' = [cfg EXCEPT !.auth_type = SIMPLE, !.auth_data = word]
    BY <1>8 DEF OptAuth, Fail, Set
  <2>3. cfg' \in Partial /\ cfg'.vips = cfg.vips
    BY <1>0, <2>1, <2>2, SetAuth, ZenonT(60)
  <2> QED BY <1>8, <2>3 DEF OptAuth, Option, Fail, Set
<1>9. ASSUME OptHelp PROVE OptionsInv'
  BY <1>9 DEF OptHelp, Option, Fail
<1>10. ASSUME NEW n \in VipCounts, NEW valid \in BOOLEAN, Addresses(n, valid)
       PROVE  OptionsInv'
  <2>1. n \in Nat
    BY OptionsAssumption
  <2>2. CASE pc' = "exit"
    BY <1>10, <2>2 DEF Addresses
  <2>3. CASE pc' # "exit"
    <3>1. PICK a \in {0, 5}, m \in {0, 1500} : cfg' = Filled(cfg, n, a, m)
      BY <1>10, <2>3 DEF Addresses, Filled
    <3>2. cfg.vrid # 0 /\ ifname' /\ pc' = "checked" /\ prio' = prio
      BY <1>10, <2>3 DEF Addresses
    <3>3. a \in Nat /\ m \in Nat
      BY <3>1
    <3>4. cfg' \in Partial /\ cfg'.vrid = cfg.vrid /\ cfg'.adv_int # 0
      <4>1. /\ Filled(cfg, n, a, m) \in Partial
            /\ Filled(cfg, n, a, m).vrid = cfg.vrid
            /\ Filled(cfg, n, a, m).adv_int # 0
        <5> HIDE DEF OptionsInv
        <5>1. cfg \in Partial /\ n \in Nat /\ a \in Nat /\ m \in Nat
          BY <1>0, <2>1, <3>3
        <5>2. Filled(cfg, n, a, m) \in Partial
          BY <5>1, Completed
        <5>3. Filled(cfg, n, a, m).vrid = cfg.vrid
          BY <5>1, Completed
        <5>4. Filled(cfg, n, a, m).adv_int # 0
          BY <5>1, Completed
        <5> QED BY <5>2, <5>3, <5>4, SMTT(40)
      <4>2. cfg' = Filled(cfg, n, a, m)
        BY <3>1
      <4> QED BY <4>1, <4>2
    <3> QED BY <3>2, <3>4
  <2> QED BY <2>2, <2>3
<1>11. ASSUME Start PROVE OptionsInv'
  BY <1>11 DEF Start
<1>12. ASSUME UNCHANGED vars PROVE OptionsInv'
  BY <1>12 DEF vars
<1> QED BY <1>1, <1>2, <1>3, <1>4, <1>5, <1>6, <1>7, <1>8, <1>9, <1>10, <1>11, <1>12, ZenonT(60)
     DEF Next, Done

\* However many options are given, in whatever order and with whatever numbers,
\* and however many addresses: a daemon that gets to the loop of main has a
\* complete configuration, with an interval that is not 0 and a count of
\* addresses that did not wrap.
THEOREM ConfiguredWhenRunning == Spec => []RunningIsConfigured
<1>1. OptionsInv /\ [Next]_vars => OptionsInv'
  BY NextOptions
<1> QED BY <1>1, InitOptions, RunningComplete, PTL DEF Spec

================================================================================
