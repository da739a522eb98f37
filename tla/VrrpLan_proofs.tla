----------------------------- MODULE VrrpLan_proofs -----------------------------
(***************************************************************************)
(* Proofs about VrrpLan, for any set of routers, with any configurations   *)
(* and priorities, and any bounds on losses and faults.                    *)
(***************************************************************************)
EXTENDS VrrpLan, VrrpState_proofs

\* The buffers of router i: its priority, and the 0 it resigns with.
Own(i) == [priority |-> Priority[i], chksum |-> adv_checksum(Config[i], Priority[i])]
Zero(i) == [priority |-> 0, chksum |-> adv_checksum(Config[i], 0)]

Sends(i) == {Own(i), Zero(i)}

\* What the routers put on the wire.
PacketsOf(i) == {vrrp_adv_build(Config[i], b) : b \in Sends(i)}

Packets == UNION {PacketsOf(i) : i \in Routers}

\* The longest an instance v with configuration c waits.
Longest(c, v) ==
  IF c.start_delay > MASTERDOWN_INT(c, v) THEN c.start_delay ELSE MASTERDOWN_INT(c, v)

\* An instance of router i between two iterations.
Fit(i, v) ==
  /\ v \in Instances /\ Disciplined(v)
  /\ v.priority = Priority[i] /\ v.adv = Own(i)
  /\ v.state = "BACKUP" => v.masterdown_timer <= Longest(Config[i], v)

LanType ==
  /\ inst \in [Routers -> Instances] /\ up \subseteq Routers
  /\ sock \in [Routers -> Seq(Packets)]
  /\ orphan \in Nat
  /\ \A i \in Routers : Fit(i, inst[i]) /\ inst[i].out = <<>>

\* Time has passed without a master: every router waits, nothing is left in the
\* sockets that could make it wait longer, and the time that has passed is gone from
\* the time each waits.
Vacant ==
  \A i \in up :
    /\ inst[i].state = "BACKUP" /\ sock[i] = <<>>
    /\ orphan + inst[i].masterdown_timer <= Longest(Config[i], inst[i])

OutageInv == LanType /\ (orphan > 0 => Vacant)

--------------------------------------------------------------------------------
(* One router. *)

LEMMA RouterType ==
  ASSUME NEW i \in Routers
  PROVE  /\ Config[i] \in Configs /\ Priority[i] \in Priorities
         /\ Own(i) \in Buffers /\ Zero(i) \in Buffers
<1>1. Config[i] \in Configs /\ Priority[i] \in Priorities
  BY RoutersAssumption, ZenonT(60)
<1>2. 0 \in Priorities
  BY ByteFields DEF Priorities, Bytes
<1> QED BY <1>1, <1>2, BufferType, Zenon DEF Own, Zero

\* The bytes of an advertisement.
LEMMA PacketType ==
  ASSUME NEW p \in Packets
  PROVE  PacketOK(p)
<1>0. PICK i \in Routers : \E b \in Sends(i) : p = vrrp_adv_build(Config[i], b)
  BY Zenon DEF Packets, PacketsOf
<1>1. PICK b \in Sends(i) : p = vrrp_adv_build(Config[i], b)
  BY <1>0
<1>2. b.priority \in Priorities
  BY <1>1, RouterType, Zenon DEF Buffers, Sends
<1>3. /\ Config[i].adv_int \in 1..ADVINT_MAX
      /\ Config[i].auth_type = NOAUTH \/ Config[i].auth_type = SIMPLE
  BY RouterType, ZenonT(60) DEF Configs
<1>4. p.priority = b.priority /\ p.lo = Config[i].adv_int % 256
      /\ p.hi = IF Config[i].version = RFC3768 THEN Config[i].auth_type
                ELSE Config[i].adv_int \div 256
  BY <1>1, Zenon DEF vrrp_adv_build
<1>5. p.hi \in Bytes /\ p.lo \in Bytes
  <2> DEFINE h == Config[i].adv_int \div 256
             l == Config[i].adv_int % 256
  <2>1. h \in Bytes /\ l \in Bytes
    BY <1>3, ByteFields
  <2>2. p.lo = l /\ p.hi = IF Config[i].version = RFC3768 THEN Config[i].auth_type ELSE h
    BY <1>4
  <2> HIDE DEF h, l
  <2> QED BY <1>3, <2>1, <2>2, ByteFields, ZenonT(60)
<1> QED BY <1>2, <1>4, <1>5, Zenon DEF PacketOK, Bytes

LEMMA LongestType ==
  ASSUME NEW c \in Configs, NEW v \in Instances
  PROVE  /\ Longest(c, v) \in Nat
         /\ MASTERDOWN_INT(c, v) <= Longest(c, v) /\ c.start_delay <= Longest(c, v)
<1>1. MASTERDOWN_INT(c, v) \in Nat
  BY Delays, Zenon
<1>2. c.start_delay \in Nat
  BY ByteFields, ZenonT(60) DEF Configs
<1>3. \A m, s \in Nat : LET l == IF s > m THEN s ELSE m IN l \in Nat /\ m <= l /\ s <= l
  BY SMT
<1> QED BY <1>1, <1>2, <1>3, Zenon DEF Longest

LEMMA PatienceIs ==
  /\ \A i : Patience(i) = Longest(Config[i], inst[i])
  /\ \A i : Patience(i)' = Longest(Config[i], inst'[i])
BY Zenon DEF Patience, Longest

\* The handlers of router i leave a fit instance, and send only what they may.
LEMMA InitFit ==
  ASSUME NEW i \in Routers, Fit(i, inst[i]), inst[i].out = <<>>, inst[i].state = "INIT"
  PROVE  LET w == vrrp_state_init(Config[i], inst[i])
         IN  Fit(i, w) /\ Advertises(w.out, Sends(i))
<1> DEFINE c == Config[i]
           v == inst[i]
           w == vrrp_state_init(c, v)
<1>1. c \in Configs /\ v \in Instances /\ Disciplined(v) /\ v.adv = Own(i)
  BY RouterType, Zenon DEF Fit
<1>2. v.adv_timer = Cleared /\ v.masterdown_timer = Cleared
  BY <1>1, Zenon DEF Disciplined
<1>3. v.adv \in Sends(i) /\ Advertises(v.out, Sends(i))
  BY <1>1, EmptyLog, Zenon DEF Sends
<1>4. /\ w \in Instances
      /\ w.state = IF v.priority = PRIO_OWNER THEN "MASTER" ELSE "BACKUP"
      /\ w.priority = v.priority /\ w.adv = v.adv
      /\ w.state = "MASTER" => w.adv_timer \in Nat /\ w.masterdown_timer = Cleared
      /\ w.state = "BACKUP" =>
           /\ w.adv_timer = Cleared /\ w.masterdown_timer \in Nat
           /\ w.masterdown_timer = MASTERDOWN_INT(c, w) \/ w.masterdown_timer = c.start_delay
      /\ Advertises(w.out, Sends(i))
  BY <1>1, <1>2, <1>3, StateInitPost, Zenon
<1> HIDE DEF w
<1>5. Disciplined(w)
  BY <1>4, Zenon DEF Disciplined
<1>6. w.state = "BACKUP" => w.masterdown_timer <= Longest(c, w)
  BY <1>1, <1>4, LongestType, Zenon
<1> QED BY <1>1, <1>4, <1>5, <1>6, Zenon DEF Fit, w

LEMMA TimerFit ==
  ASSUME NEW i \in Routers, Fit(i, inst[i]), inst[i].out = <<>>, inst[i].state # "INIT"
  PROVE  LET w == OnTimer(Config[i], inst[i])
         IN  Fit(i, w) /\ Advertises(w.out, Sends(i)) /\ w.state = "MASTER"
<1> DEFINE c == Config[i]
           v == inst[i]
           w == OnTimer(c, v)
<1>1. /\ c \in Configs /\ v \in Instances /\ Disciplined(v) /\ v.adv = Own(i)
      /\ v.state # "INIT" /\ v.priority = Priority[i]
      /\ v.state = "BACKUP" => v.masterdown_timer <= Longest(c, v)
  BY RouterType, Zenon DEF Fit
<1>2. v.state = "MASTER" => v.masterdown_timer = Cleared
  BY <1>1, Zenon DEF Disciplined
<1>3. v.adv \in Sends(i) /\ Advertises(v.out, Sends(i))
  BY <1>1, EmptyLog, ZenonT(60) DEF Sends
<1> HIDE DEF c, v
<1>4. /\ w \in Instances /\ w.state = "MASTER"
      /\ w.priority = v.priority /\ w.adv = v.adv
      /\ w.adv_timer \in Nat /\ w.masterdown_timer = Cleared
      /\ Advertises(w.out, Sends(i))
  BY <1>1, <1>2, <1>3, OnTimerPost, SMTT(40)
<1> HIDE DEF w
<1>5. Disciplined(w)
  BY <1>4, Zenon DEF Disciplined
<1> QED BY <1>1, <1>4, <1>5, Zenon DEF Fit, w, c, v

LEMMA PktFit ==
  ASSUME NEW i \in Routers, Fit(i, inst[i]), inst[i].out = <<>>, inst[i].state # "INIT",
         NEW p \in Packets
  PROVE  LET w == OnPkt(Config[i], inst[i], p)
         IN  Fit(i, w) /\ Advertises(w.out, Sends(i))
<1> DEFINE c == Config[i]
           v == inst[i]
           w == OnPkt(c, v, p)
<1>1. /\ c \in Configs /\ v \in Instances /\ Disciplined(v) /\ v.adv = Own(i)
      /\ v.state # "INIT" /\ v.priority = Priority[i]
      /\ v.state = "BACKUP" => v.masterdown_timer <= Longest(c, v)
  BY RouterType, Zenon DEF Fit
<1>2. v.adv \in Sends(i) /\ Advertises(v.out, Sends(i))
  BY <1>1, EmptyLog, Zenon DEF Sends
<1> HIDE DEF c, v
<1>3. /\ w \in Instances /\ Disciplined(w)
      /\ w.priority = v.priority /\ w.adv = v.adv
      /\ w.state = "BACKUP" =>
           \/ w = v
           \/ w.masterdown_timer <= MASTERDOWN_INT(c, w)
           \/ w.masterdown_timer = c.start_delay
      /\ Advertises(w.out, Sends(i))
  BY <1>1, <1>2, PacketType, OnPktPost, ZenonT(60)
<1> HIDE DEF w
<1>4. w.state = "BACKUP" => w.masterdown_timer <= Longest(c, w)
  <2>1. SUFFICES ASSUME w.state = "BACKUP" PROVE w.masterdown_timer <= Longest(c, w)
    OBVIOUS
  <2>2. CASE w = v
    BY <1>1, <2>1, <2>2, Zenon
  <2>3. w.masterdown_timer \in Nat /\ MASTERDOWN_INT(c, w) \in Nat
    BY <1>1, <1>3, <2>1, Delays, ZenonT(60) DEF Disciplined
  <2>4. /\ Longest(c, w) \in Nat
        /\ MASTERDOWN_INT(c, w) <= Longest(c, w) /\ c.start_delay <= Longest(c, w)
    BY <1>1, <1>3, LongestType, Zenon
  <2>5. \A a, b, d \in Nat : a <= b /\ b <= d => a <= d
    BY SMT
  <2> QED BY <1>3, <2>1, <2>2, <2>3, <2>4, <2>5, Zenon
<1> QED BY <1>1, <1>3, <1>4, Zenon DEF Fit, w, c, v

LEMMA ReloadFit ==
  ASSUME NEW i \in Routers, Fit(i, inst[i]), inst[i].out = <<>>, inst[i].state # "INIT"
  PROVE  LET w == OnReload(Config[i], inst[i])
         IN  Fit(i, w) /\ Advertises(w.out, Sends(i))
<1> DEFINE c == Config[i]
           v == inst[i]
           w == OnReload(c, v)
<1>1. c \in Configs /\ v \in Instances /\ Disciplined(v) /\ v.adv = Own(i)
  BY RouterType, Zenon DEF Fit
<1>2. Zero(i) \in Sends(i) /\ Advertises(v.out, Sends(i))
  BY <1>1, EmptyLog, Zenon DEF Sends
<1>3. /\ w \in Instances /\ Disciplined(w)
      /\ w.state = "INIT" /\ w.priority = v.priority /\ w.adv = v.adv
      /\ Advertises(w.out, Sends(i))
  BY <1>1, <1>2, OnReloadPost, ZenonT(60) DEF Zero
<1> HIDE DEF w
<1> QED BY <1>1, <1>3, Zenon DEF Fit, w

LEMMA NewFit ==
  ASSUME NEW i \in Routers
  PROVE  LET w == NewInstance(Config[i], Priority[i])
         IN  Fit(i, w) /\ w.out = <<>> /\ w.state = "INIT"
BY RouterType, NewInstanceType, ZenonT(60) DEF Fit, Own

LEMMA ElapseFit ==
  ASSUME NEW i \in Routers, Fit(i, inst[i]), inst[i].state # "INIT", ~Expired(i)
  PROVE  LET w == Elapse(inst[i])
         IN  /\ Fit(i, w) /\ w.state = inst[i].state /\ w.out = inst[i].out
             /\ Longest(Config[i], w) = Longest(Config[i], inst[i])
             /\ w.state = "BACKUP" => w.masterdown_timer = inst[i].masterdown_timer - 1
<1> DEFINE c == Config[i]
           v == inst[i]
           w == Elapse(v)
<1>1. c \in Configs /\ v \in Instances /\ Disciplined(v) /\ v.adv = Own(i)
  BY RouterType, Zenon DEF Fit
<1>2. /\ w \in Instances /\ Disciplined(w)
      /\ w.state = v.state /\ w.priority = v.priority /\ w.adv = v.adv
      /\ w.out = v.out /\ w.master_adv_int = v.master_adv_int
      /\ v.masterdown_timer > 0 => w.masterdown_timer = v.masterdown_timer - 1
  BY <1>1, ElapsePost, Zenon
<1> HIDE DEF w
<1>3. Longest(c, w) = Longest(c, v)
  <2>1. MASTERDOWN_INT(c, w) = MASTERDOWN_INT(c, v)
    BY <1>2 DEF MASTERDOWN_INT, SKEW_TIME
  <2> QED BY <2>1, Zenon DEF Longest
<1>4. ASSUME v.state = "BACKUP"
      PROVE  /\ w.masterdown_timer = v.masterdown_timer - 1
             /\ w.masterdown_timer <= Longest(c, w)
  <2>1. v.masterdown_timer \in Nat /\ v.masterdown_timer # 0
    BY <1>1, <1>4, Zenon DEF Disciplined, Expired, CurrentTimer, vrrp_timer_is_running,
                             vrrp_timer_is_expired
  <2>2. \A t, l \in Nat : t # 0 => t > 0 /\ (t <= l => t - 1 <= l)
    BY SMT
  <2>3. v.masterdown_timer <= Longest(c, v) /\ Longest(c, v) \in Nat
    BY <1>1, <1>4, LongestType, ZenonT(60) DEF Fit
  <2> QED BY <1>2, <1>3, <2>1, <2>2, <2>3, Zenon
<1> QED BY <1>1, <1>2, <1>3, <1>4, Zenon DEF Fit, w

--------------------------------------------------------------------------------
(* The network. *)

LEMMA SentType ==
  ASSUME NEW i \in Routers, NEW w, Advertises(w.out, Sends(i))
  PROVE  Sent(Config[i], w) \in Seq(Packets)
<1>0. \A b \in Sends(i) : vrrp_adv_build(Config[i], b) \in Packets
  <2>1. \A p \in PacketsOf(i) : p \in Packets
    BY Zenon DEF Packets
  <2> QED BY <2>1, Zenon DEF PacketsOf
<1> DEFINE advs == {n \in 1..Len(w.out) : w.out[n].ev = "adv"}
           n == CHOOSE k \in advs : TRUE
           p == vrrp_adv_build(Config[i], w.out[n].adv)
<1>1. CASE advs = {}
  <2>1. Sent(Config[i], w) = <<>>
    BY <1>1, Zenon DEF Sent
  <2> QED BY <2>1
<1>2. CASE advs # {}
  <2>1. Sent(Config[i], w) = <<p>>
    BY <1>2, Zenon DEF Sent
  <2>2. n \in advs
    BY <1>2, Zenon
  <2>3. w.out[n].adv \in Sends(i)
    BY <2>2, Zenon DEF Advertises
  <2>4. p \in Packets
    BY <1>0, <2>3, Zenon
  <2> HIDE DEF p
  <2>5. <<p>> \in Seq(Packets)
    BY <2>4
  <2> QED BY <2>1, <2>5
<1> QED BY <1>1, <1>2

LEMMA StepPost ==
  ASSUME LanType, NEW i \in Routers, NEW w, Fit(i, w), Advertises(w.out, Sends(i)),
         NEW queue \in Seq(Packets), Step(i, w, queue)
  PROVE  /\ inst' \in [Routers -> Instances] /\ sock' \in [Routers -> Seq(Packets)]
         /\ \A j \in Routers : Fit(j, inst'[j]) /\ inst'[j].out = <<>>
         /\ inst'[i].state = w.state
         /\ \A j \in Routers \ {i} : inst'[j] = inst[j]
<1> DEFINE x == [w EXCEPT !.out = <<>>]
           s == Sent(Config[i], w)
<1>1. PICK deaf \in SUBSET (up \ {i}) :
        /\ inst' = [inst EXCEPT ![i] = x]
        /\ sock' = [j \in Routers |-> IF j = i THEN queue
                                      ELSE IF j \in up \ deaf THEN sock[j] \o s ELSE sock[j]]
  BY Zenon DEF Step
<1>2. s \in Seq(Packets)
  BY SentType, Zenon
<1>3. /\ x \in Instances /\ x.out = <<>> /\ x.state = w.state /\ x.priority = w.priority
      /\ x.adv = w.adv /\ x.adv_timer = w.adv_timer
      /\ x.masterdown_timer = w.masterdown_timer /\ x.master_adv_int = w.master_adv_int
  BY EmptyLog, ZenonT(60) DEF Fit, Instances
<1> HIDE DEF x, s
<1>4. Fit(i, x)
  <2>1. MASTERDOWN_INT(Config[i], x) = MASTERDOWN_INT(Config[i], w)
    BY <1>3 DEF MASTERDOWN_INT, SKEW_TIME
  <2>2. Longest(Config[i], x) = Longest(Config[i], w)
    BY <2>1, Zenon DEF Longest
  <2>3. Disciplined(x)
    BY <1>3, Zenon DEF Fit, Disciplined
  <2> QED BY <1>3, <2>2, <2>3, ZenonT(60) DEF Fit
<1>5. /\ inst'[i] = x /\ inst' \in [Routers -> Instances]
      /\ \A j \in Routers \ {i} : inst'[j] = inst[j]
  BY <1>1, <1>3, Zenon DEF LanType
<1>6. sock' \in [Routers -> Seq(Packets)]
  <2>1. \A j \in Routers : sock[j] \in Seq(Packets)
    BY Zenon DEF LanType
  <2>2. \A q \in Seq(Packets) : q \o s \in Seq(Packets)
    BY <1>2
  <2> QED BY <1>1, <2>1, <2>2, ZenonT(60)
<1> QED BY <1>3, <1>4, <1>5, <1>6, ZenonT(60) DEF LanType

\* An iteration of the loop does not prolong an outage.
LEMMA LoopOutage ==
  ASSUME OutageInv, NEW i \in Routers, i \in up, NEW w, Fit(i, w),
         Advertises(w.out, Sends(i)), NEW queue \in Seq(Packets), Step(i, w, queue),
         UNCHANGED up, Watch(0, FALSE),
         Vacant => w.state = "MASTER"
  PROVE  OutageInv'
<1>1. /\ inst' \in [Routers -> Instances] /\ sock' \in [Routers -> Seq(Packets)]
      /\ \A j \in Routers : Fit(j, inst'[j]) /\ inst'[j].out = <<>>
      /\ inst'[i].state = w.state
  BY StepPost, Zenon DEF OutageInv
<1>2. orphan' = IF Masters' = {} THEN orphan + 0 ELSE 0
  BY Zenon DEF Watch
<1>3. orphan \in Nat /\ orphan + 0 = orphan
  BY SMT DEF OutageInv, LanType
<1>4. LanType'
  BY <1>1, <1>2, <1>3, ZenonT(60) DEF OutageInv, LanType
<1>5. CASE Vacant
  <2>1. i \in Masters'
    BY <1>1, <1>5, Zenon DEF Masters
  <2>2. orphan' = 0
    BY <1>2, <2>1, Zenon
  <2>3. ~(orphan' > 0)
    BY <2>2, SMTT(40)
  <2> QED BY <1>4, <2>3, Zenon DEF OutageInv
<1>6. CASE ~Vacant
  <2>1. ~(orphan > 0)
    BY <1>6, Zenon DEF OutageInv
  <2>2. ~(orphan' > 0)
    BY <1>2, <1>3, <2>1, SMTT(40)
  <2> QED BY <1>4, <2>2, Zenon DEF OutageInv
<1> QED BY <1>5, <1>6

LEMMA NextOutage == OutageInv /\ [Next]_vars => OutageInv'
<1> SUFFICES ASSUME OutageInv, [Next]_vars PROVE OutageInv'
  OBVIOUS
<1>0. /\ LanType /\ (orphan > 0 => Vacant) /\ orphan \in Nat /\ up \subseteq Routers
      /\ inst \in [Routers -> Instances] /\ sock \in [Routers -> Seq(Packets)]
      /\ \A i \in Routers : Fit(i, inst[i]) /\ inst[i].out = <<>> /\ sock[i] \in Seq(Packets)
  BY Zenon DEF OutageInv, LanType
<1>1. ASSUME NEW i \in Routers, StateInit(i) PROVE OutageInv'
  <2> DEFINE w == vrrp_state_init(Config[i], inst[i])
  <2>1. /\ i \in up /\ inst[i].state = "INIT" /\ Step(i, w, sock[i]) /\ UNCHANGED up
        /\ Watch(0, FALSE)
    BY <1>1, Zenon DEF StateInit
  <2>2. Fit(i, w) /\ Advertises(w.out, Sends(i))
    BY <1>0, <2>1, InitFit, ZenonT(60)
  <2>3. ~Vacant
    BY <2>1, ZenonT(60) DEF Vacant
  <2> HIDE DEF w
  <2> QED BY <1>0, <2>1, <2>2, <2>3, LoopOutage, ZenonT(60)
<1>2. ASSUME NEW i \in Routers, Timer(i) PROVE OutageInv'
  <2> DEFINE w == OnTimer(Config[i], inst[i])
  <2>1. /\ i \in up /\ inst[i].state # "INIT" /\ Step(i, w, sock[i]) /\ UNCHANGED up
        /\ Watch(0, FALSE)
    BY <1>2, ZenonT(60) DEF Timer
  <2>2. Fit(i, w) /\ Advertises(w.out, Sends(i)) /\ w.state = "MASTER"
    BY <1>0, <2>1, TimerFit, ZenonT(60)
  <2> HIDE DEF w
  <2> QED BY <1>0, <2>1, <2>2, LoopOutage, ZenonT(60)
<1>3. ASSUME NEW i \in Routers, Recv(i) PROVE OutageInv'
  <2> DEFINE p == Head(sock[i])
             q == Tail(sock[i])
             w == OnPkt(Config[i], inst[i], p)
  <2>1. /\ i \in up /\ inst[i].state # "INIT" /\ sock[i] # <<>> /\ Step(i, w, q)
        /\ UNCHANGED up /\ Watch(0, FALSE)
    BY <1>3, Zenon DEF Recv
  <2>2. \A s \in Seq(Packets) : s # <<>> => Head(s) \in Packets /\ Tail(s) \in Seq(Packets)
    OBVIOUS
  <2>3. p \in Packets /\ q \in Seq(Packets)
    BY <1>0, <2>1, <2>2, ZenonT(60)
  <2> HIDE DEF p, q
  <2>4. Fit(i, w) /\ Advertises(w.out, Sends(i))
    BY <1>0, <2>1, <2>3, PktFit, ZenonT(60)
  <2>5. ~Vacant
    BY <2>1, Zenon DEF Vacant
  <2> HIDE DEF w
  <2> QED BY <1>0, <2>1, <2>3, <2>4, <2>5, LoopOutage, ZenonT(60)
\* a router that starts, reloads, stops or crashes
<1>4. ASSUME LanType', orphan' = 0 PROVE OutageInv'
  <2>1. ~(orphan' > 0)
    BY <1>4, SMT
  <2> QED BY <1>4, <2>1, Zenon DEF OutageInv
<1>5. ASSUME Watch(0, TRUE) PROVE orphan' = 0 /\ orphan' \in Nat
  BY <1>5, Zenon DEF Watch
<1>6. ASSUME NEW i \in Routers, Start(i) PROVE OutageInv'
  <2> DEFINE x == NewInstance(Config[i], Priority[i])
  <2>1. /\ inst' = [inst EXCEPT ![i] = x] /\ up' = up \cup {i} /\ sock' = sock /\ Watch(0, TRUE)
    BY <1>6, ZenonT(60) DEF Start
  <2>2. Fit(i, x) /\ x.out = <<>> /\ x \in Instances
    BY NewFit, Zenon DEF Fit
  <2> HIDE DEF x
  <2>3. inst' \in [Routers -> Instances]
        /\ \A j \in Routers : Fit(j, inst'[j]) /\ inst'[j].out = <<>>
    BY <1>0, <2>1, <2>2, ZenonT(60)
  <2>4. LanType'
    BY <1>0, <1>5, <2>1, <2>3, ZenonT(60) DEF LanType
  <2> QED BY <1>4, <1>5, <2>1, <2>4, SMTT(40)
<1>7. ASSUME NEW i \in Routers, Reload(i) \/ Stop(i) PROVE OutageInv'
  <2> DEFINE w == OnReload(Config[i], inst[i])
  <2>1. /\ inst[i].state # "INIT" /\ Step(i, w, sock[i]) /\ Watch(0, TRUE)
        /\ up' = up \/ up' = up \ {i}
    BY <1>7, Zenon DEF Reload, Stop
  <2>2. Fit(i, w) /\ Advertises(w.out, Sends(i))
    BY <1>0, <2>1, ReloadFit, ZenonT(60)
  <2> HIDE DEF w
  <2>3. /\ inst' \in [Routers -> Instances] /\ sock' \in [Routers -> Seq(Packets)]
        /\ \A j \in Routers : Fit(j, inst'[j]) /\ inst'[j].out = <<>>
    BY <1>0, <2>1, <2>2, StepPost, ZenonT(60)
  <2>4. up' \subseteq Routers
    BY <1>0, <2>1, ZenonT(60)
  <2>5. LanType'
    BY <1>5, <2>1, <2>3, <2>4, ZenonT(60) DEF LanType
  <2> QED BY <1>4, <1>5, <2>1, <2>5, SMTT(40)
<1>8. ASSUME NEW i \in Routers, Crash(i) PROVE OutageInv'
  <2> DEFINE x == NewInstance(Config[i], Priority[i])
  <2>1. /\ inst' = [inst EXCEPT ![i] = x] /\ up' = up \ {i} /\ Watch(0, TRUE)
        /\ sock' = [sock EXCEPT ![i] = <<>>]
    BY <1>8, ZenonT(60) DEF Crash
  <2>2. Fit(i, x) /\ x.out = <<>> /\ x \in Instances
    BY NewFit, Zenon DEF Fit
  <2> HIDE DEF x
  <2>3. inst' \in [Routers -> Instances]
        /\ \A j \in Routers : Fit(j, inst'[j]) /\ inst'[j].out = <<>>
    BY <1>0, <2>1, <2>2, ZenonT(60)
  <2>4. <<>> \in Seq(Packets)
    OBVIOUS
  <2>5. sock' \in [Routers -> Seq(Packets)] /\ up' \subseteq Routers
    BY <1>0, <2>1, <2>4, ZenonT(60)
  <2>6. LanType'
    BY <1>5, <2>1, <2>3, <2>5, ZenonT(60) DEF LanType
  <2> QED BY <1>4, <1>5, <2>1, <2>6, SMTT(40)
<1>9. CASE Tick
  <2>1. /\ inst' = [i \in Routers |-> IF i \in up THEN Elapse(inst[i]) ELSE inst[i]]
        /\ up' = up /\ sock' = sock /\ Idle
        /\ orphan' = IF Masters' = {} THEN orphan + 1 ELSE 0
    BY <1>9, Zenon DEF Tick, Watch
  <2>2. ASSUME NEW i \in up
        PROVE  /\ Fit(i, inst'[i]) /\ inst'[i].state = inst[i].state /\ inst'[i].out = <<>>
               /\ Longest(Config[i], inst'[i]) = Longest(Config[i], inst[i])
               /\ inst[i].state = "BACKUP" =>
                    inst'[i].masterdown_timer = inst[i].masterdown_timer - 1
    <3>1. inst[i].state # "INIT" /\ ~Expired(i) /\ i \in Routers
      BY <1>0, <2>1, Zenon DEF Idle
    <3>2. inst'[i] = Elapse(inst[i])
      BY <2>1, <3>1, Zenon
    <3> QED BY <1>0, <3>1, <3>2, ElapseFit, ZenonT(60)
  <2>3. \A i \in Routers : Fit(i, inst'[i]) /\ inst'[i].out = <<>>
    BY <1>0, <2>1, <2>2, Zenon
  <2>4. inst' \in [Routers -> Instances]
    BY <2>1, <2>3, Zenon DEF Fit
  <2>5. orphan' \in Nat /\ orphan + 1 \in Nat
    BY <1>0, <2>1, SMT
  <2>6. LanType'
    BY <1>0, <2>1, <2>3, <2>4, <2>5, ZenonT(60) DEF LanType
  <2>7. ASSUME Masters' = {} PROVE Vacant'
    <3>1. SUFFICES ASSUME NEW i \in up
                   PROVE  /\ inst'[i].state = "BACKUP" /\ sock'[i] = <<>>
                          /\ orphan' + inst'[i].masterdown_timer <= Longest(Config[i], inst'[i])
      BY <2>1, Zenon DEF Vacant
    <3>2. inst'[i].state # "MASTER"
      BY <2>1, <2>7, <3>1, ZenonT(60) DEF Masters
    <3>3. inst[i].state = "BACKUP" /\ inst'[i].state = "BACKUP"
      <4>1. inst[i].state \in States /\ inst[i].state # "INIT"
        BY <1>0, <2>1, ZenonT(60) DEF Idle, Instances
      <4> QED BY <2>2, <3>2, <4>1, ZenonT(60) DEF States
    <3>4. sock'[i] = <<>>
      BY <2>1, Zenon DEF Idle
    <3>5. inst[i].masterdown_timer \in Nat
      BY <1>0, <3>3, ZenonT(60) DEF Fit, Disciplined
    <3>6. Longest(Config[i], inst[i]) \in Nat
      BY <1>0, RouterType, LongestType, ZenonT(60)
    <3>7. orphan + inst[i].masterdown_timer <= Longest(Config[i], inst[i])
      <4>1. CASE orphan > 0
        BY <1>0, <4>1, Zenon DEF Vacant
      <4>2. CASE ~(orphan > 0)
        <5>1. orphan = 0
          BY <1>0, <4>2, SMT
        <5>2. inst[i].masterdown_timer <= Longest(Config[i], inst[i])
          BY <1>0, <3>3, Zenon DEF Fit
        <5>3. 0 + inst[i].masterdown_timer = inst[i].masterdown_timer
          BY <3>5, SMT
        <5> QED BY <5>1, <5>2, <5>3, ZenonT(60)
      <4> QED BY <4>1, <4>2
    <3>8. \A o, t, l \in Nat : o + t <= l => (o + 1) + (t - 1) <= l
      BY SMT
    <3>9. (orphan + 1) + (inst[i].masterdown_timer - 1) <= Longest(Config[i], inst[i])
      BY <1>0, <3>5, <3>6, <3>7, <3>8, ZenonT(60)
    <3> QED BY <2>1, <2>2, <2>7, <3>3, <3>4, <3>9, ZenonT(60)
  <2>8. CASE Masters' = {}
    BY <2>6, <2>7, <2>8, ZenonT(60) DEF OutageInv
  <2>9. CASE Masters' # {}
    BY <1>4, <2>1, <2>6, <2>9
  <2> QED BY <2>8, <2>9
<1>10. CASE UNCHANGED vars
  BY <1>0, <1>10, Zenon DEF OutageInv, LanType, Vacant, vars
<1> QED
  BY <1>1, <1>2, <1>3, <1>6, <1>7, <1>8, <1>9, <1>10, ZenonT(60) DEF Next, Loop

LEMMA InitOutage == Init => OutageInv
<1> SUFFICES ASSUME Init PROVE OutageInv
  OBVIOUS
<1>1. \A i \in Routers : Fit(i, inst[i]) /\ inst[i].out = <<>>
  BY NewFit, Zenon DEF Init
<1>2. inst \in [Routers -> Instances]
  BY <1>1, Zenon DEF Init, Fit
<1>3. <<>> \in Seq(Packets)
  OBVIOUS
<1>4. sock \in [Routers -> Seq(Packets)] /\ up \subseteq Routers /\ orphan = 0
  BY <1>3, Zenon DEF Init
<1>5. orphan \in Nat /\ ~(orphan > 0)
  BY <1>4, SMT
<1> QED BY <1>1, <1>2, <1>4, <1>5, ZenonT(60) DEF OutageInv, LanType

\* The addresses are without a master for no longer than the least patient router
\* that runs waits, for any routers, losses and faults: vrrp_state_backup arms the
\* masterdown timer with no more than that, and nothing arms it again once there is no
\* master to send packets.
THEOREM OutageIsBounded == Spec => []OutageBounded
<1>1. OutageInv => OutageBounded
  <2> SUFFICES ASSUME OutageInv, NEW i \in up PROVE orphan <= Patience(i)
    BY Zenon DEF OutageBounded
  <2>1. orphan \in Nat /\ i \in Routers /\ Fit(i, inst[i])
    BY Zenon DEF OutageInv, LanType
  <2>2. Longest(Config[i], inst[i]) \in Nat /\ Patience(i) = Longest(Config[i], inst[i])
    BY <2>1, RouterType, LongestType, PatienceIs, ZenonT(60) DEF Fit
  <2>3. CASE orphan > 0
    <3>1. inst[i].masterdown_timer \in Nat
          /\ orphan + inst[i].masterdown_timer <= Longest(Config[i], inst[i])
      BY <2>1, <2>3, Zenon DEF OutageInv, Vacant, Fit, Disciplined
    <3>2. \A o, t, l \in Nat : o + t <= l => o <= l
      BY SMT
    <3> QED BY <2>1, <2>2, <3>1, <3>2, ZenonT(60)
  <2>4. CASE ~(orphan > 0)
    <3>1. \A o, l \in Nat : ~(o > 0) => o <= l
      BY SMT
    <3> QED BY <2>1, <2>2, <2>4, <3>1, ZenonT(60)
  <2> QED BY <2>3, <2>4
<1> QED BY <1>1, InitOutage, NextOutage, PTL DEF Spec

--------------------------------------------------------------------------------
(* Routers of one group: the interval they keep, and what each iteration sends. *)

\* The delay at the start is none or longer than an interval.
Waits(c) == c.start_delay = 0 \/ c.start_delay > c.adv_int

LEMMA DownLong ==
  ASSUME NEW c, Plain(c), NEW v \in Instances, v.master_adv_int = c.adv_int
  PROVE  MASTERDOWN_INT(c, v) > c.adv_int
<1>1. c \in Configs /\ c.adv_int \in Nat /\ c.adv_int > 0
  BY IntervalKept, Zenon DEF Plain
<1>2. SKEW_TIME(c, v) \in Nat
  BY <1>1, Delays, Zenon
<1>3. \A n, s \in Nat : n > 0 => 3 * n + s > n
  BY SMT
<1> QED BY <1>1, <1>2, <1>3, ZenonT(60) DEF MASTERDOWN_INT

LEMMA GotoMasterSteady ==
  ASSUME NEW c \in Configs, NEW v \in Instances, v.master_adv_int = c.adv_int
  PROVE  LET w == vrrp_state_goto_master(c, v)
         IN  /\ w.master_adv_int = c.adv_int /\ w.adv_timer = c.adv_int
             /\ ~Advertises(w.out, {})
<1> DEFINE o1 == Append(v.out, Adv(v.adv))
           o2 == Append(o1, Topology)
           o3 == Append(o2, Hook("master"))
           t == IF c.version = RFC5798 THEN v.master_adv_int ELSE c.adv_int
           w == vrrp_state_goto_master(c, v)
<1>1. w = [v EXCEPT !.state = "MASTER", !.out = o3, !.masterdown_timer = Cleared,
                    !.adv_timer = t]
  BY ZenonT(60) DEF vrrp_state_goto_master, vrrp_adv_send, Emit, VRRP_SET_ADV_TIMER, Instances
<1>2. t = c.adv_int
  BY Zenon
<1>3. v.out \in Seq(Effects) /\ v.adv \in Buffers
  BY Zenon DEF Instances
<1> HIDE DEF o1, o2, o3, t, w
<1>4. o1 \in Seq(Effects) /\ ~Advertises(o1, {})
  <2>1. /\ o1 \in Seq(Effects)
        /\ \A A : Advertises(o1, A) <=> (Advertises(v.out, A) /\ v.adv \in A)
    BY <1>3, AppendEffect, EffectKinds, SMTT(40) DEF o1
  <2> QED BY <2>1, Zenon
<1>5. o2 \in Seq(Effects) /\ ~Advertises(o2, {})
  BY <1>4, AppendEffect, EffectKinds, ZenonT(60) DEF o2
<1>6. ~Advertises(o3, {})
  BY <1>5, AppendEffect, EffectKinds, ZenonT(60) DEF o3
<1>7. w.out = o3 /\ w.master_adv_int = v.master_adv_int /\ w.adv_timer = t
  BY <1>1, ZenonT(60) DEF Instances
<1> QED BY <1>2, <1>6, <1>7, ZenonT(60) DEF w

LEMMA GotoBackupSteady ==
  ASSUME NEW c, Plain(c), NEW v \in Instances, v.master_adv_int = c.adv_int,
         v.state = "INIT" => Waits(c)
  PROVE  LET w == vrrp_state_goto_backup(c, v, c.adv_int)
         IN  w.master_adv_int = c.adv_int /\ w.masterdown_timer > c.adv_int
<1> DEFINE o == IF v.state = "INIT" THEN v.out ELSE Append(v.out, Hook("backup"))
           b == [v EXCEPT !.out = o, !.state = "BACKUP", !.adv_timer = Cleared,
                          !.master_adv_int = c.adv_int]
           t == IF v.state = "INIT" /\ c.start_delay # 0 THEN c.start_delay
                ELSE MASTERDOWN_INT(c, b)
           w == vrrp_state_goto_backup(c, v, c.adv_int)
<1>0. c \in Configs /\ c.adv_int \in Nat
  BY IntervalKept, Zenon DEF Plain
<1>1. w = [b EXCEPT !.masterdown_timer = t]
  <2>1. CASE v.state = "INIT"
    BY ZenonT(60), <2>1 DEF vrrp_state_goto_backup, VRRP_SET_STARTDELAY_TIMER,
                VRRP_SET_MASTERDOWN_TIMER, Instances
  <2>2. CASE v.state # "INIT"
    BY <2>2, ZenonT(60) DEF vrrp_state_goto_backup, VRRP_SET_MASTERDOWN_TIMER, Emit, Instances
  <2> QED BY <2>1, <2>2
<1>2. o \in Seq(Effects)
  BY AppendEffect, EffectKinds, Zenon DEF Instances
<1> HIDE DEF o, w
<1>3. b \in Instances /\ b.master_adv_int = c.adv_int
  BY <1>0, <1>2, ZenonT(60) DEF Instances, States, Timers
<1> HIDE DEF b
<1>4. t > c.adv_int
  BY <1>3, DownLong, ZenonT(60) DEF Waits
<1> HIDE DEF t
<1>5. w.masterdown_timer = t /\ w.master_adv_int = b.master_adv_int
  BY <1>1, <1>3, ZenonT(60) DEF Instances
<1> QED BY <1>3, <1>4, <1>5, ZenonT(60) DEF w

LEMMA InitSteady ==
  ASSUME NEW c, Plain(c), Waits(c), NEW v \in Instances, v.state = "INIT", Disciplined(v),
         v.out = <<>>
  PROVE  LET w == vrrp_state_init(c, v)
         IN  /\ w.master_adv_int = c.adv_int
             /\ v.priority = PRIO_OWNER => w.adv_timer = c.adv_int /\ ~Advertises(w.out, {})
             /\ v.priority # PRIO_OWNER =>
                  w.masterdown_timer > c.adv_int /\ Advertises(w.out, {})
<1> DEFINE o == Append(v.out, Hook("init"))
           u == [v EXCEPT !.out = o, !.master_adv_int = c.adv_int]
           w == vrrp_state_init(c, v)
<1>0. c \in Configs /\ c.adv_int \in Nat
  BY IntervalKept, ZenonT(60) DEF Plain
<1>1. o \in Seq(Effects) /\ \A A : Advertises(o, A) <=> Advertises(v.out, A)
  BY AppendEffect, EffectKinds, ZenonT(60) DEF Instances
<1>2. w = IF u.priority = PRIO_OWNER THEN vrrp_state_goto_master(c, u)
          ELSE vrrp_state_goto_backup(c, u, c.adv_int)
  BY DEF vrrp_state_init, Emit, Instances
<1>3. Advertises(o, {})
  BY <1>1, EmptyLog, Zenon
<1> HIDE DEF o, w
<1>4. /\ u \in Instances /\ u.out = o /\ u.state = "INIT" /\ u.master_adv_int = c.adv_int
      /\ u.priority = v.priority
  BY <1>0, <1>1, ZenonT(60) DEF Instances
<1> HIDE DEF u
<1>5. CASE v.priority = PRIO_OWNER
  <2>1. w = vrrp_state_goto_master(c, u)
    BY <1>2, <1>4, <1>5, ZenonT(60)
  <2> QED BY <1>0, <1>4, <1>5, <2>1, GotoMasterSteady, Zenon DEF w
<1>6. CASE v.priority # PRIO_OWNER
  <2>1. w = vrrp_state_goto_backup(c, u, c.adv_int)
    BY <1>2, <1>4, <1>6, ZenonT(60)
  <2>2. w.master_adv_int = c.adv_int /\ w.masterdown_timer > c.adv_int
    BY <1>4, <2>1, GotoBackupSteady, ZenonT(60)
  <2>3. \A A : Advertises(u.out, A) => Advertises(w.out, A)
    BY <1>0, <1>4, <2>1, GotoBackup, ZenonT(60)
  <2> QED BY <1>3, <1>4, <1>6, <2>2, <2>3, ZenonT(60) DEF w
<1> QED BY <1>5, <1>6

LEMMA TimerSteady ==
  ASSUME NEW c \in Configs, NEW v \in Instances, v.state # "INIT",
         v.master_adv_int = c.adv_int
  PROVE  LET w == OnTimer(c, v)
         IN  /\ w.master_adv_int = c.adv_int /\ w.adv_timer = c.adv_int
             /\ ~Advertises(w.out, {})
<1>1. CASE v.state = "BACKUP"
  BY <1>1, GotoMasterSteady, ZenonT(60) DEF OnTimer, BackupTimer
<1>2. CASE v.state # "BACKUP"
  <2> DEFINE o == Append(v.out, Adv(v.adv))
             t == IF c.version = RFC5798 THEN v.master_adv_int ELSE c.adv_int
             w == OnTimer(c, v)
  <2>1. w = [v EXCEPT !.out = o, !.adv_timer = t]
    BY <1>2, Zenon DEF OnTimer, MasterTimer, vrrp_adv_send, Emit, VRRP_SET_ADV_TIMER, Instances
  <2>2. t = c.adv_int
    BY Zenon
  <2>3. \A A : Advertises(o, A) <=> (Advertises(v.out, A) /\ v.adv \in A)
    <3>1. v.out \in Seq(Effects) /\ v.adv \in Buffers
      BY Zenon DEF Instances
    <3> QED BY <3>1, AppendEffect, EffectKinds
  <2> HIDE DEF o, t, w
  <2>4. w.out = o /\ w.master_adv_int = v.master_adv_int /\ w.adv_timer = t
    BY <2>1, ZenonT(60) DEF Instances
  <2> QED BY <2>2, <2>3, <2>4, ZenonT(60) DEF w
<1> QED BY <1>1, <1>2

\* A backup that hears a router of its group.
LEMMA BackupPktSteady ==
  ASSUME NEW c, Plain(c), NEW v \in Instances, v.state = "BACKUP",
         v.master_adv_int = c.adv_int, NEW p, vrrp_adv_get_advint(p) = c.adv_int
  PROVE  LET w == BackupPkt(c, v, p)
         IN  /\ w.master_adv_int = c.adv_int
             /\ p.priority # 0 =>
                  /\ w = v \/ w.masterdown_timer > c.adv_int
                  /\ ~c.preempt \/ p.priority >= v.priority =>
                       w.masterdown_timer > c.adv_int
<1> DEFINE w == BackupPkt(c, v, p)
           u == IF c.version = RFC5798 THEN [v EXCEPT !.master_adv_int = c.adv_int] ELSE v
           x == [u EXCEPT !.masterdown_timer = MASTERDOWN_INT(c, u)]
<1>0. c \in Configs /\ c.adv_int \in Nat
  BY IntervalKept, Zenon DEF Plain
<1>1. w = IF p.priority = 0 THEN [v EXCEPT !.masterdown_timer = SKEW_TIME(c, v)]
          ELSE IF ~c.preempt \/ p.priority >= v.priority THEN x ELSE v
  BY Zenon DEF BackupPkt, VRRP_SET_SKEW_TIME, VRRP_SET_MASTERDOWN_TIMER
<1> HIDE DEF w
<1>2. u \in Instances /\ u.master_adv_int = c.adv_int
  BY <1>0, ZenonT(60) DEF Instances
<1> HIDE DEF u
<1>3. x.master_adv_int = c.adv_int /\ x.masterdown_timer = MASTERDOWN_INT(c, u)
  BY <1>2, ZenonT(60) DEF Instances
<1>4. x.masterdown_timer > c.adv_int
  BY <1>2, <1>3, DownLong, ZenonT(60)
<1> HIDE DEF x
<1>5. CASE p.priority = 0
  <2>1. w = [v EXCEPT !.masterdown_timer = SKEW_TIME(c, v)]
    BY <1>1, <1>5, ZenonT(60)
  <2>2. w.master_adv_int = v.master_adv_int
    BY <2>1, ZenonT(60) DEF Instances
  <2> QED BY <1>5, <2>2, ZenonT(60) DEF w
<1>6. CASE p.priority # 0
  BY <1>1, <1>3, <1>4, <1>6, ZenonT(60) DEF w
<1> QED BY <1>5, <1>6

--------------------------------------------------------------------------------
(* Masters of one group. *)

\* The packets of router i.
OwnAdv(i) == vrrp_adv_build(Config[i], Own(i))
ZeroAdv(i) == vrrp_adv_build(Config[i], Zero(i))

\* Router j, as a master that hears router i, gives way.
Beats(i, j) ==
  \/ Priority[i] > Priority[j]
  \/ /\ Priority[i] = Priority[j]
     /\ ipx_cmp(Config[j], Config[i].addr, Config[j].addr) > 0

\* Router j, as a backup that hears router i, takes no notice.
Preempts(j, i) == Config[j].preempt /\ Priority[j] > Priority[i]

\* The routers are one group: plain configurations that are alike, a start delay
\* that leaves time to hear a master, no priority 0, which would read as a
\* resignation, one owner at most, and no two routers that would both stay master.
Group ==
  /\ \A i \in Routers : Plain(Config[i]) /\ Waits(Config[i]) /\ Priority[i] # 0
  /\ \A i, j \in Routers : Alike(Config[i], Config[j])
  /\ \A i, j \in Routers : Priority[i] = PRIO_OWNER /\ Priority[j] = PRIO_OWNER => i = j
  /\ \A i, j \in Routers : i = j \/ Beats(i, j) \/ Beats(j, i)

\* A resignation waits in the queue q.
Resigned(q) == \E n \in 1..Len(q) : q[n].priority = 0

\* An advertisement of router i waits in q, and no resignation behind it.
Announced(i, q) ==
  \E n \in 1..Len(q) :
    q[n] = OwnAdv(i) /\ \A m \in 1..Len(q) : m > n => q[m].priority # 0

LEMMA Appended ==
  ASSUME NEW S, NEW q \in Seq(S), NEW p \in S, NEW i
  PROVE  /\ Resigned(q \o <<p>>) <=> Resigned(q) \/ p.priority = 0
         /\ p = OwnAdv(i) => Announced(i, q \o <<p>>)
         /\ Announced(i, q) /\ p.priority # 0 => Announced(i, q \o <<p>>)
<1> DEFINE t == q \o <<p>>
           k == Len(q)
<1>1. /\ k \in Nat /\ Len(t) = k + 1 /\ t[k + 1] = p
      /\ \A n \in 1..k : t[n] = q[n]
  OBVIOUS
<1> HIDE DEF t, k
<1>2. Resigned(t) <=> Resigned(q) \/ p.priority = 0
  BY <1>1, SMTT(40) DEF Resigned, k
<1>3. p = OwnAdv(i) => Announced(i, t)
  BY <1>1, SMTT(40) DEF Announced
<1>4. Announced(i, q) /\ p.priority # 0 => Announced(i, t)
  BY <1>1, SMTT(40) DEF Announced, k
<1> QED BY <1>2, <1>3, <1>4, SMTT(40) DEF t

LEMMA Dequeued ==
  ASSUME NEW S, NEW q \in Seq(S), q # <<>>, NEW i
  PROVE  /\ Resigned(q) <=> Head(q).priority = 0 \/ Resigned(Tail(q))
         /\ Announced(i, q) =>
              Announced(i, Tail(q)) \/ (Head(q) = OwnAdv(i) /\ ~Resigned(Tail(q)))
<1> DEFINE t == Tail(q)
           k == Len(t)
           p == Head(q)
<1>1. /\ k \in Nat /\ Len(q) = k + 1 /\ q[1] = p
      /\ \A n \in 1..k : t[n] = q[n + 1]
  OBVIOUS
<1> HIDE DEF t, k, p
<1>2. Resigned(q) <=> p.priority = 0 \/ Resigned(t)
  <2>1. \A n \in 1..(k + 1) : n = 1 \/ (n - 1 \in 1..k /\ t[n - 1] = q[n])
    BY <1>1, SMT
  <2>2. 1 \in 1..(k + 1) /\ \A n \in 1..k : n + 1 \in 1..(k + 1)
    BY <1>1, SMT
  <2> QED BY <1>1, <2>1, <2>2, SMTT(40) DEF Resigned, k
<1>3. ASSUME Announced(i, q) PROVE Announced(i, t) \/ (p = OwnAdv(i) /\ ~Resigned(t))
  <2>1. PICK n \in 1..(k + 1) :
          q[n] = OwnAdv(i) /\ \A m \in 1..(k + 1) : m > n => q[m].priority # 0
    BY <1>1, <1>3, ZenonT(60) DEF Announced
  <2>2. CASE n = 1
    BY <1>1, <2>1, <2>2, SMTT(40) DEF Resigned, k
  <2>3. CASE n # 1
    <3>1. n - 1 \in 1..k /\ t[n - 1] = q[n]
      BY <1>1, <2>3, SMTT(40)
    <3>2. \A m \in 1..k : m > n - 1 => t[m].priority # 0
      BY <1>1, <2>1, SMTT(40)
    <3> QED BY <2>1, <3>1, <3>2, ZenonT(60) DEF Announced, k
  <2> QED BY <2>2, <2>3
<1> QED BY <1>2, <1>3 DEF t, p

\* The packets of an iteration that sends none, or the one from the buffer b.
LEMMA SentNone ==
  ASSUME NEW c, NEW w, Advertises(w.out, {})
  PROVE  Sent(c, w) = <<>>
<1>1. {n \in 1..Len(w.out) : w.out[n].ev = "adv"} = {}
  BY Zenon DEF Advertises
<1> QED BY <1>1, Zenon DEF Sent

LEMMA SentOne ==
  ASSUME NEW c, NEW w, NEW b, Advertises(w.out, {b}), ~Advertises(w.out, {})
  PROVE  Sent(c, w) = <<vrrp_adv_build(c, b)>>
<1> DEFINE advs == {n \in 1..Len(w.out) : w.out[n].ev = "adv"}
           n == CHOOSE k \in advs : TRUE
<1>1. advs # {}
  BY Zenon DEF Advertises
<1>2. n \in advs
  BY <1>1, Zenon
<1>3. w.out[n].adv = b
  BY <1>2, Zenon DEF Advertises
<1>4. Sent(c, w) = <<vrrp_adv_build(c, w.out[n].adv)>>
  BY <1>1, Zenon DEF Sent
<1> QED BY <1>3, <1>4, ZenonT(60)

--------------------------------------------------------------------------------
(* What an iteration does to the hold of the masters. *)

\* An instance of router i keeps the interval of the group, and the owner waits for
\* nobody.
Steady(i, v) ==
  /\ v.state # "INIT" => v.master_adv_int = Config[i].adv_int
  /\ v.state = "MASTER" => v.adv_timer <= Config[i].adv_int
  /\ v.state = "BACKUP" => Priority[i] # PRIO_OWNER

\* Router j, as the instance v with the queue q, does not trouble the master i before
\* its next advertisement.
Quiet(i, j, v, q) ==
  /\ ~Resigned(q)
  /\ v.state = "BACKUP" => v.masterdown_timer > inst[i].adv_timer
  /\ v.state = "MASTER" => ~Beats(i, j)

\* Router k ends an iteration as w, and queue is left in its socket.
Outcome(k, w, queue) ==
  LET v == inst[k]
      s == Sent(Config[k], w)
  IN  /\ Steady(k, w)
      /\ queue = sock[k] \/ (sock[k] # <<>> /\ queue = Tail(sock[k]))
      /\ s = <<>> \/ s = <<OwnAdv(k)>> \/ s = <<ZeroAdv(k)>>
      /\ w.state = "MASTER" /\ s = <<>> =>
           /\ v.state = "MASTER" /\ w.adv_timer = v.adv_timer
           /\ Priority[k] # PRIO_OWNER /\ Resigned(sock[k]) => Resigned(queue)
      /\ v.state # "MASTER" /\ w.state # "MASTER" => s = <<>>
      /\ s = <<ZeroAdv(k)>> /\ s # <<OwnAdv(k)>> => sock[k] = <<>> /\ w.state = "INIT"

\* It keeps still towards the master i as far as it did.
Still(i, k, w, queue) ==
  Quiet(i, k, inst[k], sock[k]) \/ Announced(i, sock[k]) =>
    \/ Quiet(i, k, w, queue) \/ Announced(i, queue)
    \/ Sent(Config[k], w) = <<ZeroAdv(k)>>

\* Nothing but advertisements of router i waits in q.
Only(i, q) == \A n \in 1..Len(q) : q[n] = OwnAdv(i)

\* If it has heard nobody but i, it goes on to wait.
Awaits(i, k, w) ==
  inst[k].state # "MASTER" /\ Only(i, sock[k]) /\ w.state = "BACKUP" =>
    ((inst[k].state = "BACKUP" => inst[k].masterdown_timer > 0) => w.masterdown_timer > 0)

\* A master of the group next to router k.
Above(i, k) ==
  /\ i \in Routers \ {k} /\ inst[i].state = "MASTER" /\ ~Preempts(k, i)
  /\ inst[i].adv_timer \in Nat /\ inst[i].adv_timer <= Config[i].adv_int

LEMMA AboveWaits ==
  ASSUME Group, NEW k \in Routers, NEW i, Above(i, k), NEW t \in Nat, t > Config[k].adv_int
  PROVE  t > inst[i].adv_timer /\ t > 0
<1>1. Config[i].adv_int = Config[k].adv_int
  BY Zenon DEF Group, Alike, Above
<1>2. Config[k].adv_int \in Nat /\ inst[i].adv_timer \in Nat
      /\ inst[i].adv_timer <= Config[k].adv_int
  BY <1>1, IntervalKept, ZenonT(60) DEF Group, Above
<1>3. \A a, b \in Nat : a <= b /\ t > b => t > a /\ t > 0
  BY SMT
<1> QED BY <1>2, <1>3, ZenonT(60)

LEMMA OwnerUnbeaten ==
  ASSUME Group, NEW k \in Routers, Priority[k] = PRIO_OWNER, NEW i \in Routers \ {k}
  PROVE  ~Beats(i, k)
<1>1. Priority[i] # PRIO_OWNER
  BY Zenon DEF Group
<1>2. Priority[i] \in Priorities
  BY RouterType, ZenonT(60)
<1>3. ~(Priority[i] > Priority[k])
  BY <1>2, SMTT(40) DEF Priorities, PRIO_OWNER
<1> QED BY <1>1, <1>3, ZenonT(60) DEF Beats

LEMMA InitOutcome ==
  ASSUME Group, LanType, NEW k \in Routers, inst[k].state = "INIT"
  PROVE  LET w == vrrp_state_init(Config[k], inst[k])
         IN  /\ Outcome(k, w, sock[k])
             /\ w.state = "MASTER" => Priority[k] = PRIO_OWNER
             /\ \A i : Above(i, k) => Still(i, k, w, sock[k]) /\ Awaits(i, k, w)
<1> DEFINE c == Config[k]
           v == inst[k]
           w == vrrp_state_init(c, v)
<1>0. /\ Plain(c) /\ Waits(c) /\ c \in Configs /\ v \in Instances /\ Disciplined(v)
      /\ v.out = <<>> /\ v.priority = Priority[k] /\ v.adv = Own(k) /\ c.adv_int \in Nat
  BY IntervalKept, ZenonT(60) DEF Group, LanType, Fit, Plain
<1>1. /\ w.master_adv_int = c.adv_int
      /\ v.priority = PRIO_OWNER => w.adv_timer = c.adv_int /\ ~Advertises(w.out, {})
      /\ v.priority # PRIO_OWNER => w.masterdown_timer > c.adv_int /\ Advertises(w.out, {})
  BY <1>0, InitSteady, Zenon
<1>2. /\ w.state = IF v.priority = PRIO_OWNER THEN "MASTER" ELSE "BACKUP"
      /\ \A A : v.adv \in A /\ Advertises(v.out, A) => Advertises(w.out, A)
      /\ w.state = "BACKUP" => w.masterdown_timer \in Nat
  <2>1. v.adv_timer = Cleared /\ v.masterdown_timer = Cleared
    BY <1>0, Zenon DEF Disciplined
  <2> QED BY <1>0, <2>1, StateInitPost, ZenonT(60)
<1>3. Advertises(w.out, {Own(k)})
  BY <1>0, <1>2, EmptyLog, Zenon
<1> HIDE DEF w, c
<1>4. c.adv_int <= c.adv_int
  BY <1>0, SMTT(40)
<1>5. Steady(k, w)
  BY <1>0, <1>1, <1>2, <1>4, ZenonT(60) DEF Steady, c
<1>6. v.priority = PRIO_OWNER => Sent(c, w) = <<OwnAdv(k)>>
  BY <1>1, <1>3, SentOne, ZenonT(60) DEF OwnAdv, c
<1>7. v.priority # PRIO_OWNER => Sent(c, w) = <<>>
  BY <1>1, SentNone, ZenonT(60)
<1>8. <<OwnAdv(k)>> # <<>> /\ <<ZeroAdv(k)>> # <<>>
  OBVIOUS
<1>9. Outcome(k, w, sock[k])
  BY <1>2, <1>5, <1>6, <1>7, <1>8, ZenonT(60) DEF Outcome, c
<1>10. ASSUME NEW i, Above(i, k) PROVE Still(i, k, w, sock[k]) /\ Awaits(i, k, w)
  <2>1. w.state = "BACKUP" =>
          w.masterdown_timer > inst[i].adv_timer /\ w.masterdown_timer > 0
    BY <1>1, <1>2, <1>10, AboveWaits, ZenonT(60) DEF c
  <2>2. w.state = "MASTER" => ~Beats(i, k)
    BY <1>0, <1>2, <1>10, OwnerUnbeaten, ZenonT(60) DEF Above
  <2> QED BY <2>1, <2>2, ZenonT(60) DEF Still, Awaits, Quiet
<1>11. w.state = "MASTER" => Priority[k] = PRIO_OWNER
  BY <1>0, <1>2, ZenonT(60)
<1> QED BY <1>9, <1>10, <1>11, SMTT(40) DEF w, c

LEMMA TimerOutcome ==
  ASSUME Group, LanType, NEW k \in Routers, inst[k].state # "INIT", Expired(k),
         Steady(k, inst[k])
  PROVE  LET w == OnTimer(Config[k], inst[k])
         IN  /\ Outcome(k, w, sock[k]) /\ w.state = "MASTER"
             /\ \A i : Above(i, k) => Still(i, k, w, sock[k])
<1> DEFINE c == Config[k]
           v == inst[k]
           w == OnTimer(c, v)
<1>0. /\ Plain(c) /\ c \in Configs /\ v \in Instances /\ Disciplined(v)
      /\ v.out = <<>> /\ v.priority = Priority[k] /\ v.adv = Own(k) /\ c.adv_int \in Nat
      /\ v.state # "INIT"
  BY IntervalKept, ZenonT(60) DEF Group, LanType, Fit, Plain
<1>1. /\ w.master_adv_int = c.adv_int /\ w.adv_timer = c.adv_int
      /\ ~Advertises(w.out, {})
  BY <1>0, TimerSteady, Zenon DEF Steady
<1>2. w.state = "MASTER" /\ \A A : v.adv \in A /\ Advertises(v.out, A) => Advertises(w.out, A)
  <2>1. v.state = "MASTER" => v.masterdown_timer = Cleared
    BY <1>0, Zenon DEF Disciplined
  <2> HIDE DEF c, v
  <2> QED BY <1>0, <2>1, OnTimerPost, SMTT(40)
<1>3. Advertises(w.out, {Own(k)})
  BY <1>0, <1>2, EmptyLog, ZenonT(60)
<1>4. v.state = "BACKUP" => v.masterdown_timer = 0
  BY <1>0, ZenonT(60) DEF Disciplined, Expired, CurrentTimer, vrrp_timer_is_running,
                     vrrp_timer_is_expired
<1>5. v.state = "BACKUP" \/ v.state = "MASTER"
  BY <1>0, ZenonT(60) DEF Instances, States
<1> HIDE DEF w, c
<1>6. c.adv_int <= c.adv_int
  BY <1>0, SMT
<1>7. Steady(k, w)
  BY <1>1, <1>2, <1>6, ZenonT(60) DEF Steady, c
<1>8. Sent(c, w) = <<OwnAdv(k)>>
  BY <1>1, <1>3, SentOne, ZenonT(60) DEF OwnAdv, c
<1>9. <<OwnAdv(k)>> # <<>> /\ <<ZeroAdv(k)>> # <<>>
  OBVIOUS
<1>10. Outcome(k, w, sock[k])
  BY <1>2, <1>7, <1>8, <1>9, ZenonT(60) DEF Outcome, c
<1>11. ASSUME NEW i, Above(i, k) PROVE Still(i, k, w, sock[k])
  <2>1. ~(0 > inst[i].adv_timer)
    BY <1>11, SMTT(40) DEF Above
  <2>2. CASE v.state = "BACKUP"
    BY <1>4, <2>1, <2>2, ZenonT(60) DEF Still, Quiet
  <2>3. CASE v.state = "MASTER"
    BY <1>2, <2>3, ZenonT(60) DEF Still, Quiet
  <2> QED BY <1>5, <2>2, <2>3, SMTT(40)
<1> QED BY <1>2, <1>10, <1>11, SMTT(40) DEF w, c

\* What a router of the group sends, the others accept, unless they own the
\* addresses.
LEMMA GroupPkt ==
  ASSUME Group, NEW k \in Routers, NEW p \in Packets
  PROVE  /\ vrrp_adv_get_advint(p) = Config[k].adv_int
         /\ Priority[k] # PRIO_OWNER => vrrp_net_recv(Config[k], Priority[k], p) = "PKT"
<1>1. PICK m \in Routers : p \in PacketsOf(m)
  BY Zenon DEF Packets
<1>2. PICK prio : p = vrrp_adv_build(Config[m], Buffer(Config[m], prio))
  BY <1>1, ZenonT(60) DEF PacketsOf, Sends, Own, Zero, Buffer
<1>3. Plain(Config[m]) /\ Plain(Config[k]) /\ Alike(Config[m], Config[k])
  BY Zenon DEF Group
<1>4. Config[m].adv_int = Config[k].adv_int
  BY <1>3, ZenonT(60) DEF Alike
<1>5. vrrp_adv_get_advint(p) = Config[m].adv_int
  BY <1>2, <1>3, IntervalKept, SMTT(40)
<1>6. ASSUME Priority[k] # PRIO_OWNER
      PROVE  vrrp_net_recv(Config[k], Priority[k], p) = "PKT"
  BY <1>2, <1>3, <1>6, AlikeAccept, SMTT(40)
<1> QED BY <1>4, <1>5, <1>6, SMTT(40)

LEMMA AdvPriority ==
  ASSUME Group, NEW i \in Routers
  PROVE  /\ OwnAdv(i).priority = Priority[i] /\ OwnAdv(i).priority # 0
         /\ OwnAdv(i).saddr = Config[i].addr /\ ZeroAdv(i).priority = 0
<1>1. OwnAdv(i).priority = Priority[i] /\ OwnAdv(i).saddr = Config[i].addr
  BY Zenon DEF OwnAdv, vrrp_adv_build, Own
<1>2. ZeroAdv(i).priority = 0
  BY Zenon DEF ZeroAdv, vrrp_adv_build, Zero
<1> QED BY <1>1, <1>2, ZenonT(60) DEF Group

\* What a router makes of a packet of its group.
Heard(k, v, p, w) ==
  LET int == Config[k].adv_int
  IN  /\ w.state # "INIT" /\ w.master_adv_int = int
      /\ v.priority = PRIO_OWNER => w = v
      /\ v.state = "BACKUP" =>
           /\ w.state = "BACKUP" /\ w.masterdown_timer \in Nat /\ Advertises(w.out, {})
           /\ p.priority # 0 =>
                /\ w = v \/ w.masterdown_timer > int
                /\ ~Config[k].preempt \/ p.priority >= v.priority => w.masterdown_timer > int
      /\ v.state = "MASTER" /\ v.priority # PRIO_OWNER /\ p.priority = 0 =>
           /\ w.state = "MASTER" /\ w.adv_timer = int
           /\ Advertises(w.out, {v.adv}) /\ ~Advertises(w.out, {})
      /\ v.state = "MASTER" /\ v.priority # PRIO_OWNER /\ p.priority # 0 =>
           IF \/ p.priority > v.priority
              \/ p.priority = v.priority /\ vrrp_adv_addr_cmp(Config[k], p) > 0
           THEN /\ w.state = "BACKUP" /\ w.masterdown_timer \in Nat
                /\ w.masterdown_timer > int /\ Advertises(w.out, {})
           ELSE w = v

LEMMA PktHeard ==
  ASSUME Group, LanType, NEW k \in Routers, inst[k].state # "INIT", Steady(k, inst[k]),
         NEW p \in Packets
  PROVE  Heard(k, inst[k], p, OnPkt(Config[k], inst[k], p))
<1> DEFINE c == Config[k]
           v == inst[k]
           w == OnPkt(c, v, p)
           int == c.adv_int
<1>0. /\ Plain(c) /\ c \in Configs /\ v \in Instances /\ Disciplined(v) /\ v.state # "INIT"
      /\ v.out = <<>> /\ v.priority = Priority[k] /\ int \in Nat /\ v.master_adv_int = int
  BY IntervalKept, ZenonT(60) DEF Group, LanType, Fit, Plain, Steady
<1>1. /\ PacketOK(p) /\ vrrp_adv_get_advint(p) = int
      /\ v.priority # PRIO_OWNER => vrrp_net_recv(c, v.priority, p) = "PKT"
  BY <1>0, PacketType, GroupPkt, Zenon
<1>2. v.priority = PRIO_OWNER => v.state = "MASTER"
  BY <1>0, Zenon DEF Steady, Instances, States
<1>3. Advertises(v.out, {})
  BY <1>0, EmptyLog, Zenon
<1>4. v.state = "BACKUP" \/ v.state = "MASTER"
  BY <1>0, ZenonT(60) DEF Instances, States
<1> HIDE DEF c, v
<1>5. w.state # "INIT" /\ (v.priority = PRIO_OWNER => w = v)
  BY <1>0, <1>1, OnPktPost, SMTT(40)
<1>6. CASE v.priority = PRIO_OWNER
  BY <1>0, <1>2, <1>5, <1>6, ZenonT(60) DEF Heard, c, v
<1>7. CASE v.priority # PRIO_OWNER /\ v.state = "BACKUP"
  <2>1. w = BackupPkt(c, v, p)
    BY <1>1, <1>7, ZenonT(60) DEF OnPkt
  <2>2. /\ w.state = "BACKUP" /\ w.out = v.out /\ Disciplined(w)
    BY <1>0, <1>1, <1>7, <2>1, BackupPktPost, SMTT(40)
  <2>3. w.masterdown_timer \in Nat
    BY <2>2, ZenonT(60) DEF Disciplined
  <2>4. /\ w.master_adv_int = int
        /\ p.priority # 0 =>
             /\ w = v \/ w.masterdown_timer > int
             /\ ~c.preempt \/ p.priority >= v.priority => w.masterdown_timer > int
    BY <1>0, <1>1, <1>7, <2>1, BackupPktSteady, ZenonT(60)
  <2> HIDE DEF w
  <2> QED BY <1>3, <1>7, <2>2, <2>3, <2>4, ZenonT(60) DEF Heard, c, v, w
<1>8. CASE v.priority # PRIO_OWNER /\ v.state = "MASTER"
  <2>0. w = MasterPkt(c, v, p)
    BY <1>1, <1>8, ZenonT(60) DEF OnPkt
  <2>1. CASE p.priority = 0
    <3>1. w = OnTimer(c, v)
      BY <1>8, <2>0, <2>1, ZenonT(60) DEF MasterPkt, OnTimer, MasterTimer
    <3>2. w.master_adv_int = int /\ w.adv_timer = int /\ ~Advertises(w.out, {})
      BY <1>0, <3>1, TimerSteady, ZenonT(60)
    <3>3. v.masterdown_timer = Cleared
      BY <1>0, <1>8, ZenonT(60) DEF Disciplined
    <3>4. /\ w.state = "MASTER"
          /\ \A A : v.adv \in A /\ Advertises(v.out, A) => Advertises(w.out, A)
      BY <1>0, <3>1, <3>3, OnTimerPost, SMTT(40)
    <3>5. Advertises(w.out, {v.adv})
      BY <1>0, <3>4, EmptyLog, ZenonT(60)
    <3> HIDE DEF w
    <3> QED BY <1>5, <1>8, <2>1, <3>2, <3>4, <3>5, ZenonT(60) DEF Heard, c, v, w
  <2>2. CASE p.priority # 0
    <3> DEFINE yields == \/ p.priority > v.priority
                         \/ p.priority = v.priority /\ vrrp_adv_addr_cmp(c, p) > 0
    <3>1. w = IF yields THEN vrrp_state_goto_backup(c, v, int) ELSE v
      BY <1>1, <2>0, <2>2, ZenonT(60) DEF MasterPkt
    <3>2. CASE yields
      <4>1. w = vrrp_state_goto_backup(c, v, int)
        BY <3>1, <3>2, ZenonT(60)
      <4>2. w.master_adv_int = int /\ w.masterdown_timer > int
        BY <1>0, <1>8, <4>1, GotoBackupSteady, ZenonT(60)
      <4>3. LET b == vrrp_state_goto_backup(c, v, int)
            IN  b.state = "BACKUP" /\ b.masterdown_timer \in Nat
        BY <1>0, GotoBackup, Zenon
      <4>4. \A A : Advertises(v.out, A) => Advertises(w.out, A)
        BY <1>0, <4>1, GotoBackup, ZenonT(60)
      <4>5. w.state = "BACKUP" /\ w.masterdown_timer \in Nat
        BY <4>1, <4>3, Zenon
      <4> HIDE DEF w
      <4> QED BY <1>3, <1>5, <1>8, <2>2, <3>2, <4>2, <4>4, <4>5, ZenonT(60) DEF Heard, c, v, w
    <3>3. CASE ~yields
      <4>1. w = v
        BY <3>1, <3>3, ZenonT(60)
      <4> QED BY <1>0, <1>8, <2>2, <3>3, <4>1, ZenonT(60) DEF Heard, c, v
    <3> QED BY <3>2, <3>3, SMTT(40)
  <2> QED BY <2>1, <2>2, SMTT(40)
<1> QED BY <1>4, <1>6, <1>7, <1>8, ZenonT(60)

LEMMA PktOutcome ==
  ASSUME Group, LanType, NEW k \in Routers, inst[k].state # "INIT", Steady(k, inst[k]),
         sock[k] # <<>>
  PROVE  LET w == OnPkt(Config[k], inst[k], Head(sock[k]))
         IN  /\ Outcome(k, w, Tail(sock[k]))
             /\ inst[k].state # "MASTER" => w.state # "MASTER"
             /\ \A i : Above(i, k) => Still(i, k, w, Tail(sock[k])) /\ Awaits(i, k, w)
<1> DEFINE c == Config[k]
           v == inst[k]
           q == sock[k]
           t == Tail(q)
           p == Head(q)
           w == OnPkt(c, v, p)
<1>0. /\ q \in Seq(Packets) /\ v.out = <<>> /\ v.priority = Priority[k] /\ v.adv = Own(k)
      /\ v.state = "BACKUP" \/ v.state = "MASTER"
  BY ZenonT(60) DEF LanType, Fit, Instances, States
<1>1. p \in Packets /\ q # <<>>
  BY <1>0
<1>2. Heard(k, v, p, w)
  BY <1>1, PktHeard, ZenonT(60)
<1>3. /\ Resigned(q) <=> p.priority = 0 \/ Resigned(t)
      /\ \A i : Announced(i, q) =>
                 Announced(i, t) \/ (p = OwnAdv(i) /\ ~Resigned(t))
  BY <1>0, <1>1, Dequeued, ZenonT(60)
<1>5. \A i : Only(i, q) => p = OwnAdv(i)
  <2>1. 1 \in 1..Len(q) /\ p = q[1]
    BY <1>0, <1>1, SMTT(40)
  <2> QED BY <2>1, ZenonT(60) DEF Only
<1>6. <<OwnAdv(k)>> # <<>> /\ <<ZeroAdv(k)>> # <<>>
  OBVIOUS
<1>7. /\ Advertises(w.out, {}) => Sent(c, w) = <<>>
      /\ Advertises(w.out, {v.adv}) /\ ~Advertises(w.out, {}) => Sent(c, w) = <<OwnAdv(k)>>
  BY <1>0, SentNone, SentOne, ZenonT(60) DEF OwnAdv
<1>8. Advertises(v.out, {})
  BY <1>0, EmptyLog, ZenonT(60)
<1>9. c.adv_int <= c.adv_int
  BY IntervalKept, SMTT(40) DEF Group
<1>s. Steady(k, v)
  OBVIOUS
<1> HIDE DEF w, p, t, q, c, v
<1>10. Steady(k, w)
  <2>1. w.state = "MASTER" => w.adv_timer <= c.adv_int
    BY <1>0, <1>2, <1>9, <1>s, ZenonT(60) DEF Heard, Steady, c
  <2>2. w.state = "BACKUP" => Priority[k] # PRIO_OWNER
    BY <1>0, <1>2, <1>s, ZenonT(60) DEF Heard, Steady
  <2> QED BY <1>2, <2>1, <2>2, ZenonT(60) DEF Heard, Steady, c
<1>11. /\ Sent(c, w) = <<>> \/ Sent(c, w) = <<OwnAdv(k)>>
       /\ w.state = "MASTER" /\ Sent(c, w) = <<>> =>
            w = v /\ (p.priority = 0 => Priority[k] = PRIO_OWNER)
       /\ v.state = "BACKUP" => Sent(c, w) = <<>> /\ w.state = "BACKUP"
  BY <1>0, <1>2, <1>6, <1>7, <1>8, ZenonT(60) DEF Heard
<1>12. Outcome(k, w, t)
  BY <1>0, <1>1, <1>3, <1>6, <1>10, <1>11, ZenonT(60) DEF Outcome, c, q, t, v
<1>13. ASSUME NEW i, Above(i, k) PROVE Still(i, k, w, t) /\ Awaits(i, k, w)
  <2>0. i \in Routers \ {k} /\ ~Preempts(k, i)
    BY <1>13, ZenonT(60) DEF Above
  <2>1. \A n \in Nat : n > c.adv_int => n > inst[i].adv_timer /\ n > 0
    BY <1>13, AboveWaits, ZenonT(60) DEF c
  <2>2. /\ OwnAdv(i).priority = Priority[i] /\ OwnAdv(i).priority # 0
        /\ OwnAdv(i).saddr = Config[i].addr
    BY <2>0, AdvPriority, ZenonT(60)
  <2>3. ~c.preempt \/ Priority[i] >= v.priority
    <3>1. Priority[i] \in Priorities /\ Priority[k] \in Priorities
      BY <2>0, RouterType, ZenonT(60)
    <3>2. \A m, n \in Priorities : ~(m > n) => n >= m
      BY SMTT(40) DEF Priorities
    <3> QED BY <1>0, <2>0, <3>1, <3>2, ZenonT(60) DEF Preempts, c
  <2>4. Priority[k] = PRIO_OWNER => ~Beats(i, k)
    BY <2>0, OwnerUnbeaten, ZenonT(60)
  <2>5. CASE v.state = "BACKUP"
    <3>1. CASE p.priority = 0
      BY <1>3, <1>5, <2>2, <3>1, ZenonT(60) DEF Still, Awaits, Quiet, q, v
    <3>2. CASE p.priority # 0
      <4>1. w = v \/ w.masterdown_timer > inst[i].adv_timer
        BY <1>2, <2>1, <2>5, <3>2, ZenonT(60) DEF Heard, c
      <4>2. p = OwnAdv(i) => w.masterdown_timer > inst[i].adv_timer /\ w.masterdown_timer > 0
        BY <1>2, <2>1, <2>2, <2>3, <2>5, <3>2, ZenonT(60) DEF Heard, c
      <4>3. w.state = "BACKUP"
        BY <1>2, <2>5, ZenonT(60) DEF Heard
      <4>4. Still(i, k, w, t)
        BY <1>3, <2>5, <4>1, <4>2, <4>3, ZenonT(60) DEF Still, Quiet, q, v
      <4> QED BY <1>5, <4>2, <4>4, ZenonT(60) DEF Awaits, q
    <3> QED BY <3>1, <3>2, SMTT(40)
  <2>6. CASE v.state = "MASTER"
    <3>1. Awaits(i, k, w)
      BY <2>6, ZenonT(60) DEF Awaits, v
    <3>2. CASE Priority[k] # PRIO_OWNER /\ p.priority = 0
      BY <1>3, <2>2, <3>1, <3>2, ZenonT(60) DEF Still, Quiet, q
    <3>3. CASE w.state = "BACKUP" /\ w.masterdown_timer > inst[i].adv_timer
      BY <1>3, <3>1, <3>3, ZenonT(60) DEF Still, Quiet, q
    <3>4. CASE w = v /\ (p = OwnAdv(i) => ~Beats(i, k))
      BY <1>3, <2>6, <3>1, <3>4, ZenonT(60) DEF Still, Quiet, q, v
    <3>5. \/ Priority[k] # PRIO_OWNER /\ p.priority = 0
          \/ w.state = "BACKUP" /\ w.masterdown_timer > inst[i].adv_timer
          \/ w = v /\ (p = OwnAdv(i) => ~Beats(i, k))
      <4>1. CASE Priority[k] = PRIO_OWNER
        BY <1>0, <1>2, <2>4, <4>1, ZenonT(60) DEF Heard
      <4>2. CASE Priority[k] # PRIO_OWNER /\ p.priority # 0
        <5> DEFINE yields == \/ p.priority > v.priority
                             \/ p.priority = v.priority /\ vrrp_adv_addr_cmp(c, p) > 0
        <5>1. CASE yields
          BY <1>0, <1>2, <2>1, <2>6, <4>2, <5>1, ZenonT(60) DEF Heard, c
        <5>2. CASE ~yields
          <6>1. w = v
            BY <1>0, <1>2, <2>6, <4>2, <5>2, ZenonT(60) DEF Heard, c
          <6>2. ASSUME p = OwnAdv(i) PROVE ~Beats(i, k)
            BY <1>0, <2>2, <5>2, <6>2, ZenonT(60) DEF Beats, vrrp_adv_addr_cmp, c
          <6> QED BY <6>1, <6>2, SMTT(40)
        <5> QED BY <5>1, <5>2, SMTT(40)
      <4> QED BY <4>1, <4>2, SMTT(40)
    <3> QED BY <3>2, <3>3, <3>4, <3>5, SMTT(40)
  <2> QED BY <1>0, <2>5, <2>6, SMTT(40)
<1>14. v.state # "MASTER" => w.state # "MASTER"
  BY <1>0, <1>11, ZenonT(60)
<1> QED BY <1>12, <1>13, <1>14, SMTT(40) DEF c, q, t, v, w, p

LEMMA ReloadOutcome ==
  ASSUME Group, LanType, NEW k \in Routers, inst[k].state # "INIT", sock[k] = <<>>
  PROVE  LET w == OnReload(Config[k], inst[k])
         IN  /\ Outcome(k, w, sock[k]) /\ w.state = "INIT"
             /\ \A i : Still(i, k, w, sock[k])
<1> DEFINE c == Config[k]
           v == inst[k]
           w == OnReload(c, v)
<1>0. /\ c \in Configs /\ v \in Instances /\ Disciplined(v) /\ v.out = <<>>
      /\ (v.state = "BACKUP" \/ v.state = "MASTER") /\ v.state # "INIT"
  BY ZenonT(60) DEF Group, LanType, Fit, Plain, Instances, States
<1>1. Advertises(v.out, {}) /\ \A A : Advertises(v.out, A)
  BY <1>0, EmptyLog, Zenon
<1> HIDE DEF c, v
<1>2. v.state # "INIT"
  BY ZenonT(60) DEF v
<1>3. /\ w.state = "INIT"
      /\ v.state = "MASTER" => w.out = Append(Append(v.out, Adv(Zero(k))), Hook("backup"))
      /\ \A A : Zero(k) \in A /\ Advertises(v.out, A) => Advertises(w.out, A)
  BY <1>0, <1>2, OnReloadPost, SMTT(40) DEF Zero, c
<1>4. v.state = "BACKUP" => w.out = v.out
  <2>1. v.state = "BACKUP" => w = [v EXCEPT !.masterdown_timer = Cleared, !.state = "INIT"]
    BY Zenon DEF OnReload, BackupReload
  <2> QED BY <1>0, <2>1, ZenonT(60) DEF Instances
<1>5. v.state = "BACKUP" => Sent(c, w) = <<>>
  BY <1>1, <1>4, SentNone, ZenonT(60)
<1>6. ASSUME v.state = "MASTER" PROVE Sent(c, w) = <<ZeroAdv(k)>>
  <2>1. Advertises(w.out, {Zero(k)})
    BY <1>1, <1>3, ZenonT(60)
  <2>2. w.out = <<Adv(Zero(k)), Hook("backup")>>
    BY <1>0, <1>3, <1>6, SMTT(40)
  <2>3. 1 \in 1..Len(w.out) /\ w.out[1] = Adv(Zero(k))
    BY <2>2, SMTT(40)
  <2>4. Adv(Zero(k)).ev = "adv"
    BY DEF Adv
  <2>5. ~Advertises(w.out, {})
    BY <2>3, <2>4, ZenonT(60) DEF Advertises
  <2> QED BY <2>1, <2>5, SentOne, ZenonT(60) DEF ZeroAdv, c
<1>7. <<OwnAdv(k)>> # <<>> /\ <<ZeroAdv(k)>> # <<>>
  OBVIOUS
<1> HIDE DEF w
<1>8. Steady(k, w)
  BY <1>3, ZenonT(60) DEF Steady
<1>9. Outcome(k, w, sock[k])
  BY <1>0, <1>2, <1>3, <1>5, <1>6, <1>7, <1>8, ZenonT(60) DEF Outcome, c, v
<1>10. ~Resigned(sock[k])
  BY DEF Resigned
<1>11. \A i : Still(i, k, w, sock[k])
  BY <1>3, <1>10, ZenonT(60) DEF Still, Quiet
<1> QED BY <1>3, <1>9, <1>11, SMTT(40) DEF c, v, w

--------------------------------------------------------------------------------
(* The hold of the masters. *)

\* The losses so far allow for two masters until the next advertisement of i.
Credit(i) == lost > 0 /\ dual + inst[i].adv_timer <= lost * Config[i].adv_int

\* Router i will answer a resignation.
Told(i) == Priority[i] # PRIO_OWNER /\ Resigned(sock[i])

\* Router j does not take over, or stay, next to the master i unless a loss allows it.
Hold(i, j) ==
  \/ Quiet(i, j, inst[j], sock[j]) \/ Announced(i, sock[j])
  \/ Told(i) \/ Credit(i)

HoldInv ==
  /\ \A i \in Routers : Steady(i, inst[i]) /\ (i \notin up => sock[i] = <<>>)
  /\ \A i \in Masters : \A j \in up \ {i} : ~Preempts(j, i) => Hold(i, j)
  /\ lost \in Nat /\ dual \in Nat
  /\ \A i \in Routers : dual <= lost * Config[i].adv_int

\* Each loss adds an interval.
LEMMA Losses ==
  /\ \A l, n, d, e, a, t \in Nat :
       n > 0 /\ d <= l * a /\ e <= d /\ t <= a => l + n > 0 /\ e + t <= (l + n) * a
  /\ \A l, n, d, e, a \in Nat : d <= l * a /\ e <= d => e <= (l + n) * a
<1>1. ASSUME NEW l \in Nat, NEW n \in Nat, NEW a \in Nat
      PROVE  /\ (l + n) * a = l * a + n * a /\ l * a \in Nat /\ n * a \in Nat
             /\ n > 0 => n * a >= a
  <2>1. (l + n) * a = l * a + n * a
    BY SMTT(40)
  <2>2. l * a \in Nat /\ n * a \in Nat
    BY SMTT(40)
  <2>3. ASSUME n > 0 PROVE n * a >= a
    <3>1. n - 1 \in Nat
      BY <2>3, SMTT(40)
    <3>2. (n - 1) * a \in Nat
      BY <3>1, SMTT(40)
    <3>3. n * a = (n - 1) * a + a
      BY SMTT(40)
    <3> QED BY <2>2, <3>2, <3>3, SMTT(40)
  <2> QED BY <2>1, <2>2, <2>3
<1>2. \A x, y, d, e, a, t \in Nat : d <= x /\ y >= a /\ e <= d /\ t <= a => e + t <= x + y
  BY SMTT(40)
<1>3. \A x, y, d, e \in Nat : d <= x /\ e <= d => e <= x + y
  BY SMTT(40)
<1>4. \A l, n \in Nat : n > 0 => l + n > 0
  BY SMTT(40)
<1>5. ASSUME NEW l \in Nat, NEW n \in Nat, NEW d \in Nat, NEW e \in Nat, NEW a \in Nat,
             NEW t \in Nat, n > 0, d <= l * a, e <= d, t <= a
      PROVE  l + n > 0 /\ e + t <= (l + n) * a
  <2>1. /\ (l + n) * a = l * a + n * a /\ l * a \in Nat /\ n * a \in Nat
        /\ n * a >= a /\ l + n > 0
    BY <1>1, <1>4, <1>5, SMTT(40)
  <2>2. e + t <= l * a + n * a
    BY <1>2, <1>5, <2>1, SMTT(40)
  <2> QED BY <2>1, <2>2, ZenonT(60)
<1>6. ASSUME NEW l \in Nat, NEW n \in Nat, NEW d \in Nat, NEW e \in Nat, NEW a \in Nat,
             d <= l * a, e <= d
      PROVE  e <= (l + n) * a
  <2>1. (l + n) * a = l * a + n * a /\ l * a \in Nat /\ n * a \in Nat
    BY <1>1, SMTT(40)
  <2>2. e <= l * a + n * a
    BY <1>3, <1>6, <2>1, SMTT(40)
  <2> QED BY <2>1, <2>2, ZenonT(60)
<1> QED BY <1>5, <1>6, ZenonT(60)

\* The step of router k, with the packets the deaf routers lose.
Stepped(k, w, queue, deaf) ==
  LET s == Sent(Config[k], w)
  IN  /\ deaf \in SUBSET (up \ {k})
      /\ lost' = lost + Cardinality(deaf) /\ Cardinality(deaf) \in Nat
      /\ deaf # {} => Cardinality(deaf) > 0
      /\ deaf = {} => lost' = lost
      /\ s = <<>> => deaf = {}
      /\ inst'[k].state = w.state /\ inst'[k].adv_timer = w.adv_timer
      /\ inst'[k].masterdown_timer = w.masterdown_timer
      /\ inst'[k].master_adv_int = w.master_adv_int
      /\ \A j \in Routers \ {k} :
           /\ inst'[j] = inst[j]
           /\ sock'[j] = IF j \in up \ deaf THEN sock[j] \o s ELSE sock[j]
      /\ sock'[k] = queue

LEMMA StepStepped ==
  ASSUME LanType, lost \in Nat, NEW k \in Routers, NEW w, Fit(k, w), NEW queue,
         Step(k, w, queue)
  PROVE  \E deaf : Stepped(k, w, queue, deaf)
<1> DEFINE x == [w EXCEPT !.out = <<>>]
           s == Sent(Config[k], w)
<1>1. PICK deaf \in SUBSET (up \ {k}) :
        /\ s = <<>> => deaf = {}
        /\ lost' = lost + Cardinality(deaf)
        /\ inst' = [inst EXCEPT ![k] = x]
        /\ sock' = [j \in Routers |-> IF j = k THEN queue
                                      ELSE IF j \in up \ deaf THEN sock[j] \o s ELSE sock[j]]
  BY ZenonT(60) DEF Step
<1>2. IsFiniteSet(deaf)
  BY <1>1, RoutersAssumption, FS_Subset, ZenonT(60) DEF LanType
<1>3. Cardinality(deaf) \in Nat /\ (Cardinality(deaf) = 0 <=> deaf = {})
  BY <1>2, FS_CardinalityType, FS_EmptySet, ZenonT(60)
<1>4. /\ deaf # {} => Cardinality(deaf) > 0
      /\ deaf = {} => lost' = lost
  <2>1. \A n, l \in Nat : (n # 0 => n > 0) /\ (n = 0 => l + n = l)
    BY SMTT(40)
  <2> QED BY <1>1, <1>3, <2>1, ZenonT(60)
<1>5. /\ x.state = w.state /\ x.adv_timer = w.adv_timer
      /\ x.masterdown_timer = w.masterdown_timer /\ x.master_adv_int = w.master_adv_int
  BY ZenonT(60) DEF Fit, Instances
<1> HIDE DEF x, s
<1>6. inst'[k] = x /\ \A j \in Routers \ {k} : inst'[j] = inst[j]
  BY <1>1, ZenonT(60) DEF LanType
<1>7. sock'[k] = queue /\ \A j \in Routers \ {k} :
           sock'[j] = IF j \in up \ deaf THEN sock[j] \o s ELSE sock[j]
  BY <1>1, ZenonT(60)
<1> QED BY <1>1, <1>3, <1>4, <1>5, <1>6, <1>7, ZenonT(60) DEF Stepped, s

\* A resignation next to a master that owns the addresses comes from a split brain.
LEMMA OwnerCredit ==
  ASSUME Group, LanType, HoldInv, NEW k \in up, NEW w, NEW queue, Outcome(k, w, queue),
         Sent(Config[k], w) = <<ZeroAdv(k)>>, NEW i \in Masters \ {k},
         Priority[i] = PRIO_OWNER
  PROVE  Credit(i)
<1>0. k \in Routers /\ i \in Routers /\ k \in up \ {i}
  BY ZenonT(60) DEF LanType, Masters
<1>1. <<ZeroAdv(k)>> # <<OwnAdv(k)>> /\ <<ZeroAdv(k)>> # <<>>
  <2>1. ZeroAdv(k) # OwnAdv(k)
    BY <1>0, AdvPriority, ZenonT(60)
  <2> QED BY <2>1, SMTT(40)
<1>2. sock[k] = <<>> /\ inst[k].state = "MASTER"
  BY <1>1, ZenonT(60) DEF Outcome
<1>3. ~Beats(k, i) /\ Beats(i, k)
  BY <1>0, OwnerUnbeaten, ZenonT(60) DEF Group
<1>4. ~Preempts(k, i)
  <2>1. \A n \in Priorities : ~(n > PRIO_OWNER)
    BY SMTT(40) DEF Priorities, PRIO_OWNER
  <2> QED BY <1>0, <2>1, RouterType, ZenonT(60) DEF Preempts
<1>5. Hold(i, k)
  BY <1>0, <1>4, ZenonT(60) DEF HoldInv
<1>6. ~Announced(i, sock[k])
  BY <1>2, SMTT(40) DEF Announced
<1> QED BY <1>2, <1>3, <1>5, <1>6, ZenonT(60) DEF Hold, Quiet, Told

\* No packet lost, a step keeps each hold.
LEMMA PairHold ==
  ASSUME Group, LanType, HoldInv, NEW k \in up, NEW w, NEW queue,
         Outcome(k, w, queue), \A i : Above(i, k) => Still(i, k, w, queue),
         Stepped(k, w, queue, {}), up' \subseteq up, dual' \in Nat, dual' <= dual,
         NEW i \in Masters', NEW j \in up' \ {i}, ~Preempts(j, i)
  PROVE  Hold(i, j)'
<1> DEFINE s == Sent(Config[k], w)
<1>0. /\ k \in Routers /\ i \in Routers /\ j \in Routers /\ i \in up /\ j \in up /\ i # j
      /\ inst'[i].state = "MASTER" /\ lost \in Nat /\ dual \in Nat
  BY ZenonT(60) DEF LanType, Masters, HoldInv
<1>1. /\ lost' = lost /\ sock'[k] = queue
      /\ inst'[k].state = w.state /\ inst'[k].adv_timer = w.adv_timer
      /\ inst'[k].masterdown_timer = w.masterdown_timer
      /\ \A m \in Routers \ {k} : inst'[m] = inst[m]
      /\ \A m \in up \ {k} : sock'[m] = sock[m] \o s
  BY <1>0, ZenonT(60) DEF Stepped, LanType
<1>2. /\ Steady(k, w)
      /\ s = <<>> \/ s = <<OwnAdv(k)>> \/ (s = <<ZeroAdv(k)>> /\ w.state = "INIT")
      /\ w.state = "MASTER" /\ s = <<>> =>
           /\ inst[k].state = "MASTER" /\ w.adv_timer = inst[k].adv_timer
           /\ Priority[k] # PRIO_OWNER /\ Resigned(sock[k]) => Resigned(queue)
  BY Zenon DEF Outcome
<1>3. \A m \in Routers : sock[m] \in Seq(Packets) /\ sock[m] \o <<>> = sock[m]
  <2>1. \A q \in Seq(Packets) : q \o <<>> = q
    OBVIOUS
  <2> QED BY <2>1, ZenonT(60) DEF LanType
<1>4. OwnAdv(k) \in Packets /\ ZeroAdv(k) \in Packets
  <2>1. OwnAdv(k) \in PacketsOf(k) /\ ZeroAdv(k) \in PacketsOf(k)
    BY ZenonT(60) DEF PacketsOf, Sends, OwnAdv, ZeroAdv
  <2> QED BY <1>0, <2>1, ZenonT(60) DEF Packets
<1>5. OwnAdv(k).priority # 0 /\ ZeroAdv(k).priority = 0
  BY <1>0, AdvPriority, ZenonT(60)
<1> HIDE DEF s
<1>6. ASSUME inst[i].state = "MASTER", inst'[i].adv_timer = inst[i].adv_timer, Credit(i)
      PROVE  Credit(i)'
  <2>1. inst[i].adv_timer \in Nat
    BY <1>0, <1>6, ZenonT(60) DEF LanType, Fit, Disciplined
  <2>2. Config[i].adv_int \in Nat
    BY <1>0, IntervalKept, ZenonT(60) DEF Group
  <2>3. \A d, e, t, m \in Nat : e <= d /\ d + t <= m => e + t <= m
    BY SMTT(40)
  <2>4. \A x, y \in Nat : x * y \in Nat
    BY SMT
  <2> QED BY <1>0, <1>1, <1>6, <2>1, <2>2, <2>3, <2>4, ZenonT(60) DEF Credit
<1>7. CASE i = k
  <2>1. inst'[j] = inst[j] /\ sock'[j] = sock[j] \o s /\ w.state = "MASTER"
    BY <1>0, <1>1, <1>7, ZenonT(60)
  <2>2. CASE s = <<OwnAdv(k)>>
    <3>1. Announced(k, sock[j] \o <<OwnAdv(k)>>)
      BY <1>0, <1>3, <1>4, Appended, ZenonT(60)
    <3>2. Announced(i, sock[j])'
      BY <1>7, <2>1, <2>2, <3>1, ZenonT(60) DEF Announced
    <3> QED BY <3>2, ZenonT(60) DEF Hold
  <2>3. CASE s = <<>>
    <3>1. sock'[j] = sock[j]
      BY <1>0, <1>3, <2>1, <2>3, ZenonT(60)
    <3>2. inst[i].state = "MASTER" /\ inst'[i].adv_timer = inst[i].adv_timer
      BY <1>1, <1>2, <1>7, <2>1, <2>3, ZenonT(60)
    <3>3. Hold(i, j)
      BY <1>0, <3>2, ZenonT(60) DEF HoldInv, Masters
    <3>4. Quiet(i, j, inst[j], sock[j]) => Quiet(i, j, inst[j], sock[j])'
      BY <2>1, <3>1, <3>2, ZenonT(60) DEF Quiet, Resigned
    <3>5. Announced(i, sock[j]) => Announced(i, sock[j])'
      BY <3>1, ZenonT(60) DEF Announced
    <3>6. Told(i) => Told(i)'
      BY <1>1, <1>2, <1>7, <2>1, <2>3, ZenonT(60) DEF Told, Resigned
    <3> QED BY <1>6, <3>2, <3>3, <3>4, <3>5, <3>6, ZenonT(60) DEF Hold
  <2> QED BY <1>2, <2>1, <2>2, <2>3, ZenonT(60)
<1>8. CASE i # k
  <2>1. inst'[i] = inst[i] /\ sock'[i] = sock[i] \o s /\ inst[i].state = "MASTER"
    BY <1>0, <1>1, <1>8, ZenonT(60)
  <2>2. Hold(i, j)
    BY <1>0, <2>1, ZenonT(60) DEF HoldInv, Masters
  <2>3. Credit(i) => Credit(i)'
    BY <1>6, <2>1, SMTT(40)
  <2>4. Resigned(sock[i]) => Resigned(sock[i] \o s)
    BY <1>0, <1>2, <1>3, <1>4, Appended, ZenonT(60)
  <2>5. Told(i) => Told(i)'
    BY <2>1, <2>4, ZenonT(60) DEF Told, Resigned
  <2>6. ASSUME s = <<ZeroAdv(k)>> PROVE Hold(i, j)'
    <3>1. CASE Priority[i] = PRIO_OWNER
      <4>1. Credit(i)
        BY <1>0, <1>8, <2>1, <2>6, <3>1, OwnerCredit, ZenonT(60) DEF s, Masters
      <4> QED BY <2>3, <4>1, ZenonT(60) DEF Hold
    <3>2. CASE Priority[i] # PRIO_OWNER
      <4>1. Resigned(sock[i] \o <<ZeroAdv(k)>>)
        BY <1>0, <1>3, <1>4, <1>5, Appended, ZenonT(60)
      <4>2. Told(i)'
        BY <2>1, <2>6, <3>2, <4>1, ZenonT(60) DEF Told, Resigned
      <4> QED BY <4>2, ZenonT(60) DEF Hold
    <3> QED BY <3>1, <3>2, SMTT(40)
  <2>7. CASE j = k
    <3>1. inst[i].adv_timer \in Nat /\ inst[i].adv_timer <= Config[i].adv_int
      BY <1>0, <2>1, ZenonT(60) DEF LanType, Fit, Disciplined, HoldInv, Steady
    <3>2. Above(i, k)
      BY <1>0, <1>8, <2>1, <2>7, <3>1, ZenonT(60) DEF Above
    <3>3. Still(i, k, w, queue)
      BY <3>2, ZenonT(60)
    <3>4. Quiet(i, k, w, queue) => Quiet(i, j, inst[j], sock[j])'
      BY <1>1, <2>1, <2>7, ZenonT(60) DEF Quiet, Resigned
    <3>5. Announced(i, queue) => Announced(i, sock[j])'
      BY <1>1, <2>7, ZenonT(60) DEF Announced
    <3> QED BY <2>2, <2>3, <2>5, <2>6, <2>7, <3>3, <3>4, <3>5, ZenonT(60) DEF Hold, Still, s
  <2>8. CASE j # k /\ s # <<ZeroAdv(k)>>
    <3>1. inst'[j] = inst[j] /\ sock'[j] = sock[j] \o s
      BY <1>0, <1>1, <2>8, ZenonT(60)
    <3>2. Resigned(sock[j] \o s) => Resigned(sock[j])
      BY <1>0, <1>2, <1>3, <1>4, <1>5, <2>8, Appended, ZenonT(60)
    <3>3. Announced(i, sock[j]) => Announced(i, sock[j] \o s)
      BY <1>0, <1>2, <1>3, <1>4, <1>5, <2>8, Appended, ZenonT(60)
    <3>4. Quiet(i, j, inst[j], sock[j]) => Quiet(i, j, inst[j], sock[j])'
      BY <2>1, <3>1, <3>2, ZenonT(60) DEF Quiet, Resigned
    <3>5. Announced(i, sock[j]) => Announced(i, sock[j])'
      BY <3>1, <3>3, ZenonT(60) DEF Announced
    <3> QED BY <2>2, <2>3, <2>5, <3>4, <3>5, ZenonT(60) DEF Hold
  <2> QED BY <2>6, <2>7, <2>8, SMTT(40)
<1> QED BY <1>7, <1>8, SMTT(40)

LEMMA StepHold ==
  ASSUME Group, LanType, HoldInv, NEW k \in up, NEW w, Fit(k, w), NEW queue,
         Step(k, w, queue), Outcome(k, w, queue),
         \A i : Above(i, k) => Still(i, k, w, queue),
         up' = up \/ (up' = up \ {k} /\ queue = <<>>), dual' = 0 \/ dual' = dual
  PROVE  HoldInv'
<1>0. /\ k \in Routers /\ up \subseteq Routers /\ lost \in Nat /\ dual \in Nat
      /\ \A i \in Routers : Config[i].adv_int \in Nat
  BY IntervalKept, ZenonT(60) DEF LanType, HoldInv, Group
<1>1. PICK deaf : Stepped(k, w, queue, deaf)
  BY <1>0, StepStepped, ZenonT(60)
<1>2. /\ deaf \in SUBSET (up \ {k})
      /\ lost' = lost + Cardinality(deaf) /\ Cardinality(deaf) \in Nat
      /\ deaf # {} => Cardinality(deaf) > 0
      /\ inst'[k].state = w.state /\ inst'[k].adv_timer = w.adv_timer
      /\ inst'[k].master_adv_int = w.master_adv_int
      /\ \A j \in Routers \ {k} :
           inst'[j] = inst[j] /\ (j \notin up => sock'[j] = sock[j])
      /\ sock'[k] = queue
  BY <1>1, ZenonT(60) DEF Stepped
<1>3. lost' \in Nat /\ dual' \in Nat /\ dual' <= dual
  <2>1. \A m, n \in Nat : m + n \in Nat /\ 0 \in Nat /\ 0 <= m /\ m <= m
    BY SMTT(40)
  <2> QED BY <1>0, <1>2, <2>1, ZenonT(60)
<1>4. ASSUME NEW i \in Routers
      PROVE  Steady(i, inst'[i]) /\ (i \notin up' => sock'[i] = <<>>)
  <2>1. CASE i = k
    BY <1>2, <2>1, ZenonT(60) DEF Outcome, Steady
  <2>2. CASE i # k
    <3>1. i \notin up' => i \notin up
      BY <2>2, ZenonT(60)
    <3> QED BY <1>2, <2>2, <3>1, ZenonT(60) DEF HoldInv
  <2> QED BY <2>1, <2>2, SMTT(40)
<1>5. \A i \in Routers : dual' <= lost' * Config[i].adv_int
  <2>1. \A i \in Routers : dual <= lost * Config[i].adv_int
    BY ZenonT(60) DEF HoldInv
  <2> QED BY <1>0, <1>2, <1>3, <2>1, Losses, ZenonT(60)
<1>6. ASSUME NEW i \in Masters', NEW j \in up' \ {i}, ~Preempts(j, i)
      PROVE  Hold(i, j)'
  <2>0. up' \subseteq up
    BY ZenonT(60)
  <2>1. CASE deaf = {}
    BY <1>1, <1>3, <1>6, <2>0, <2>1, PairHold, ZenonT(60)
  <2>2. CASE deaf # {}
    <3>1. i \in Routers /\ inst'[i].state = "MASTER"
      BY <1>0, <1>6, <2>0, ZenonT(60) DEF Masters
    <3>2. inst'[i].adv_timer <= Config[i].adv_int
      BY <1>4, <3>1, ZenonT(60) DEF Steady
    <3>3. inst'[i].adv_timer \in Nat
      <4>1. CASE i = k
        BY <1>2, <3>1, <4>1, ZenonT(60) DEF Fit, Disciplined
      <4>2. CASE i # k
        BY <1>2, <3>1, <4>2, ZenonT(60) DEF LanType, Fit, Disciplined
      <4> QED BY <4>1, <4>2, SMTT(40)
    <3>4. dual <= lost * Config[i].adv_int
      BY <3>1, ZenonT(60) DEF HoldInv
    <3>5. lost' > 0 /\ dual' + inst'[i].adv_timer <= lost' * Config[i].adv_int
      BY <1>0, <1>2, <1>3, <2>2, <3>1, <3>2, <3>3, <3>4, Losses, ZenonT(60)
    <3> QED BY <3>5, ZenonT(60) DEF Hold, Credit
  <2> QED BY <2>1, <2>2, SMTT(40)
<1> QED BY <1>3, <1>4, <1>5, <1>6, ZenonT(60) DEF HoldInv, Steady

LEMMA Several ==
  ASSUME NEW S, IsFiniteSet(S)
  PROVE  /\ Cardinality(S) > 1 => \E i \in S : \E j \in S \ {i} : TRUE
         /\ Cardinality(S) = 1 <=> \E i : S = {i}
<1>1. Cardinality(S) = 1 <=> \E i : S = {i}
  BY FS_Singleton, ZenonT(60)
<1>2. S = {} => Cardinality(S) = 0
  BY FS_EmptySet, ZenonT(60)
<1>3. Cardinality(S) > 1 => S # {} /\ ~\E i : S = {i}
  <2>1. ~(0 > 1) /\ ~(1 > 1)
    BY SMTT(40)
  <2> QED BY <1>1, <1>2, <2>1, ZenonT(60)
<1>4. ASSUME Cardinality(S) > 1 PROVE \E i \in S : \E j \in S \ {i} : TRUE
  <2>1. PICK i : i \in S
    BY <1>3, <1>4, ZenonT(60)
  <2>2. S # {i}
    BY <1>3, <1>4, ZenonT(60)
  <2>3. S \ {i} # {}
    BY <2>1, <2>2, SMTT(40)
  <2> QED BY <2>1, <2>3, ZenonT(60)
<1> QED BY <1>1, <1>4, ZenonT(60)

\* The timers of the routers that run, when a unit of time passes.
LEMMA Ticked ==
  ASSUME LanType, Tick, NEW i \in up
  PROVE  /\ inst[i].state # "INIT" /\ sock[i] = <<>> /\ ~Expired(i)
         /\ inst'[i].state = inst[i].state
         /\ inst'[i].master_adv_int = inst[i].master_adv_int
         /\ inst[i].state = "MASTER" =>
              /\ inst[i].adv_timer \in Nat /\ inst[i].adv_timer > 0
              /\ inst'[i].adv_timer = inst[i].adv_timer - 1
         /\ inst[i].state = "BACKUP" =>
              /\ inst[i].masterdown_timer \in Nat /\ inst[i].masterdown_timer > 0
              /\ inst'[i].masterdown_timer = inst[i].masterdown_timer - 1
<1> DEFINE v == inst[i]
<1>1. /\ i \in Routers /\ v \in Instances /\ Disciplined(v) /\ v.state # "INIT"
      /\ ~Expired(i) /\ sock[i] = <<>>
  BY ZenonT(60) DEF Tick, Idle, LanType, Fit
<1>2. inst'[i] = Elapse(v)
  BY <1>1, ZenonT(60) DEF Tick
<1>3. /\ v.state = "MASTER" => v.adv_timer \in Nat /\ v.adv_timer # 0
      /\ v.state = "BACKUP" => v.masterdown_timer \in Nat /\ v.masterdown_timer # 0
  <2>1. Cleared \notin Nat
    BY SMTT(40) DEF Cleared
  <2> QED BY <1>1, <2>1, ZenonT(60) DEF Disciplined, Expired, CurrentTimer, vrrp_timer_is_running,
                     vrrp_timer_is_expired
<1>4. \A n \in Nat : n # 0 => n > 0
  BY SMTT(40)
<1>5. /\ inst'[i].state = v.state /\ inst'[i].master_adv_int = v.master_adv_int
      /\ v.masterdown_timer > 0 => inst'[i].masterdown_timer = v.masterdown_timer - 1
  BY <1>1, <1>2, ElapsePost, ZenonT(60)
<1>6. v.adv_timer > 0 => inst'[i].adv_timer = v.adv_timer - 1
  BY <1>1, <1>2, ZenonT(60) DEF Elapse, Instances
<1> QED BY <1>1, <1>3, <1>4, <1>5, <1>6, ZenonT(60)

LEMMA TickHold ==
  ASSUME Group, LanType, HoldInv, Tick
  PROVE  HoldInv'
<1>0. /\ up \subseteq Routers /\ lost \in Nat /\ dual \in Nat
      /\ \A i \in Routers : Config[i].adv_int \in Nat /\ lost * Config[i].adv_int \in Nat
  <2>1. \A m, n \in Nat : m * n \in Nat
    BY SMTT(40)
  <2> QED BY <2>1, IntervalKept, ZenonT(60) DEF LanType, HoldInv, Group
<1>1. /\ up' = up /\ sock' = sock /\ lost' = lost
      /\ dual' = IF Cardinality(Masters') > 1 THEN dual + 1 ELSE 0
      /\ \A i \in Routers \ up : inst'[i] = inst[i]
  BY ZenonT(60) DEF Tick, Watch
<1>2. Masters' = Masters /\ Masters \subseteq Routers
  BY <1>0, <1>1, Ticked, ZenonT(60) DEF Masters
<1>3. IsFiniteSet(Masters')
  BY <1>2, RoutersAssumption, FS_Subset, ZenonT(60)
<1>4. ASSUME NEW i \in Routers
      PROVE  Steady(i, inst'[i]) /\ (i \notin up => sock[i] = <<>>)
  <2>1. CASE i \in up
    <3>1. \A t, a \in Nat : t <= a => t - 1 <= a
      BY SMTT(40)
    <3> QED BY <1>0, <2>1, <3>1, Ticked, ZenonT(60) DEF HoldInv, Steady
  <2>2. CASE i \notin up
    BY <1>1, <2>2, ZenonT(60) DEF HoldInv
  <2> QED BY <2>1, <2>2, SMTT(40)
<1>5. ASSUME NEW i \in Masters, NEW j \in up \ {i}, ~Preempts(j, i)
      PROVE  Quiet(i, j, inst[j], sock[j]) \/ Credit(i)
  <2>1. i \in up
    BY ZenonT(60) DEF Masters
  <2>2. sock[i] = <<>> /\ sock[j] = <<>>
    BY <2>1, Ticked, ZenonT(60)
  <2>3. ~Resigned(<<>>) /\ ~Announced(i, <<>>)
    BY DEF Resigned, Announced
  <2>4. Hold(i, j)
    BY <1>5, ZenonT(60) DEF HoldInv
  <2> QED BY <2>2, <2>3, <2>4, ZenonT(60) DEF Hold, Told
<1>6. dual' \in Nat /\ \A i \in Routers : dual' <= lost' * Config[i].adv_int
  <2>1. CASE ~(Cardinality(Masters') > 1)
    <3>1. 0 \in Nat /\ \A n \in Nat : 0 <= n
      BY SMTT(40)
    <3> QED BY <1>0, <1>1, <2>1, <3>1, ZenonT(60)
  <2>2. CASE Cardinality(Masters') > 1
    <3>1. PICK i \in Masters : \E j \in Masters \ {i} : Beats(i, j)
      <4>1. PICK i \in Masters : \E j \in Masters \ {i} : TRUE
        BY <1>2, <1>3, <2>2, Several, ZenonT(60)
      <4>2. PICK j \in Masters \ {i} : TRUE
        BY <4>1, SMTT(40)
      <4>3. Beats(i, j) \/ Beats(j, i)
        BY <1>2, <4>1, <4>2, ZenonT(60) DEF Group
      <4>4. i \in Masters \ {j}
        BY <4>1, <4>2, ZenonT(60)
      <4> QED BY <4>1, <4>2, <4>3, <4>4, ZenonT(60)
    <3>2. PICK j \in Masters \ {i} : Beats(i, j)
      BY <3>1, SMTT(40)
    <3>3. i \in up /\ j \in up \ {i} /\ inst[i].state = "MASTER" /\ inst[j].state = "MASTER"
      BY <3>1, <3>2, ZenonT(60) DEF Masters
    <3>4. ~Preempts(j, i)
      <4>1. \A m, n \in Priorities : m > n \/ m = n => ~(n > m)
        BY SMTT(40) DEF Priorities
      <4> QED BY <1>0, <3>2, <3>3, <4>1, RouterType, ZenonT(60) DEF Beats, Preempts
    <3>5. Credit(i)
      BY <1>5, <3>1, <3>2, <3>3, <3>4, ZenonT(60) DEF Quiet
    <3>6. \A d, t, m \in Nat : t > 0 /\ d + t <= m => d + 1 <= m /\ d + 1 \in Nat
      BY SMTT(40)
    <3>7. inst[i].adv_timer \in Nat /\ inst[i].adv_timer > 0
      BY <3>3, Ticked, ZenonT(60)
    <3>8. dual + 1 <= lost * Config[i].adv_int /\ dual + 1 \in Nat
      BY <1>0, <3>3, <3>5, <3>6, <3>7, ZenonT(60) DEF Credit
    <3>9. \A m \in Routers : Config[m].adv_int = Config[i].adv_int
      BY <1>0, <3>3, ZenonT(60) DEF Group, Alike
    <3> QED BY <1>1, <2>2, <3>8, <3>9, ZenonT(60)
  <2> QED BY <2>1, <2>2, SMTT(40)
<1>7. ASSUME NEW i \in Masters, NEW j \in up \ {i}, ~Preempts(j, i)
      PROVE  Hold(i, j)'
  <2>1. /\ i \in up /\ inst[i].adv_timer \in Nat /\ inst[i].adv_timer > 0
        /\ inst'[i].adv_timer = inst[i].adv_timer - 1
    BY Ticked, ZenonT(60) DEF Masters
  <2>2. CASE Quiet(i, j, inst[j], sock[j])
    <3>1. inst'[j].state = "BACKUP" => inst'[j].masterdown_timer > inst'[i].adv_timer
      <4>1. \A m, n \in Nat : m > n => m - 1 > n - 1
        BY SMTT(40)
      <4> QED BY <2>1, <2>2, <4>1, Ticked, ZenonT(60) DEF Quiet
    <3>2. inst'[j].state = inst[j].state
      BY Ticked, ZenonT(60)
    <3>3. Quiet(i, j, inst[j], sock[j])'
      BY <1>1, <2>2, <3>1, <3>2, ZenonT(60) DEF Quiet, Resigned
    <3> QED BY <3>3, ZenonT(60) DEF Hold
  <2>3. CASE Credit(i)
    <3>1. \A d, t, m \in Nat : t > 0 /\ d + t <= m =>
            (d + 1) + (t - 1) <= m /\ 0 + (t - 1) <= m
      BY SMTT(40)
    <3>2. dual' + inst'[i].adv_timer <= lost * Config[i].adv_int
      BY <1>0, <1>1, <2>1, <2>3, <3>1, ZenonT(60) DEF Credit
    <3>3. Credit(i)'
      BY <1>1, <2>3, <3>2, ZenonT(60) DEF Credit
    <3> QED BY <3>3, ZenonT(60) DEF Hold
  <2> QED BY <1>5, <1>7, <2>2, <2>3, SMTT(40)
<1> QED BY <1>0, <1>1, <1>2, <1>4, <1>6, <1>7, ZenonT(60) DEF HoldInv, Steady

\* What the history keeps of a step that takes no time.
Recorded ==
  /\ dual' = 0 \/ dual' = dual
  /\ reign' = IF Cardinality(Masters') = 1 /\ reign = Masters' THEN Masters' ELSE {}

LEMMA WatchRecorded ==
  ASSUME HoldInv, NEW disturbed, Watch(0, disturbed)
  PROVE  Recorded
<1>1. dual + 0 = dual
  BY SMTT(40) DEF HoldInv
<1>2. ~(0 > 0)
  BY SMTT(40)
<1> QED BY <1>1, <1>2, ZenonT(60) DEF Watch, Recorded

\* Router k ends an iteration as w, and queue is left in its socket: it is a master
\* then if it was one, owns the addresses, or has waited for one in vain.
Handled(k, w, queue) ==
  /\ k \in up /\ Fit(k, w) /\ Step(k, w, queue) /\ Outcome(k, w, queue) /\ Recorded
  /\ \A i : Above(i, k) => Still(i, k, w, queue) /\ Awaits(i, k, w)
  /\ sock[k] = <<>> /\ inst[k].state = "MASTER" => w.state = "MASTER" \/ w.state = "INIT"
  /\ w.state = "MASTER" =>
       \/ inst[k].state = "MASTER"
       \/ inst[k].state = "INIT" /\ Priority[k] = PRIO_OWNER
       \/ inst[k].state = "BACKUP" /\ inst[k].masterdown_timer = 0
  /\ up' = up \/ (up' = up \ {k} /\ queue = <<>> /\ w.state = "INIT")

LEMMA Handles ==
  ASSUME Group, LanType, HoldInv, NEW k \in Routers, Loop(k) \/ Reload(k) \/ Stop(k)
  PROVE  \E w, queue : Handled(k, w, queue)
<1>0. /\ Fit(k, inst[k]) /\ inst[k].out = <<>> /\ Steady(k, inst[k])
      /\ sock[k] \in Seq(Packets)
      /\ inst[k].state \in States
  BY ZenonT(60) DEF LanType, HoldInv, Fit, Instances
<1>1. CASE StateInit(k)
  <2> DEFINE w == vrrp_state_init(Config[k], inst[k])
  <2>1. k \in up /\ inst[k].state = "INIT" /\ Step(k, w, sock[k]) /\ up' = up /\ Watch(0, FALSE)
    BY <1>1, ZenonT(60) DEF StateInit
  <2>2. Fit(k, w)
    BY <1>0, <2>1, InitFit, ZenonT(60)
  <2>3. /\ Outcome(k, w, sock[k])
        /\ w.state = "MASTER" => Priority[k] = PRIO_OWNER
        /\ \A i : Above(i, k) => Still(i, k, w, sock[k]) /\ Awaits(i, k, w)
    BY <2>1, InitOutcome, ZenonT(60)
  <2>4. Recorded
    BY <2>1, WatchRecorded, ZenonT(60)
  <2> HIDE DEF w
  <2>5. Handled(k, w, sock[k])
    BY <2>1, <2>2, <2>3, <2>4, ZenonT(60) DEF Handled
  <2> QED BY <2>5, ZenonT(60)
<1>2. CASE Timer(k)
  <2> DEFINE w == OnTimer(Config[k], inst[k])
  <2>1. /\ k \in up /\ inst[k].state # "INIT" /\ Expired(k) /\ Step(k, w, sock[k])
        /\ up' = up /\ Watch(0, FALSE)
    BY <1>2, ZenonT(60) DEF Timer
  <2>2. Fit(k, w)
    BY <1>0, <2>1, TimerFit, ZenonT(60)
  <2>3. /\ Outcome(k, w, sock[k]) /\ w.state = "MASTER"
        /\ \A i : Above(i, k) => Still(i, k, w, sock[k])
    BY <1>0, <2>1, TimerOutcome, ZenonT(60)
  <2>4. Recorded
    BY <2>1, WatchRecorded, ZenonT(60)
  <2>5. inst[k].state = "BACKUP" => inst[k].masterdown_timer = 0
    BY <1>0, <2>1, ZenonT(60) DEF Fit, Disciplined, Expired, CurrentTimer, vrrp_timer_is_running,
                             vrrp_timer_is_expired
  <2> HIDE DEF w
  <2>6. \A i : Awaits(i, k, w)
    BY <2>3, ZenonT(60) DEF Awaits
  <2>7. inst[k].state = "BACKUP" \/ inst[k].state = "MASTER"
    BY <1>0, <2>1, ZenonT(60) DEF States
  <2>8. Handled(k, w, sock[k])
    BY <2>1, <2>2, <2>3, <2>4, <2>5, <2>6, <2>7, ZenonT(60) DEF Handled
  <2> QED BY <2>8, Zenon
<1>3. CASE Recv(k)
  <2> DEFINE p == Head(sock[k])
             q == Tail(sock[k])
             w == OnPkt(Config[k], inst[k], p)
  <2>1. /\ k \in up /\ inst[k].state # "INIT" /\ sock[k] # <<>> /\ Step(k, w, q)
        /\ up' = up /\ Watch(0, FALSE)
    BY <1>3, ZenonT(60) DEF Recv
  <2>2. p \in Packets
    BY <1>0, <2>1, SMTT(40)
  <2>3. Fit(k, w)
    BY <1>0, <2>1, <2>2, PktFit, ZenonT(60)
  <2>4. /\ Outcome(k, w, q)
        /\ inst[k].state # "MASTER" => w.state # "MASTER"
        /\ \A i : Above(i, k) => Still(i, k, w, q) /\ Awaits(i, k, w)
    BY <1>0, <2>1, PktOutcome, ZenonT(60)
  <2>5. Recorded
    BY <2>1, WatchRecorded, ZenonT(60)
  <2> HIDE DEF w, q
  <2>6. Handled(k, w, q)
    BY <2>1, <2>3, <2>4, <2>5, ZenonT(60) DEF Handled
  <2> QED BY <2>6, ZenonT(60)
<1>4. CASE Reload(k) \/ Stop(k)
  <2> DEFINE w == OnReload(Config[k], inst[k])
  <2>1. /\ k \in up /\ inst[k].state # "INIT" /\ sock[k] = <<>> /\ Step(k, w, sock[k])
        /\ up' = up \/ up' = up \ {k}
        /\ Watch(0, TRUE)
    BY <1>4, ZenonT(60) DEF Reload, Stop
  <2>2. Fit(k, w)
    BY <1>0, <2>1, ReloadFit, ZenonT(60)
  <2>3. /\ Outcome(k, w, sock[k]) /\ w.state = "INIT"
        /\ \A i : Still(i, k, w, sock[k])
    BY <2>1, ReloadOutcome, ZenonT(60)
  <2>4. Recorded
    BY <2>1, WatchRecorded, ZenonT(60)
  <2> HIDE DEF w
  <2>5. \A i : Awaits(i, k, w)
    BY <2>3, ZenonT(60) DEF Awaits
  <2>6. Handled(k, w, sock[k])
    BY <2>1, <2>2, <2>3, <2>4, <2>5, ZenonT(60) DEF Handled
  <2> QED BY <2>6, Zenon
<1> QED BY <1>1, <1>2, <1>3, <1>4, ZenonT(60) DEF Loop

LEMMA NextHold == Group /\ OutageInv /\ HoldInv /\ [Next]_vars => HoldInv'
<1> SUFFICES ASSUME Group, OutageInv, HoldInv, [Next]_vars PROVE HoldInv'
  OBVIOUS
<1>0. /\ LanType /\ up \subseteq Routers /\ lost \in Nat /\ dual \in Nat
      /\ inst \in [Routers -> Instances] /\ sock \in [Routers -> Seq(Packets)]
      /\ \A i \in Routers : Steady(i, inst[i]) /\ (i \notin up => sock[i] = <<>>)
      /\ \A i \in Routers : dual <= lost * Config[i].adv_int
  BY ZenonT(60) DEF OutageInv, LanType, HoldInv
<1>1. ASSUME NEW k \in Routers, Loop(k) \/ Reload(k) \/ Stop(k) PROVE HoldInv'
  <2>1. PICK w, queue : Handled(k, w, queue)
    BY <1>0, <1>1, Handles, ZenonT(60)
  <2> QED BY <1>0, <2>1, StepHold, ZenonT(60) DEF Handled, Recorded
\* a router that starts or crashes, and is in INIT then
<1>2. ASSUME NEW k \in Routers, Start(k) \/ Crash(k) PROVE HoldInv'
  <2> DEFINE x == NewInstance(Config[k], Priority[k])
  <2>1. /\ inst' = [inst EXCEPT ![k] = x] /\ lost' = lost /\ Watch(0, TRUE)
        /\ \/ up' = up \cup {k} /\ k \notin up /\ sock' = sock
           \/ up' = up \ {k} /\ sock' = [sock EXCEPT ![k] = <<>>]
    BY <1>2, ZenonT(60) DEF Start, Crash
  <2>2. x.state = "INIT"
    BY NewFit, ZenonT(60)
  <2> HIDE DEF x
  <2>3. /\ inst'[k].state = "INIT" /\ sock'[k] = <<>>
        /\ \A j \in Routers \ {k} : inst'[j] = inst[j] /\ sock'[j] = sock[j]
        /\ \A j \in Routers \ {k} : j \in up' <=> j \in up
        /\ up' \subseteq Routers
    BY <1>0, <2>1, <2>2, ZenonT(60)
  <2>4. Recorded
    BY <2>1, WatchRecorded, ZenonT(60)
  <2>5. dual' \in Nat /\ dual' <= dual
    <3>1. 0 \in Nat /\ \A n \in Nat : 0 <= n /\ n <= n
      BY SMTT(40)
    <3> QED BY <1>0, <2>4, <3>1, ZenonT(60) DEF Recorded
  <2>6. \A i \in Routers : Config[i].adv_int \in Nat /\ lost * Config[i].adv_int \in Nat
    <3>1. \A m, n \in Nat : m * n \in Nat
      BY SMTT(40)
    <3> QED BY <1>0, <3>1, IntervalKept, ZenonT(60) DEF Group
  <2>7. /\ \A d, e, m \in Nat : e <= d /\ d <= m => e <= m
        /\ \A d, e, t, m \in Nat : e <= d /\ d + t <= m => e + t <= m
    BY SMTT(40)
  <2>8. \A i \in Routers : dual' <= lost' * Config[i].adv_int
    <3>1. ASSUME NEW i \in Routers PROVE dual' <= lost * Config[i].adv_int
      <4>1. lost * Config[i].adv_int \in Nat /\ dual <= lost * Config[i].adv_int
        BY <1>0, <2>6, ZenonT(60)
      <4> QED BY <1>0, <2>5, <2>7, <4>1, SMTT(40)
    <3>2. lost' = lost
      BY <2>1, SMTT(40)
    <3> QED BY <3>1, <3>2, ZenonT(60)
  <2>9. \A i \in Routers : Steady(i, inst'[i]) /\ (i \notin up' => sock'[i] = <<>>)
    BY <1>0, <2>3, ZenonT(60) DEF Steady
  <2>10. ASSUME NEW i \in Masters', NEW j \in up' \ {i}, ~Preempts(j, i) PROVE Hold(i, j)'
    <3>1. /\ i \in Routers \ {k} /\ i \in Masters /\ inst'[i] = inst[i] /\ sock'[i] = sock[i]
          /\ j \in Routers /\ inst[i].state = "MASTER"
      BY <2>3, ZenonT(60) DEF Masters
    <3>2. CASE j = k
      <4>1. ~Resigned(<<>>)
        BY DEF Resigned
      <4> QED BY <2>3, <3>2, <4>1, ZenonT(60) DEF Hold, Quiet, Resigned
    <3>3. CASE j # k
      <4>1. inst'[j] = inst[j] /\ sock'[j] = sock[j] /\ Hold(i, j)
        BY <2>3, <2>10, <3>1, <3>3, ZenonT(60) DEF HoldInv
      <4>2. inst[i].adv_timer \in Nat
        BY <1>0, <3>1, ZenonT(60) DEF LanType, Fit, Disciplined
      <4>3. Credit(i) => Credit(i)'
        <5>1. lost' = lost /\ inst'[i].adv_timer = inst[i].adv_timer
          BY <2>1, <3>1, ZenonT(60)
        <5>2. lost * Config[i].adv_int \in Nat
          BY <2>6, <3>1, ZenonT(60)
        <5>3. dual + inst[i].adv_timer <= lost * Config[i].adv_int =>
                dual' + inst[i].adv_timer <= lost * Config[i].adv_int
          BY <1>0, <2>5, <2>7, <4>2, <5>2, SMTT(40)
        <5> QED BY <5>1, <5>3, ZenonT(60) DEF Credit
      <4> QED BY <3>1, <4>1, <4>3, ZenonT(60) DEF Hold, Quiet, Told, Resigned, Announced
    <3> QED BY <3>2, <3>3, SMTT(40)
  <2> QED BY <1>0, <2>1, <2>5, <2>8, <2>9, <2>10, ZenonT(60) DEF HoldInv, Steady
<1>3. CASE Tick
  BY <1>0, <1>3, TickHold, ZenonT(60)
<1>4. CASE UNCHANGED vars
  <2>1. inst' = inst /\ up' = up /\ sock' = sock /\ lost' = lost /\ dual' = dual
    BY <1>4, ZenonT(60) DEF vars
  <2>2. \A i, j : Hold(i, j) => Hold(i, j)'
    BY <2>1, ZenonT(60) DEF Hold, Quiet, Told, Resigned, Announced, Credit
  <2>3. Masters' = Masters
    BY <2>1, Zenon DEF Masters
  <2> QED BY <2>1, <2>2, <2>3, ZenonT(60) DEF HoldInv, Steady
<1> QED BY <1>1, <1>2, <1>3, <1>4, ZenonT(60) DEF Next

LEMMA InitHold == Group /\ Init => HoldInv
<1> SUFFICES ASSUME Group, Init PROVE HoldInv
  OBVIOUS
<1>1. \A i \in Routers : inst[i].state = "INIT" /\ sock[i] = <<>>
  BY NewFit, ZenonT(60) DEF Init
<1>2. lost = 0 /\ dual = 0 /\ Masters = {}
  BY ZenonT(60) DEF Init, Masters
<1>3. 0 \in Nat /\ \A n \in Nat : 0 <= 0 * n
  BY SMTT(40)
<1>4. \A i \in Routers : Config[i].adv_int \in Nat
  BY IntervalKept, ZenonT(60) DEF Group
<1> QED BY <1>1, <1>2, <1>3, <1>4, Zenon DEF HoldInv, Steady

\* Two masters are always the work of a lost packet, and each loss prolongs them by
\* one advertisement interval at most, for any group of routers: between two
\* advertisements of a master the masterdown timer of a backup does not run out, and
\* of two masters that hear each other one yields, vrrp_state_backup and
\* vrrp_state_master see to that.
THEOREM SplitBrainHealed ==
  ASSUME Group
  PROVE  Spec => []SplitBrainHeals
<1>1. OutageInv /\ HoldInv => SplitBrainHeals
  BY ZenonT(60) DEF OutageInv, LanType, HoldInv, SplitBrainHeals
<1>2. Init => HoldInv
  BY InitHold, ZenonT(60)
<1>3. OutageInv /\ HoldInv /\ [Next]_vars => HoldInv'
  BY NextHold, ZenonT(60)
<1> QED BY <1>1, <1>2, <1>3, InitOutage, NextOutage, PTL DEF Spec

--------------------------------------------------------------------------------
(* A reign without loss. *)

\* The master i is alone, what waits in the sockets comes from it, and the routers it
\* can hold back go on to wait.
Reigns(i) ==
  /\ Masters = {i} /\ reign = {i} /\ sock[i] = <<>>
  /\ \A j \in up : Only(i, sock[j])
  /\ \A j \in up : inst[j].state = "BACKUP" /\ ~Preempts(j, i) => inst[j].masterdown_timer > 0

ReignInv == lost = 0 => \A i \in reign : Reigns(i)

\* A queue that grows or shrinks holds advertisements of router i only.
LEMMA OnlyKept ==
  ASSUME NEW i, NEW q \in Seq(Packets), Only(i, q)
  PROVE  /\ Only(i, q \o <<OwnAdv(i)>>)
         /\ q # <<>> => Only(i, Tail(q))
<1>1. ASSUME NEW p, p = OwnAdv(i) PROVE Only(i, q \o <<p>>)
  <2> DEFINE t == q \o <<p>>
             k == Len(q)
  <2>1. k \in Nat /\ Len(t) = k + 1 /\ t[k + 1] = p /\ \A n \in 1..k : t[n] = q[n]
    OBVIOUS
  <2>2. \A n \in 1..(k + 1) : n \in 1..k \/ n = k + 1
    BY <2>1, SMTT(40)
  <2>3. \A n \in 1..k : q[n] = OwnAdv(i)
    BY ZenonT(60) DEF Only
  <2> HIDE DEF t, k
  <2>4. \A n \in 1..Len(t) : t[n] = OwnAdv(i)
    BY <1>1, <2>1, <2>2, <2>3, ZenonT(60)
  <2> QED BY <2>4, ZenonT(60) DEF Only, t
<1>2. ASSUME q # <<>> PROVE Only(i, Tail(q))
  <2> DEFINE t == Tail(q)
             k == Len(t)
  <2>1. k \in Nat /\ Len(q) = k + 1 /\ \A n \in 1..k : t[n] = q[n + 1]
    BY <1>2, SMTT(40)
  <2>2. \A n \in 1..k : n + 1 \in 1..(k + 1)
    BY <2>1, SMTT(40)
  <2> HIDE DEF t
  <2> QED BY <2>1, <2>2, ZenonT(60) DEF Only, t
<1> QED BY <1>1, <1>2, ZenonT(60)

LEMMA StepReign ==
  ASSUME Group, LanType, HoldInv, ReignInv, NEW k \in Routers, NEW w, NEW queue,
         Handled(k, w, queue)
  PROVE  ReignInv'
<1> SUFFICES ASSUME lost' = 0, NEW i \in reign' PROVE Reigns(i)'
  BY ZenonT(60) DEF ReignInv
<1>0. lost \in Nat /\ up \subseteq Routers /\ k \in up
  BY ZenonT(60) DEF HoldInv, LanType, Handled
<1>1. PICK deaf : Stepped(k, w, queue, deaf)
  BY <1>0, StepStepped, ZenonT(60) DEF Handled
<1>2. lost = 0 /\ deaf = {}
  <2>1. /\ lost' = lost + Cardinality(deaf) /\ Cardinality(deaf) \in Nat
        /\ deaf # {} => Cardinality(deaf) > 0
    BY <1>1, ZenonT(60) DEF Stepped
  <2>2. \A m, n \in Nat : m + n = 0 => m = 0 /\ ~(n > 0)
    BY SMTT(40)
  <2> QED BY <1>0, <2>1, <2>2, ZenonT(60)
<1>3. reign' = Masters' /\ reign = Masters' /\ Cardinality(Masters') = 1
  BY ZenonT(60) DEF Handled, Recorded
<1>4. Reigns(i)
  BY <1>2, <1>3, ZenonT(60) DEF ReignInv
<1>5. /\ Masters = {i} /\ Masters' = {i} /\ reign' = {i} /\ sock[i] = <<>>
      /\ i \in Routers /\ i \in up /\ inst[i].state = "MASTER" /\ up' \subseteq up
  BY <1>0, <1>3, <1>4, ZenonT(60) DEF Reigns, Masters, Handled
<1>6. \A j \in Routers : sock[j] \in Seq(Packets) /\ sock[j] \o <<>> = sock[j]
  <2>1. \A q \in Seq(Packets) : q \o <<>> = q
    OBVIOUS
  <2> QED BY <2>1, ZenonT(60) DEF LanType
<1>7. /\ inst'[k].state = w.state /\ inst'[k].masterdown_timer = w.masterdown_timer
      /\ sock'[k] = queue
      /\ \A j \in Routers \ {k} : inst'[j] = inst[j]
      /\ \A j \in up \ {k} : sock'[j] = sock[j] \o Sent(Config[k], w)
  BY <1>0, <1>1, <1>2, ZenonT(60) DEF Stepped
<1>8. \A j \in up : Only(i, sock[j])
  BY <1>4, ZenonT(60) DEF Reigns
<1>9. CASE k = i
  <2>1. inst'[i].state = "MASTER"
    BY <1>5, ZenonT(60) DEF Masters
  <2>2. queue = <<>>
    BY <1>5, <1>9, ZenonT(60) DEF Handled, Outcome
  <2>3. Sent(Config[k], w) = <<>> \/ Sent(Config[k], w) = <<OwnAdv(i)>>
    <3>1. w.state # "INIT"
      BY <1>7, <1>9, <2>1, ZenonT(60)
    <3> QED BY <1>9, <3>1, ZenonT(60) DEF Handled, Outcome
  <2>4. ASSUME NEW j \in up' PROVE Only(i, sock'[j])
    <3>1. CASE j = i
      <4>1. sock'[j] = sock[j]
        BY <1>5, <1>7, <1>9, <2>2, <3>1, ZenonT(60)
      <4> QED BY <1>5, <1>8, <3>1, <4>1, ZenonT(60)
    <3>2. CASE j # i
      <4>1. j \in up /\ j \in Routers /\ sock'[j] = sock[j] \o Sent(Config[k], w)
        BY <1>0, <1>5, <1>7, <1>9, <3>2, ZenonT(60)
      <4> QED BY <1>6, <1>8, <2>3, <4>1, OnlyKept, ZenonT(60)
    <3> QED BY <3>1, <3>2, SMTT(40)
  <2>5. ASSUME NEW j \in up', inst'[j].state = "BACKUP", ~Preempts(j, i)
        PROVE  inst'[j].masterdown_timer > 0
    <3>1. j # i /\ j \in up /\ inst'[j] = inst[j]
      BY <1>0, <1>5, <1>7, <1>9, <2>1, <2>5, ZenonT(60)
    <3> QED BY <1>4, <2>5, <3>1, ZenonT(60) DEF Reigns
  <2>6. sock'[i] = <<>>
    BY <1>7, <1>9, <2>2, ZenonT(60)
  <2> QED BY <1>5, <2>4, <2>5, <2>6, ZenonT(60) DEF Reigns, Only
<1>10. CASE k # i
  <2>1. inst[k].state # "MASTER"
    BY <1>0, <1>5, <1>10, ZenonT(60) DEF Masters
  <2>2. w.state # "MASTER"
    <3>1. k \in up' => inst'[k].state # "MASTER"
      BY <1>5, <1>10, ZenonT(60) DEF Masters
    <3>2. k \notin up' => w.state = "INIT"
      BY <1>0, ZenonT(60) DEF Handled
    <3> QED BY <1>7, <3>1, <3>2, ZenonT(60)
  <2>3. Sent(Config[k], w) = <<>> /\ (queue = sock[k] \/ (sock[k] # <<>> /\ queue = Tail(sock[k])))
    BY <2>1, <2>2, ZenonT(60) DEF Handled, Outcome
  <2>4. \A j \in up \ {k} : sock'[j] = sock[j] /\ inst'[j] = inst[j]
    BY <1>0, <1>6, <1>7, <2>3, ZenonT(60)
  <2>5. Only(i, queue)
    BY <1>0, <1>6, <1>8, <2>3, OnlyKept, ZenonT(60)
  <2>6. ASSUME w.state = "BACKUP", ~Preempts(k, i) PROVE w.masterdown_timer > 0
    <3>1. inst[i].adv_timer \in Nat /\ inst[i].adv_timer <= Config[i].adv_int
      BY <1>5, ZenonT(60) DEF LanType, Fit, Disciplined, HoldInv, Steady
    <3>2. Above(i, k)
      BY <1>5, <1>10, <2>6, <3>1, ZenonT(60) DEF Above
    <3>3. Awaits(i, k, w)
      BY <3>2, ZenonT(60) DEF Handled
    <3>4. inst[k].state = "BACKUP" => inst[k].masterdown_timer > 0
      BY <1>0, <1>4, <2>6, ZenonT(60) DEF Reigns
    <3> QED BY <1>0, <1>8, <2>1, <2>6, <3>3, <3>4, ZenonT(60) DEF Awaits
  <2>7. \A j \in up' : Only(i, sock'[j])
    BY <1>5, <1>7, <1>8, <2>4, <2>5, ZenonT(60)
  <2>8. ASSUME NEW j \in up', inst'[j].state = "BACKUP", ~Preempts(j, i)
        PROVE  inst'[j].masterdown_timer > 0
    <3>1. CASE j = k
      BY <1>7, <2>6, <2>8, <3>1, ZenonT(60)
    <3>2. CASE j # k
      BY <1>4, <1>5, <2>4, <2>8, <3>2, ZenonT(60) DEF Reigns
    <3> QED BY <3>1, <3>2, SMTT(40)
  <2>9. sock'[i] = <<>>
    BY <1>5, <1>10, <2>4, ZenonT(60)
  <2> QED BY <1>5, <2>7, <2>8, <2>9, ZenonT(60) DEF Reigns, Only
<1> QED BY <1>9, <1>10, SMTT(40)

LEMMA NextReign == Group /\ OutageInv /\ HoldInv /\ ReignInv /\ [Next]_vars => ReignInv'
<1> SUFFICES ASSUME Group, OutageInv, HoldInv, ReignInv, [Next]_vars PROVE ReignInv'
  OBVIOUS
<1>0. /\ LanType /\ up \subseteq Routers /\ lost \in Nat
      /\ inst \in [Routers -> Instances] /\ sock \in [Routers -> Seq(Packets)]
      /\ \A i \in Routers : i \notin up => sock[i] = <<>>
  BY ZenonT(60) DEF OutageInv, LanType, HoldInv
<1>e. \A i : Only(i, <<>>)
  BY DEF Only
<1>1. ASSUME NEW k \in Routers, Loop(k) \/ Reload(k) \/ Stop(k) PROVE ReignInv'
  <2>1. PICK w, queue : Handled(k, w, queue)
    BY <1>0, <1>1, Handles, ZenonT(60)
  <2> QED BY <1>0, <2>1, StepReign, ZenonT(60)
<1>2. ASSUME NEW k \in Routers, Start(k) \/ Crash(k), lost' = 0, NEW i \in reign'
      PROVE  Reigns(i)'
  <2> DEFINE x == NewInstance(Config[k], Priority[k])
  <2>1. /\ inst' = [inst EXCEPT ![k] = x] /\ lost' = lost /\ Watch(0, TRUE)
        /\ \/ up' = up \cup {k} /\ k \notin up /\ sock' = sock
           \/ up' = up \ {k} /\ sock' = [sock EXCEPT ![k] = <<>>]
    BY <1>2, ZenonT(60) DEF Start, Crash
  <2>2. x.state = "INIT"
    BY NewFit, ZenonT(60)
  <2> HIDE DEF x
  <2>3. /\ inst'[k].state = "INIT" /\ sock'[k] = <<>>
        /\ \A j \in Routers \ {k} : inst'[j] = inst[j] /\ sock'[j] = sock[j]
        /\ \A j \in Routers \ {k} : j \in up' <=> j \in up
        /\ up' \subseteq Routers
    BY <1>0, <2>1, <2>2, ZenonT(60)
  <2>4. reign' = Masters' /\ reign = Masters'
    BY <1>2, <2>1, WatchRecorded, ZenonT(60) DEF Recorded
  <2>5. Reigns(i)
    BY <1>2, <2>1, <2>4, ZenonT(60) DEF ReignInv
  <2>6. Masters' = {i} /\ reign' = {i} /\ sock[i] = <<>> /\ i \in Routers
    BY <2>3, <2>4, <2>5, ZenonT(60) DEF Reigns, Masters
  <2>7. sock'[i] = <<>>
    BY <2>3, <2>6, ZenonT(60)
  <2>8. ASSUME NEW j \in up'
        PROVE  /\ Only(i, sock'[j])
               /\ inst'[j].state = "BACKUP" /\ ~Preempts(j, i) => inst'[j].masterdown_timer > 0
    <3>1. CASE j = k
      BY <1>e, <2>3, <3>1, ZenonT(60)
    <3>2. CASE j # k
      BY <2>3, <2>5, <3>2, ZenonT(60) DEF Reigns
    <3> QED BY <3>1, <3>2, SMTT(40)
  <2> QED BY <2>6, <2>7, <2>8, ZenonT(60) DEF Reigns, Only
<1>3. ASSUME Tick, lost' = 0, NEW i \in reign' PROVE Reigns(i)'
  <2>1. /\ up' = up /\ sock' = sock /\ lost' = lost
        /\ Cardinality(Masters') = 1 /\ reign' = Masters'
    BY <1>3, ZenonT(60) DEF Tick, Watch
  <2>2. Masters' = Masters /\ Masters \subseteq Routers /\ i \in Masters
    BY <1>0, <1>3, <2>1, Ticked, ZenonT(60) DEF Masters
  <2>3. Masters' = {i}
    <3>1. IsFiniteSet(Masters')
      BY <2>2, RoutersAssumption, FS_Subset, ZenonT(60)
    <3>2. PICK m : Masters' = {m}
      BY <2>1, <3>1, Several, ZenonT(60)
    <3> QED BY <2>2, <3>2, ZenonT(60)
  <2>4. \A j \in up : sock'[j] = <<>>
    BY <1>0, <1>3, <2>1, Ticked, ZenonT(60)
  <2>5. i \in up /\ inst[i].state = "MASTER"
    BY <2>2, ZenonT(60) DEF Masters
  <2>6. ASSUME NEW j \in up, inst'[j].state = "BACKUP", ~Preempts(j, i)
        PROVE  inst'[j].masterdown_timer > 0
    <3>1. /\ inst[j].state = "BACKUP" /\ inst[j].masterdown_timer \in Nat
          /\ inst'[j].masterdown_timer = inst[j].masterdown_timer - 1
          /\ inst[i].adv_timer \in Nat /\ inst[i].adv_timer > 0
          /\ sock[i] = <<>> /\ sock[j] = <<>>
      BY <1>0, <1>3, <2>5, <2>6, Ticked, ZenonT(60)
    <3>2. j # i
      BY <2>5, <3>1, ZenonT(60)
    <3>3. Hold(i, j)
      BY <2>2, <2>6, <3>2, ZenonT(60) DEF HoldInv
    <3>4. ~Credit(i)
      <4>1. ~(lost > 0)
        BY <1>3, <2>1, SMTT(40)
      <4> QED BY <4>1, ZenonT(60) DEF Credit
    <3>5. ~Resigned(<<>>) /\ ~Announced(i, <<>>)
      BY DEF Resigned, Announced
    <3>6. inst[j].masterdown_timer > inst[i].adv_timer
      BY <3>1, <3>3, <3>4, <3>5, ZenonT(60) DEF Hold, Quiet, Told
    <3>7. \A m, n \in Nat : n > 0 /\ m > n => m - 1 > 0
      BY SMTT(40)
    <3> QED BY <3>1, <3>6, <3>7, ZenonT(60)
  <2> QED BY <1>e, <2>1, <2>3, <2>4, <2>5, <2>6, ZenonT(60) DEF Reigns, Only
<1>4. CASE UNCHANGED vars
  BY <1>4, ZenonT(60) DEF vars, ReignInv, Reigns, Masters, Only
<1> QED BY <1>1, <1>2, <1>3, <1>4, ZenonT(60) DEF Next, ReignInv

\* A master that is alone keeps its place, as long as nothing is lost, until it
\* resigns, crashes or a router that may preempt it runs, for any group of routers in
\* which the owner of the addresses preempts: vrrp_state_init makes the owner a master
\* at once, whatever it is told about preemption.
THEOREM ReignIsStable ==
  ASSUME Group, \A i \in Routers : Priority[i] = PRIO_OWNER => Config[i].preempt
  PROVE  Spec => StableReign
<1> DEFINE Kept(i) == \/ reign' = {i}
                      \/ lost' > 0 \/ Preemptible(i)
                      \/ i \notin up' \/ inst'[i].state = "INIT"
<1>1. ASSUME OutageInv, HoldInv, HoldInv', ReignInv, Next, NEW i \in reign PROVE Kept(i)
  <2> SUFFICES ASSUME ~(lost' > 0), ~Preemptible(i), i \in up', inst'[i].state # "INIT"
               PROVE  reign' = {i}
    OBVIOUS
  <2>0. LanType /\ up \subseteq Routers /\ lost \in Nat /\ lost' \in Nat
    BY <1>1, ZenonT(60) DEF OutageInv, LanType, HoldInv
  <2>1. lost' = 0
    BY <2>0, SMTT(40)
  <2>2. ASSUME NEW j \in up, i \in Routers PROVE ~Preempts(j, i)
    <3>1. inst[i].priority = Priority[i] /\ inst[j].priority = Priority[j]
      BY <2>0, <2>2, ZenonT(60) DEF LanType, Fit
    <3> QED BY <2>2, <3>1, ZenonT(60) DEF Preempts, Preemptible
  <2>3. ASSUME Reigns(i), Masters' = {i}, Recorded PROVE reign' = {i}
    <3>1. Cardinality(Masters') = 1
      BY <2>3, FS_Singleton, ZenonT(60)
    <3> QED BY <2>3, <3>1, ZenonT(60) DEF Reigns, Recorded
  <2>4. ASSUME NEW k \in Routers, Loop(k) \/ Reload(k) \/ Stop(k) PROVE reign' = {i}
    <3>1. PICK w, queue : Handled(k, w, queue)
      BY <1>1, <2>0, <2>4, Handles, ZenonT(60)
    <3>2. PICK deaf : Stepped(k, w, queue, deaf)
      BY <2>0, <3>1, StepStepped, ZenonT(60) DEF Handled
    <3>3. lost = 0
      <4>1. lost' = lost + Cardinality(deaf) /\ Cardinality(deaf) \in Nat
        BY <3>2, ZenonT(60) DEF Stepped
      <4>2. \A m, n \in Nat : m + n = 0 => m = 0
        BY SMTT(40)
      <4> QED BY <2>0, <2>1, <4>1, <4>2, ZenonT(60)
    <3>4. Reigns(i)
      BY <1>1, <3>3, ZenonT(60) DEF ReignInv
    <3>5. i \in Routers /\ i \in up /\ inst[i].state = "MASTER" /\ sock[i] = <<>> /\ Masters = {i}
      BY <2>0, <3>4, ZenonT(60) DEF Reigns, Masters
    <3>6. /\ inst'[k].state = w.state /\ \A j \in Routers \ {k} : inst'[j] = inst[j]
          /\ k \in up /\ up' \subseteq up /\ Recorded
      BY <3>1, <3>2, ZenonT(60) DEF Stepped, Handled
    <3>7. CASE k = i
      <4>1. inst'[i].state = "MASTER"
        BY <3>1, <3>5, <3>6, <3>7, ZenonT(60) DEF Handled
      <4>2. Masters' = {i}
        BY <2>0, <3>5, <3>6, <3>7, <4>1, ZenonT(60) DEF Masters
      <4> QED BY <2>3, <3>4, <3>6, <4>2, SMTT(40)
    <3>8. CASE k # i
      <4>1. inst[k].state # "MASTER" /\ ~Preempts(k, i)
        BY <2>2, <3>5, <3>6, <3>8, ZenonT(60) DEF Masters
      <4>2. Priority[k] # PRIO_OWNER
        <5>1. SUFFICES ASSUME Priority[k] = PRIO_OWNER PROVE FALSE
          OBVIOUS
        <5>2. Priority[i] # PRIO_OWNER /\ Config[k].preempt
          BY <3>5, <3>8, <5>1, ZenonT(60) DEF Group
        <5>3. \A n \in Priorities : n # PRIO_OWNER => PRIO_OWNER > n
          BY SMTT(40) DEF Priorities, PRIO_OWNER
        <5> QED BY <3>5, <4>1, <5>1, <5>2, <5>3, RouterType, ZenonT(60) DEF Preempts
      <4>3. ~(inst[k].state = "BACKUP" /\ inst[k].masterdown_timer = 0)
        <5>1. ~(0 > 0)
          BY SMTT(40)
        <5> QED BY <3>4, <3>6, <4>1, <5>1, ZenonT(60) DEF Reigns
      <4>4. w.state # "MASTER"
        BY <3>1, <4>1, <4>2, <4>3, ZenonT(60) DEF Handled
      <4>5. inst'[i].state = "MASTER"
        BY <3>5, <3>6, <3>8, ZenonT(60)
      <4>6. Masters' = {i}
        BY <2>0, <3>5, <3>6, <3>8, <4>4, <4>5, ZenonT(60) DEF Masters
      <4> QED BY <2>3, <3>4, <3>6, <4>6
    <3> QED BY <3>7, <3>8, SMTT(40)
  <2>5. ASSUME NEW k \in Routers, Start(k) \/ Crash(k) PROVE reign' = {i}
    <3> DEFINE x == NewInstance(Config[k], Priority[k])
    <3>1. /\ inst' = [inst EXCEPT ![k] = x] /\ lost' = lost /\ Watch(0, TRUE)
          /\ up' = up \cup {k} \/ up' = up \ {k}
      BY <2>5, ZenonT(60) DEF Start, Crash
    <3>2. x.state = "INIT"
      BY NewFit, ZenonT(60)
    <3> HIDE DEF x
    <3>3. /\ inst'[k].state = "INIT" /\ \A j \in Routers \ {k} : inst'[j] = inst[j]
          /\ \A j \in Routers \ {k} : j \in up' <=> j \in up
          /\ up' \subseteq Routers
      BY <2>0, <3>1, <3>2, ZenonT(60) DEF LanType
    <3>4. Reigns(i)
      BY <1>1, <2>1, <3>1, ZenonT(60) DEF ReignInv
    <3>5. Masters = {i} /\ i # k
      BY <3>3, <3>4, ZenonT(60) DEF Reigns
    <3>6. Masters' = {i}
      BY <2>0, <3>3, <3>5, ZenonT(60) DEF Masters
    <3>7. Recorded
      BY <1>1, <3>1, WatchRecorded, ZenonT(60)
    <3> QED BY <2>3, <3>4, <3>6, <3>7, SMTT(40)
  <2>6. CASE Tick
    <3>1. up' = up /\ lost' = lost /\ Watch(1, FALSE)
      BY <2>6, ZenonT(60) DEF Tick
    <3>2. Reigns(i)
      BY <1>1, <2>1, <3>1, ZenonT(60) DEF ReignInv
    <3>3. Masters' = {i}
      BY <2>0, <2>6, <3>1, <3>2, Ticked, ZenonT(60) DEF Reigns, Masters
    <3>4. Cardinality(Masters') = 1
      BY <3>3, FS_Singleton, ZenonT(60)
    <3> QED BY <3>1, <3>2, <3>3, <3>4, ZenonT(60) DEF Watch, Reigns
  <2> QED BY <1>1, <2>4, <2>5, <2>6, Zenon DEF Next
<1>2. OutageInv /\ HoldInv /\ HoldInv' /\ ReignInv /\ [Next]_vars => [\A i \in reign : Kept(i)]_vars
  BY <1>1, ZenonT(60)
<1> HIDE DEF Kept
<1>3. Init => HoldInv /\ ReignInv
  BY InitHold, ZenonT(60) DEF Init, ReignInv
<1>4. OutageInv /\ HoldInv /\ ReignInv /\ [Next]_vars => HoldInv' /\ ReignInv'
  BY NextHold, NextReign, ZenonT(60)
<1>5. Spec => [][\A i \in reign : Kept(i)]_vars
  BY <1>2, <1>3, <1>4, InitOutage, NextOutage, PTL DEF Spec
<1> QED BY <1>5, PTL DEF StableReign, Kept

================================================================================
