--------------------------- MODULE VrrpState_proofs ---------------------------
(***************************************************************************)
(* What the handlers of VrrpState do to an instance, for every             *)
(* configuration: one lemma per function of vrrp_state.c, used by the      *)
(* proofs about VrrpDaemon and VrrpLan.                                    *)
(***************************************************************************)
EXTENDS VrrpState, FiniteSetTheorems, WellFoundedInduction, TLAPS

--------------------------------------------------------------------------------
(* Facts about every length are proved with a set of naturals that has no least *)
(* element outside it.                                                          *)

LEMMA Least ==
  ASSUME NEW T, T \subseteq Nat, T # {}
  PROVE  \E x \in T : \A y \in T : x <= y
<1> DEFINE R == OpToRel(<, Nat)
<1>1. IsWellFoundedOn(R, Nat)
  BY NatLessThanWellFounded, Zenon
<1>2. \A x, y \in Nat : y < x => <<y, x>> \in R
  BY SMT DEF OpToRel
<1> HIDE DEF R
<1>3. PICK x \in T : \A y \in T : ~(<<y, x>> \in R)
  BY <1>1, WFMin, Zenon
<1>4. \A y \in T : ~(y < x)
  BY <1>2, <1>3, Zenon
<1>5. \A y \in T : x <= y
  BY <1>4, SMT
<1> QED BY <1>5

\* A set with 0 and with the successors of its members holds all numbers.
LEMMA Induct ==
  ASSUME NEW T, 0 \in T, \A n \in Nat : n \in T => n + 1 \in T
  PROVE  Nat \subseteq T
<1> SUFFICES ASSUME ~(Nat \subseteq T) PROVE FALSE
  OBVIOUS
<1>1. PICK x \in Nat \ T : \A y \in Nat \ T : x <= y
  BY Least, Zenon
<1>2. x # 0 /\ x \in Nat
  BY <1>1, Zenon
<1>3. x - 1 \in Nat /\ x - 1 + 1 = x /\ ~(x <= x - 1)
  BY <1>2, SMT
<1>4. x - 1 \in T
  BY <1>1, <1>3, Zenon
<1> QED BY <1>1, <1>3, <1>4, Zenon

--------------------------------------------------------------------------------
(* The log. *)

Args == {"init", "master", "backup"}

\* The calls q and then the one of the effect x, if it is a call.
Grown(q, x) == IF x.ev = "hook" THEN Append(q, x.arg) ELSE q

\* f holds the calls in the first effects of the log s, up to n of them.
Logged(s, f, n) ==
  f = [k \in 0..n |-> IF k = 0 THEN <<>> ELSE Grown(f[k - 1], s[k])]

\* The local function of Calls.
Upto(s) == CHOOSE f : Logged(s, f, Len(s))

LEMMA CallsIs == \A s : Calls(s) = Upto(s)[Len(s)]
BY Zenon DEF Calls, Upto, Logged, Grown

LEMMA LoggedExists ==
  ASSUME NEW s
  PROVE  \A n \in Nat : \E f : Logged(s, f, n)
<1> DEFINE T == {n \in Nat : \E f : Logged(s, f, n)}
<1>1. 0 \in T
  <2> DEFINE f == [k \in 0..0 |-> <<>>]
  <2>1. Logged(s, f, 0)
    BY SMT DEF Logged
  <2> QED BY <2>1
<1>2. ASSUME NEW n \in Nat, n \in T PROVE n + 1 \in T
  <2>1. PICK f : Logged(s, f, n)
    BY <1>2
  <2> DEFINE x == Grown(f[n], s[n + 1])
             g == [k \in 0..(n + 1) |-> IF k = n + 1 THEN x ELSE f[k]]
  <2>2. \A k \in 0..n : f[k] = IF k = 0 THEN <<>> ELSE Grown(f[k - 1], s[k])
    BY <2>1, Zenon DEF Logged
  <2>3. \A k \in 0..(n + 1) :
          g[k] = IF k = 0 THEN <<>> ELSE Grown(g[k - 1], s[k])
    BY <2>2, SMT
  <2>4. Logged(s, g, n + 1)
    <3>1. g = [k \in 0..(n + 1) |-> g[k]]
      OBVIOUS
    <3> HIDE DEF g
    <3> QED BY <2>3, <3>1, Zenon DEF Logged
  <2> QED BY <2>4, SMT
<1> HIDE DEF T
<1>3. Nat \subseteq T
  BY <1>1, <1>2, Induct, ZenonT(60)
<1> QED BY <1>3 DEF T

\* One call after the other.
LEMMA UptoIs ==
  ASSUME NEW s \in Seq(Effects)
  PROVE  /\ Len(s) \in Nat /\ Upto(s)[0] = <<>>
         /\ \A k \in 1..Len(s) : Upto(s)[k] = Grown(Upto(s)[k - 1], s[k])
<1> DEFINE f == Upto(s)
<1>1. Len(s) \in Nat
  OBVIOUS
<1>2. Logged(s, f, Len(s))
  BY <1>1, LoggedExists, Zenon DEF Upto
<1> HIDE DEF f
<1>3. \A k \in 0..Len(s) : f[k] = IF k = 0 THEN <<>> ELSE Grown(f[k - 1], s[k])
  BY <1>2, Zenon DEF Logged
<1> QED BY <1>1, <1>3, SMT DEF f

\* The calls in an empty log, and in one that grows.
LEMMA CallsEmpty == Calls(<<>>) = <<>>
<1>1. Len(<<>>) = 0 /\ <<>> \in Seq(Effects)
  OBVIOUS
<1> QED BY <1>1, CallsIs, UptoIs, Zenon

LEMMA CallsAppend ==
  ASSUME NEW s \in Seq(Effects), NEW x \in Effects
  PROVE  Calls(Append(s, x)) = Grown(Calls(s), x)
<1> DEFINE t == Append(s, x)
           f == Upto(s)
           g == Upto(t)
           l == Len(s)
<1>1. /\ t \in Seq(Effects) /\ Len(t) = l + 1 /\ l \in Nat
      /\ t[l + 1] = x /\ \A n \in 1..l : t[n] = s[n]
  OBVIOUS
<1> HIDE DEF t
<1>2. /\ f[0] = <<>>
      /\ \A k \in 1..l : f[k] = Grown(f[k - 1], s[k])
  BY UptoIs, Zenon
<1>3. /\ g[0] = <<>>
      /\ \A k \in 1..(l + 1) : g[k] = Grown(g[k - 1], t[k])
  BY <1>1, UptoIs, Zenon
<1> HIDE DEF f, g
<1> DEFINE T == {n \in Nat : n <= l => g[n] = f[n]}
<1>4. 0 \in T
  BY <1>2, <1>3, SMT
<1>5. ASSUME NEW n \in Nat, n \in T PROVE n + 1 \in T
  <2>1. CASE n + 1 <= l
    <3>1. /\ n + 1 \in 1..l /\ n + 1 \in 1..(l + 1) /\ n + 1 - 1 = n
      BY <1>1, <2>1, SMT
    <3>2. t[n + 1] = s[n + 1] /\ g[n] = f[n]
      BY <1>1, <1>5, <2>1, <3>1, SMT
    <3> QED BY <1>2, <1>3, <3>1, <3>2, SMT
  <2>2. CASE ~(n + 1 <= l)
    BY <2>2, SMT
  <2> QED BY <2>1, <2>2
<1> HIDE DEF T
<1>6. Nat \subseteq T
  BY <1>4, <1>5, Induct, ZenonT(60)
<1>7. g[l] = f[l]
  BY <1>1, <1>6, SMT DEF T
<1>8. l + 1 \in 1..(l + 1) /\ l + 1 - 1 = l
  BY <1>1, SMT
<1>9. g[l + 1] = Grown(f[l], x)
  <2>1. g[l + 1] = Grown(g[l + 1 - 1], t[l + 1])
    BY <1>3, <1>8, SMT
  <2>2. t[l + 1] = x /\ g[l + 1 - 1] = f[l]
    BY <1>1, <1>7, <1>8, Zenon
  <2> QED BY <2>1, <2>2, Zenon
<1> QED BY <1>1, <1>9, CallsIs, Zenon DEF f, g, t

LEMMA CallsType ==
  ASSUME NEW s \in Seq(Effects)
  PROVE  Calls(s) \in Seq(Args)
<1> DEFINE f == Upto(s)
           T == {n \in Nat : n <= Len(s) => f[n] \in Seq(Args)}
<1>1. /\ Len(s) \in Nat /\ f[0] = <<>>
      /\ \A k \in 1..Len(s) : f[k] = Grown(f[k - 1], s[k])
  BY UptoIs, Zenon
<1> HIDE DEF f
<1>2. 0 \in T
  <2>1. <<>> \in Seq(Args) /\ 0 \in Nat
    OBVIOUS
  <2> QED BY <1>1, <2>1, Zenon
<1>3. ASSUME NEW n \in Nat, n \in T PROVE n + 1 \in T
  <2>1. CASE n + 1 <= Len(s)
    <3>1. n + 1 \in 1..Len(s) /\ n + 1 - 1 = n /\ n <= Len(s)
      BY <1>1, <2>1, SMT
    <3>2. f[n] \in Seq(Args)
      BY <1>3, <3>1, SMT
    <3>3. s[n + 1].ev = "hook" => s[n + 1].arg \in Args
      <4>1. s[n + 1] \in Effects
        BY <3>1
      <4> QED BY <4>1 DEF Effects, Args
    <3>4. \A q \in Seq(Args), a \in Args : Append(q, a) \in Seq(Args)
      OBVIOUS
    <3>5. f[n + 1] \in Seq(Args)
      <4>1. f[n + 1] = Grown(f[n + 1 - 1], s[n + 1])
        BY <1>1, <3>1, SMT
      <4>2. f[n + 1 - 1] = f[n]
        BY <3>1, Zenon
      <4>3. \/ f[n + 1] = Append(f[n], s[n + 1].arg) /\ s[n + 1].arg \in Args
            \/ f[n + 1] = f[n]
        BY <3>3, <4>1, <4>2, Zenon DEF Grown
      <4> QED BY <3>2, <3>4, <4>3, Zenon
    <3> QED BY <3>5, SMT
  <2>2. CASE ~(n + 1 <= Len(s))
    BY <2>2, SMT
  <2> QED BY <2>1, <2>2
<1> HIDE DEF T
<1>4. Nat \subseteq T
  BY <1>2, <1>3, Induct, ZenonT(60)
<1>5. f[Len(s)] \in Seq(Args)
  BY <1>1, <1>4, SMT DEF T
<1> QED BY <1>5, CallsIs, Zenon DEF f

\* Every packet in the log s is one of A.
Advertises(s, A) == \A n \in 1..Len(s) : s[n].ev = "adv" => s[n].adv \in A

\* Appending an effect to the log.
LEMMA AppendEffect ==
  ASSUME NEW s \in Seq(Effects), NEW x \in Effects
  PROVE  /\ Append(s, x) \in Seq(Effects)
         /\ Calls(Append(s, x)) = Grown(Calls(s), x)
         /\ \A A : Advertises(Append(s, x), A) <=>
                     (Advertises(s, A) /\ (x.ev = "adv" => x.adv \in A))
<1> DEFINE t == Append(s, x)
<1>1. /\ t \in Seq(Effects) /\ Len(t) = Len(s) + 1 /\ Len(s) \in Nat
      /\ t[Len(s) + 1] = x
      /\ \A n \in 1..Len(s) : t[n] = s[n]
  OBVIOUS
<1>2. 1..Len(t) = (1..Len(s)) \cup {Len(s) + 1}
  BY <1>1
<1> HIDE DEF t
<1>3. Calls(t) = Grown(Calls(s), x)
  BY CallsAppend, Zenon DEF t
<1>4. \A A : Advertises(t, A) <=> (Advertises(s, A) /\ (x.ev = "adv" => x.adv \in A))
  BY <1>1, <1>2, SMTT(40) DEF Advertises
<1> QED BY <1>1, <1>3, <1>4 DEF t

\* An empty log.
LEMMA EmptyLog ==
  /\ <<>> \in Seq(Effects)
  /\ Calls(<<>>) = <<>>
  /\ \A A : Advertises(<<>>, A)
BY CallsEmpty DEF Advertises

\* The three kinds of effects, which are all different.
LEMMA EffectKinds ==
  /\ \A b \in Buffers : /\ Adv(b) \in Effects /\ Adv(b).ev = "adv"
                        /\ Adv(b).adv = b
  /\ Topology \in Effects /\ Topology.ev = "topology"
  /\ \A arg \in {"init", "master", "backup"} :
       /\ Hook(arg) \in Effects /\ Hook(arg).ev = "hook" /\ Hook(arg).arg = arg
BY DEF Adv, Topology, Hook, Effects

\* Only the calls make the list of calls longer.
LEMMA GrownBy ==
  /\ \A q, b : Grown(q, Adv(b)) = q
  /\ \A q : Grown(q, Topology) = q
  /\ \A q, arg : Grown(q, Hook(arg)) = Append(q, arg)
BY DEF Grown, Adv, Topology, Hook

\* Delays are natural numbers: a priority is below 256.
LEMMA Delays ==
  ASSUME NEW c \in Configs, NEW v \in Instances
  PROVE  /\ SKEW_TIME(c, v) \in Nat
         /\ MASTERDOWN_INT(c, v) \in Nat
         /\ SKEW_TIME(c, v) <= MASTERDOWN_INT(c, v)
<1> DEFINE m == IF c.version = RFC5798 THEN v.master_adv_int ELSE 1
           p == 256 - v.priority
<1>0. v.master_adv_int \in Nat /\ v.priority \in 0..255
  BY SMTT(40) DEF Instances, Priorities
<1>1. m \in Nat /\ p \in 1..256
  BY <1>0, SMTT(40)
<1>2. SKEW_TIME(c, v) = (p * m) \div 256
  BY DEF SKEW_TIME
<1> HIDE DEF m, p
<1>3. p * m \in Nat
  BY <1>1
<1>4. (p * m) \div 256 \in Nat
  BY <1>3
<1> QED BY <1>0, <1>2, <1>4 DEF MASTERDOWN_INT

--------------------------------------------------------------------------------

\* The buffer for a priority.
LEMMA BufferType ==
  ASSUME NEW c \in Configs, NEW prio \in Priorities
  PROVE  [priority |-> prio, chksum |-> adv_checksum(c, prio)] \in Buffers
<1>1. Len(c.vips) \in Nat
  BY DEF Configs
<1>2. naddr(c) \in Nat
  <2>1. \A n \in Nat : n % 256 \in Nat
    OBVIOUS
  <2> QED BY <1>1, <2>1, ZenonT(60) DEF naddr
<1>3. adv_getsize(c) \in Nat
  BY <1>2 DEF adv_getsize, vrrp_ip4_getsize, vrrp_ip6_getsize,
              VRRP_PKTHDR_SIZE, VRRP_AUTH_SIZE
<1> QED BY <1>3 DEF Buffers, adv_checksum

\* vrrp_state_goto_master: the new master has announced itself and called its
\* hook, and only its advertisement timer runs.
LEMMA GotoMaster ==
  ASSUME NEW c \in Configs, NEW v \in Instances
  PROVE  LET w == vrrp_state_goto_master(c, v)
         IN  /\ w \in Instances
             /\ w.state = "MASTER"
             /\ w.priority = v.priority /\ w.adv = v.adv
             /\ w.master_adv_int = v.master_adv_int
             /\ w.adv_timer \in Nat /\ w.masterdown_timer = Cleared
             /\ Calls(w.out) = Append(Calls(v.out), "master")
             /\ \A A : v.adv \in A /\ Advertises(v.out, A) => Advertises(w.out, A)
<1> DEFINE o1 == Append(v.out, Adv(v.adv))
           o2 == Append(o1, Topology)
           o3 == Append(o2, Hook("master"))
           t == IF c.version = RFC5798 THEN v.master_adv_int ELSE c.adv_int
           w == vrrp_state_goto_master(c, v)
<1>1. w = [v EXCEPT !.state = "MASTER", !.out = o3, !.masterdown_timer = Cleared,
                    !.adv_timer = t]
  BY ZenonT(60) DEF vrrp_state_goto_master, vrrp_adv_send, Emit, VRRP_SET_ADV_TIMER, Instances
<1>2. t \in Nat
  BY SMTT(40) DEF Configs, Instances
<1>3. v.out \in Seq(Effects) /\ v.adv \in Buffers
  BY DEF Instances
<1> HIDE DEF o1, o2, o3, t, w
<1>4. /\ o1 \in Seq(Effects)
      /\ Calls(o1) = Calls(v.out)
      /\ \A A : Advertises(o1, A) <=> (Advertises(v.out, A) /\ v.adv \in A)
  BY <1>3, AppendEffect, EffectKinds, GrownBy, SMTT(40) DEF o1
<1>5. /\ o2 \in Seq(Effects)
      /\ Calls(o2) = Calls(v.out)
      /\ \A A : Advertises(o2, A) <=> Advertises(o1, A)
  BY <1>4, AppendEffect, EffectKinds, GrownBy DEF o2
<1>6. /\ o3 \in Seq(Effects)
      /\ Calls(o3) = Append(Calls(v.out), "master")
      /\ \A A : Advertises(o3, A) <=> Advertises(o2, A)
  BY <1>5, AppendEffect, EffectKinds, GrownBy DEF o3
<1>7. /\ w \in Instances /\ w.out = o3
      /\ w.state = "MASTER"
      /\ w.priority = v.priority /\ w.adv = v.adv
      /\ w.master_adv_int = v.master_adv_int
      /\ w.adv_timer \in Nat /\ w.masterdown_timer = Cleared
  BY <1>1, <1>2, <1>6, ZenonT(60) DEF Instances, States, Timers
<1> QED BY <1>4, <1>5, <1>6, <1>7 DEF w

\* vrrp_state_goto_backup: only the masterdown timer runs, and the hook is
\* called unless the router starts.
LEMMA GotoBackup ==
  ASSUME NEW c \in Configs, NEW v \in Instances, NEW advint \in Nat
  PROVE  LET w == vrrp_state_goto_backup(c, v, advint)
         IN  /\ w \in Instances
             /\ w.state = "BACKUP"
             /\ w.priority = v.priority /\ w.adv = v.adv
             /\ w.adv_timer = Cleared /\ w.masterdown_timer \in Nat
             /\ \/ w.masterdown_timer = MASTERDOWN_INT(c, w)
                \/ w.masterdown_timer = c.start_delay
             /\ Calls(w.out) = IF v.state = "INIT" THEN Calls(v.out)
                               ELSE Append(Calls(v.out), "backup")
             /\ \A A : Advertises(v.out, A) => Advertises(w.out, A)
<1> DEFINE m == IF c.version # RFC5798 THEN v.master_adv_int
                ELSE IF v.state = "INIT" THEN c.adv_int ELSE advint
           o == IF v.state = "INIT" THEN v.out ELSE Append(v.out, Hook("backup"))
           b == [v EXCEPT !.out = o, !.state = "BACKUP", !.adv_timer = Cleared,
                          !.master_adv_int = m]
           t == IF v.state = "INIT" /\ c.start_delay # 0 THEN c.start_delay
                ELSE MASTERDOWN_INT(c, b)
           w == vrrp_state_goto_backup(c, v, advint)
<1>1. m \in Nat /\ c.start_delay \in Nat
  BY SMTT(40) DEF Configs, Instances
<1>2. v.out \in Seq(Effects)
  BY DEF Instances
<1>3. /\ o \in Seq(Effects)
      /\ Calls(o) = IF v.state = "INIT" THEN Calls(v.out)
                    ELSE Append(Calls(v.out), "backup")
      /\ \A A : Advertises(v.out, A) => Advertises(o, A)
  <2>1. CASE v.state = "INIT"
    BY <1>2, <2>1
  <2>2. CASE v.state # "INIT"
    <3>1. o = Append(v.out, Hook("backup"))
      BY <2>2
    <3> HIDE DEF o
    <3> QED BY <1>2, <2>2, <3>1, AppendEffect, EffectKinds, GrownBy
  <2> QED BY <2>1, <2>2
<1>4. w = [b EXCEPT !.masterdown_timer = t]
  <2>1. CASE v.state = "INIT"
    BY ZenonT(60), <2>1 DEF vrrp_state_goto_backup, VRRP_SET_STARTDELAY_TIMER,
                VRRP_SET_MASTERDOWN_TIMER, Instances
  <2>2. CASE v.state # "INIT"
    BY <2>2 DEF vrrp_state_goto_backup, VRRP_SET_MASTERDOWN_TIMER, Emit, Instances
  <2> QED BY <2>1, <2>2
<1> HIDE DEF m, o, w
<1>5. /\ b \in Instances /\ b.state = "BACKUP" /\ b.out = o
      /\ b.priority = v.priority /\ b.adv = v.adv /\ b.adv_timer = Cleared
  BY <1>1, <1>3, Zenon DEF Instances, States, Timers
<1> HIDE DEF b
<1>6. t \in Nat
  BY <1>1, <1>5, Delays
<1>7. t = MASTERDOWN_INT(c, b) \/ t = c.start_delay
  OBVIOUS
<1> HIDE DEF t
<1>8. /\ w \in Instances /\ w.masterdown_timer = t
      /\ w.state = b.state /\ w.out = o /\ w.priority = b.priority
      /\ w.adv = b.adv /\ w.adv_timer = b.adv_timer
      /\ w.master_adv_int = b.master_adv_int
  BY <1>4, <1>5, <1>6, ZenonT(60) DEF Instances, Timers
<1>9. MASTERDOWN_INT(c, w) = MASTERDOWN_INT(c, b)
  BY <1>8 DEF MASTERDOWN_INT, SKEW_TIME
<1> QED BY <1>3, <1>5, <1>6, <1>7, <1>8, <1>9, SMTT(40) DEF w

\* vrrp_state_init: the owner becomes master, every other router a backup.
LEMMA StateInitPost ==
  ASSUME NEW c \in Configs, NEW v \in Instances, v.state = "INIT",
         v.adv_timer = Cleared, v.masterdown_timer = Cleared
  PROVE  LET w == vrrp_state_init(c, v)
         IN  /\ w \in Instances
             /\ w.state = IF v.priority = PRIO_OWNER THEN "MASTER" ELSE "BACKUP"
             /\ w.priority = v.priority /\ w.adv = v.adv
             /\ w.state = "MASTER" => /\ w.adv_timer \in Nat
                                      /\ w.masterdown_timer = Cleared
             /\ w.state = "BACKUP" =>
                  /\ w.adv_timer = Cleared /\ w.masterdown_timer \in Nat
                  /\ \/ w.masterdown_timer = MASTERDOWN_INT(c, w)
                     \/ w.masterdown_timer = c.start_delay
             /\ Calls(w.out) = IF w.state = "MASTER"
                               THEN Append(Append(Calls(v.out), "init"), "master")
                               ELSE Append(Calls(v.out), "init")
             /\ \A A : v.adv \in A /\ Advertises(v.out, A) => Advertises(w.out, A)
<1> DEFINE o == Append(v.out, Hook("init"))
           u == [v EXCEPT !.out = o, !.master_adv_int = c.adv_int]
<1>1. c.adv_int \in Nat /\ v.out \in Seq(Effects)
  BY DEF Configs, Instances
<1>2. /\ o \in Seq(Effects)
      /\ Calls(o) = Append(Calls(v.out), "init")
      /\ \A A : Advertises(o, A) <=> Advertises(v.out, A)
  BY <1>1, AppendEffect, EffectKinds, GrownBy
<1>3. vrrp_state_init(c, v) = IF u.priority = PRIO_OWNER
                              THEN vrrp_state_goto_master(c, u)
                              ELSE vrrp_state_goto_backup(c, u, c.adv_int)
  BY DEF vrrp_state_init, Emit, Instances
<1> HIDE DEF o
<1>4. /\ u \in Instances /\ u.out = o /\ u.state = "INIT"
      /\ u.priority = v.priority /\ u.adv = v.adv
  BY <1>1, <1>2, Zenon DEF Instances
<1> HIDE DEF u
<1>5. CASE v.priority = PRIO_OWNER
  <2> DEFINE w == vrrp_state_goto_master(c, u)
  <2>1. /\ w \in Instances /\ w.state = "MASTER"
        /\ w.priority = u.priority /\ w.adv = u.adv
        /\ w.adv_timer \in Nat /\ w.masterdown_timer = Cleared
        /\ Calls(w.out) = Append(Calls(u.out), "master")
        /\ \A A : u.adv \in A /\ Advertises(u.out, A) => Advertises(w.out, A)
    BY <1>4, GotoMaster, ZenonT(60)
  <2>2. vrrp_state_init(c, v) = w
    BY <1>3, <1>4, <1>5
  <2> HIDE DEF w
  <2> QED BY <1>2, <1>4, <1>5, <2>1, <2>2
<1>6. CASE v.priority # PRIO_OWNER
  <2> DEFINE w == vrrp_state_goto_backup(c, u, c.adv_int)
  <2>1. /\ w \in Instances /\ w.state = "BACKUP"
        /\ w.priority = u.priority /\ w.adv = u.adv
        /\ w.adv_timer = Cleared /\ w.masterdown_timer \in Nat
        /\ \/ w.masterdown_timer = MASTERDOWN_INT(c, w)
           \/ w.masterdown_timer = c.start_delay
        /\ Calls(w.out) = Calls(u.out)
        /\ \A A : Advertises(u.out, A) => Advertises(w.out, A)
    BY <1>1, <1>4, GotoBackup, ZenonT(60)
  <2>2. vrrp_state_init(c, v) = w
    BY <1>3, <1>4, <1>6
  <2> HIDE DEF w
  <2> QED BY <1>2, <1>4, <1>6, <2>1, <2>2, Zenon
<1> QED BY <1>5, <1>6

\* An expired timer: a backup becomes master, a master advertises again.
LEMMA OnTimerPost ==
  ASSUME NEW c \in Configs, NEW v \in Instances, v.state # "INIT",
         v.state = "MASTER" => v.masterdown_timer = Cleared
  PROVE  LET w == OnTimer(c, v)
         IN  /\ w \in Instances
             /\ w.state = "MASTER"
             /\ w.priority = v.priority /\ w.adv = v.adv
             /\ w.adv_timer \in Nat /\ w.masterdown_timer = Cleared
             /\ Calls(w.out) = IF v.state = "BACKUP" THEN Append(Calls(v.out), "master")
                               ELSE Calls(v.out)
             /\ \A A : v.adv \in A /\ Advertises(v.out, A) => Advertises(w.out, A)
<1>1. CASE v.state = "BACKUP"
  BY <1>1, GotoMaster DEF OnTimer, BackupTimer
<1>2. CASE v.state # "BACKUP"
  <2> DEFINE o == Append(v.out, Adv(v.adv))
             t == IF c.version = RFC5798 THEN v.master_adv_int ELSE c.adv_int
             w == OnTimer(c, v)
  <2>1. v.state = "MASTER" /\ v.out \in Seq(Effects) /\ v.adv \in Buffers
    BY <1>2 DEF Instances, States
  <2>2. t \in Nat
    BY DEF Configs, Instances
  <2>3. w = [v EXCEPT !.out = o, !.adv_timer = t]
    BY <1>2 DEF OnTimer, MasterTimer, vrrp_adv_send, Emit, VRRP_SET_ADV_TIMER, Instances
  <2>4. /\ o \in Seq(Effects)
        /\ Calls(o) = Calls(v.out)
        /\ \A A : Advertises(o, A) <=> (Advertises(v.out, A) /\ v.adv \in A)
    BY <2>1, AppendEffect, EffectKinds, GrownBy, SMTT(40)
  <2> HIDE DEF o, t, w
  <2>5. /\ w \in Instances /\ w.out = o /\ w.state = v.state
        /\ w.priority = v.priority /\ w.adv = v.adv /\ w.adv_timer = t
        /\ w.masterdown_timer = v.masterdown_timer
    BY <2>2, <2>3, <2>4, Zenon DEF Instances, Timers
  <2> QED BY <1>2, <2>1, <2>2, <2>4, <2>5 DEF w
<1> QED BY <1>1, <1>2

\* What holds of the timers between two iterations.
Disciplined(v) ==
  /\ v.state = "INIT" => v.adv_timer = Cleared /\ v.masterdown_timer = Cleared
  /\ v.state = "BACKUP" => v.adv_timer = Cleared /\ v.masterdown_timer \in Nat
  /\ v.state = "MASTER" => v.adv_timer \in Nat /\ v.masterdown_timer = Cleared

\* The interval in a packet.
LEMMA AdvIntType ==
  ASSUME NEW p, PacketOK(p)
  PROVE  vrrp_adv_get_advint(p) \in Nat
<1>1. \A h, l \in 0..255 : 256 * h + l \in Nat /\ l \in Nat
  BY SMTT(40)
<1>2. p.hi \in 0..255 /\ p.lo \in 0..255
  BY DEF PacketOK
<1>3. 256 * p.hi + p.lo \in Nat /\ p.lo \in Nat
  BY ZenonT(60), <1>1, <1>2
<1> QED BY <1>3 DEF vrrp_adv_get_advint

\* A valid packet in the BACKUP state re-arms the timer or is discarded.
LEMMA BackupPktPost ==
  ASSUME NEW c \in Configs, NEW v \in Instances, NEW p, PacketOK(p),
         v.state = "BACKUP", Disciplined(v)
  PROVE  LET w == BackupPkt(c, v, p)
         IN  /\ w \in Instances /\ Disciplined(w)
             /\ w.state = "BACKUP" /\ w.priority = v.priority /\ w.adv = v.adv
             /\ w.out = v.out
             /\ w = v \/ w.masterdown_timer <= MASTERDOWN_INT(c, w)
<1> DEFINE w == BackupPkt(c, v, p)
           m == vrrp_adv_get_advint(p)
           u == IF c.version = RFC5798 THEN [v EXCEPT !.master_adv_int = m] ELSE v
<1>1. m \in Nat
  BY AdvIntType
<1>2. \/ w = v \/ w = [v EXCEPT !.masterdown_timer = SKEW_TIME(c, v)]
      \/ w = [u EXCEPT !.masterdown_timer = MASTERDOWN_INT(c, u)]
  BY DEF BackupPkt, VRRP_SET_SKEW_TIME, VRRP_SET_MASTERDOWN_TIMER
<1> HIDE DEF w, m
<1>3. /\ u \in Instances /\ u.state = v.state /\ u.priority = v.priority
      /\ u.adv = v.adv /\ u.out = v.out /\ u.adv_timer = v.adv_timer
  BY <1>1 DEF Instances
<1> HIDE DEF u
<1>4. ASSUME NEW x \in Instances, NEW t \in Nat, t <= MASTERDOWN_INT(c, x),
             x.state = "BACKUP", x.adv_timer = Cleared,
             w = [x EXCEPT !.masterdown_timer = t]
      PROVE  /\ w \in Instances /\ Disciplined(w)
             /\ w.state = x.state /\ w.priority = x.priority /\ w.adv = x.adv
             /\ w.out = x.out
             /\ w.masterdown_timer <= MASTERDOWN_INT(c, w)
  <2>1. /\ w \in Instances /\ w.state = x.state /\ w.priority = x.priority
        /\ w.adv = x.adv /\ w.out = x.out /\ w.adv_timer = x.adv_timer
        /\ w.master_adv_int = x.master_adv_int /\ w.masterdown_timer = t
    BY <1>4 DEF Instances, Timers
  <2>2. MASTERDOWN_INT(c, w) = MASTERDOWN_INT(c, x)
    BY <2>1 DEF MASTERDOWN_INT, SKEW_TIME
  <2> QED BY <1>4, <2>1, <2>2 DEF Disciplined
<1>5. CASE w = v
  BY <1>5 DEF w
<1>6. CASE w = [v EXCEPT !.masterdown_timer = SKEW_TIME(c, v)]
  BY <1>4, <1>6, Delays DEF w, Disciplined
<1>7. CASE w = [u EXCEPT !.masterdown_timer = MASTERDOWN_INT(c, u)]
  <2>1. /\ MASTERDOWN_INT(c, u) \in Nat
        /\ MASTERDOWN_INT(c, u) <= MASTERDOWN_INT(c, u)
    BY <1>3, Delays, SMTT(40)
  <2> QED BY <1>3, <1>4, <1>7, <2>1 DEF w, Disciplined
<1> QED BY <1>2, <1>5, <1>6, <1>7

\* A packet: a backup stays one, a master stays one or steps down and calls
\* its hook; the owner of the addresses takes no notice.
LEMMA OnPktPost ==
  ASSUME NEW c \in Configs, NEW v \in Instances, NEW p, PacketOK(p),
         v.state # "INIT", Disciplined(v)
  PROVE  LET w == OnPkt(c, v, p)
         IN  /\ w \in Instances /\ Disciplined(w)
             /\ w.priority = v.priority /\ w.adv = v.adv
             /\ w.state # "INIT" /\ (v.state = "BACKUP" => w.state = "BACKUP")
             /\ v.priority = PRIO_OWNER => w = v
             /\ w.state = "BACKUP" =>
                  \/ w = v
                  \/ w.masterdown_timer <= MASTERDOWN_INT(c, w)
                  \/ w.masterdown_timer = c.start_delay
             /\ Calls(w.out) = IF w.state = v.state THEN Calls(v.out)
                               ELSE Append(Calls(v.out), "backup")
             /\ \A A : v.adv \in A /\ Advertises(v.out, A) => Advertises(w.out, A)
<1> DEFINE w == OnPkt(c, v, p)
           m == vrrp_adv_get_advint(p)
<1>1. v.priority = PRIO_OWNER => w = v
  BY ZenonT(60) DEF OnPkt, vrrp_net_recv
<1>2. \/ w = v
      \/ w = BackupPkt(c, v, p) /\ v.state = "BACKUP"
      \/ w = MasterPkt(c, v, p) /\ v.state = "MASTER"
  BY DEF OnPkt, Instances, States
<1>3. CASE w = v
  BY <1>3
<1>4. CASE w = BackupPkt(c, v, p) /\ v.state = "BACKUP"
  <2> DEFINE b == BackupPkt(c, v, p)
  <2>1. /\ b \in Instances /\ Disciplined(b)
        /\ b.state = "BACKUP" /\ b.priority = v.priority /\ b.adv = v.adv
        /\ b.out = v.out
        /\ b = v \/ b.masterdown_timer <= MASTERDOWN_INT(c, b)
    BY <1>4, BackupPktPost
  <2> HIDE DEF b
  <2>2. w = b
    BY <1>4, SMTT(40) DEF b
  <2> HIDE DEF w
  <2> QED BY <1>1, <1>4, <2>1, <2>2 DEF w
<1>5. CASE w = MasterPkt(c, v, p) /\ v.state = "MASTER"
  <2>1. m \in Nat
    BY AdvIntType
  <2>2. \/ w = MasterTimer(c, v) \/ w = v
        \/ w = vrrp_state_goto_backup(c, v, m)
    BY <1>5, SMTT(40) DEF MasterPkt, MasterTimer
  <2>3. CASE w = MasterTimer(c, v)
    <3>1. MasterTimer(c, v) = OnTimer(c, v)
      BY <1>5 DEF OnTimer
    <3> HIDE DEF w
    <3>2. /\ w \in Instances /\ w.state = "MASTER"
          /\ w.priority = v.priority /\ w.adv = v.adv
          /\ w.adv_timer \in Nat /\ w.masterdown_timer = Cleared
          /\ Calls(w.out) = Calls(v.out)
          /\ \A A : v.adv \in A /\ Advertises(v.out, A) => Advertises(w.out, A)
      BY <1>5, <2>3, <3>1, OnTimerPost, SMTT(40) DEF Disciplined
    <3> QED BY <1>1, <1>5, <3>2 DEF w, Disciplined
  <2>4. CASE w = vrrp_state_goto_backup(c, v, m)
    <3> HIDE DEF w, m
    <3> DEFINE g == vrrp_state_goto_backup(c, v, m)
    <3>0. /\ g \in Instances /\ g.state = "BACKUP"
          /\ g.priority = v.priority /\ g.adv = v.adv
          /\ g.adv_timer = Cleared /\ g.masterdown_timer \in Nat
          /\ \/ g.masterdown_timer = MASTERDOWN_INT(c, g)
             \/ g.masterdown_timer = c.start_delay
          /\ Calls(g.out) = Append(Calls(v.out), "backup")
          /\ \A A : Advertises(v.out, A) => Advertises(g.out, A)
      BY <2>1, GotoBackup, ZenonT(60)
    <3> HIDE DEF g
    <3>1. /\ w \in Instances /\ w.state = "BACKUP"
          /\ w.priority = v.priority /\ w.adv = v.adv
          /\ w.adv_timer = Cleared /\ w.masterdown_timer \in Nat
          /\ \/ w.masterdown_timer = MASTERDOWN_INT(c, w)
             \/ w.masterdown_timer = c.start_delay
          /\ Calls(w.out) = Append(Calls(v.out), "backup")
          /\ \A A : Advertises(v.out, A) => Advertises(w.out, A)
      BY <2>4, <3>0 DEF g
    <3>2. w.masterdown_timer <= MASTERDOWN_INT(c, w)
          \/ w.masterdown_timer = c.start_delay
      BY <3>1, Delays, SMTT(40)
    <3> QED BY <1>1, <1>5, <3>1, <3>2 DEF w, Disciplined
  <2> QED BY <1>3, <2>2, <2>3, <2>4, ZenonT(60)
<1> QED BY <1>2, <1>3, <1>4, <1>5, ZenonT(60)

\* A reload: back to INIT without a timer; a master announces priority 0 and
\* then calls its hook.
LEMMA OnReloadPost ==
  ASSUME NEW c \in Configs, NEW v \in Instances, v.state # "INIT", Disciplined(v)
  PROVE  LET w == OnReload(c, v)
             zero == [priority |-> 0, chksum |-> adv_checksum(c, 0)]
         IN  /\ w \in Instances /\ Disciplined(w)
             /\ w.state = "INIT" /\ w.priority = v.priority /\ w.adv = v.adv
             /\ v.state = "MASTER" =>
                  w.out = Append(Append(v.out, Adv(zero)), Hook("backup"))
             /\ Calls(w.out) = IF v.state = "MASTER" THEN Append(Calls(v.out), "backup")
                               ELSE Calls(v.out)
             /\ \A A : zero \in A /\ Advertises(v.out, A) => Advertises(w.out, A)
<1> DEFINE w == OnReload(c, v)
           zero == [priority |-> 0, chksum |-> adv_checksum(c, 0)]
<1>1. CASE v.state = "BACKUP"
  <2>1. w = [v EXCEPT !.masterdown_timer = Cleared, !.state = "INIT"]
    BY <1>1 DEF OnReload, BackupReload
  <2> HIDE DEF w
  <2>2. /\ w \in Instances /\ w.state = "INIT" /\ w.priority = v.priority
        /\ w.adv = v.adv /\ w.out = v.out /\ w.adv_timer = v.adv_timer
        /\ w.masterdown_timer = Cleared
    BY <2>1, ZenonT(60) DEF Instances, States, Timers
  <2> QED BY <1>1, <2>2, Zenon DEF w, Disciplined
<1>2. CASE v.state = "MASTER"
  <2> DEFINE o1 == Append(v.out, Adv(zero))
             o2 == Append(o1, Hook("backup"))
  <2>1. v.out \in Seq(Effects) /\ zero \in Buffers
    <3>1. 0 \in Priorities
      BY DEF Priorities
    <3>2. zero \in Buffers
      BY <3>1, BufferType
    <3> QED BY <3>2, ZenonT(60) DEF Instances
  <2>2. w = [v EXCEPT !.adv_timer = Cleared, !.out = o2, !.state = "INIT"]
    <3>1. [priority |-> v.adv.priority, chksum |-> v.adv.chksum] = v.adv
      BY DEF Instances, Buffers
    <3> QED BY <1>2, <3>1, ZenonT(60) DEF OnReload, MasterReload, vrrp_adv_send_zero,
                              vrrp_adv_send, Emit, Instances
  <2> HIDE DEF zero
  <2>3. /\ o1 \in Seq(Effects)
        /\ Calls(o1) = Calls(v.out)
        /\ \A A : Advertises(o1, A) <=> (Advertises(v.out, A) /\ zero \in A)
    BY <2>1, AppendEffect, EffectKinds, GrownBy
  <2> HIDE DEF o1
  <2>4. /\ o2 \in Seq(Effects)
        /\ Calls(o2) = Append(Calls(v.out), "backup")
        /\ \A A : Advertises(o2, A) <=> Advertises(o1, A)
    BY <2>3, AppendEffect, EffectKinds, GrownBy
  <2> HIDE DEF o2, w
  <2>5. /\ w \in Instances /\ w.state = "INIT" /\ w.priority = v.priority
        /\ w.adv = v.adv /\ w.out = o2 /\ w.adv_timer = Cleared
        /\ w.masterdown_timer = v.masterdown_timer
    BY <2>2, <2>4, Zenon DEF Instances, States, Timers
  <2>6. Disciplined(w)
    BY <1>2, <2>5, ZenonT(60) DEF Disciplined
  <2> QED BY <1>2, <2>3, <2>4, <2>5, <2>6, ZenonT(60) DEF w, o1, o2, zero
<1> QED BY <1>1, <1>2, ZenonT(60) DEF Instances, States

\* A new instance.
LEMMA NewInstanceType ==
  ASSUME NEW c \in Configs, NEW prio \in Priorities
  PROVE  LET w == NewInstance(c, prio)
         IN  /\ w \in Instances /\ Disciplined(w)
             /\ w.state = "INIT" /\ w.priority = prio /\ w.out = <<>>
             /\ w.adv = [priority |-> prio, chksum |-> adv_checksum(c, prio)]
<1> DEFINE w == NewInstance(c, prio)
<1>1. /\ w.state = "INIT" /\ w.priority = prio /\ w.out = <<>>
      /\ w.adv = [priority |-> prio, chksum |-> adv_checksum(c, prio)]
  BY Zenon DEF NewInstance
<1>2. Disciplined(w)
  BY Zenon DEF NewInstance, Disciplined
<1>3. w \in Instances
  <2>1. 0 \in Nat
    BY Zenon
  <2> QED BY <2>1, BufferType, EmptyLog, ZenonT(60) DEF NewInstance, Instances, States, Timers
<1> QED BY <1>1, <1>2, <1>3, Zenon

\* Time passes: the timers stay in their place.
LEMMA ElapsePost ==
  ASSUME NEW v \in Instances, Disciplined(v)
  PROVE  LET w == Elapse(v)
         IN  /\ w \in Instances /\ Disciplined(w)
             /\ w.state = v.state /\ w.priority = v.priority /\ w.adv = v.adv
             /\ w.out = v.out /\ w.master_adv_int = v.master_adv_int
             /\ v.masterdown_timer > 0 =>
                  w.masterdown_timer = v.masterdown_timer - 1
<1> DEFINE w == Elapse(v)
           a == IF v.adv_timer > 0 THEN v.adv_timer - 1 ELSE v.adv_timer
           b == IF v.masterdown_timer > 0 THEN v.masterdown_timer - 1
                ELSE v.masterdown_timer
<1>1. w = [v EXCEPT !.adv_timer = a, !.masterdown_timer = b]
  BY DEF Elapse, Instances
<1>2. v.adv_timer \in Timers /\ v.masterdown_timer \in Timers
  BY DEF Instances
<1>3. /\ a \in Timers /\ b \in Timers
      /\ v.adv_timer \in Nat => a \in Nat
      /\ v.masterdown_timer \in Nat => b \in Nat
      /\ v.adv_timer = Cleared => a = Cleared
      /\ v.masterdown_timer = Cleared => b = Cleared
      /\ v.masterdown_timer > 0 => b = v.masterdown_timer - 1
  BY <1>2 DEF Timers, Cleared
<1> HIDE DEF a, b, w
<1>4. /\ w \in Instances /\ w.adv_timer = a /\ w.masterdown_timer = b
      /\ w.state = v.state /\ w.priority = v.priority /\ w.adv = v.adv
      /\ w.out = v.out /\ w.master_adv_int = v.master_adv_int
  BY <1>1, <1>3, Zenon DEF Instances
<1>5. Disciplined(w)
  BY <1>3, <1>4, ZenonT(60) DEF Disciplined
<1> QED BY <1>3, <1>4, <1>5, ZenonT(60) DEF w

--------------------------------------------------------------------------------
(* Routers configured alike. *)

\* The configurations of which this holds: the interval fits the byte that
\* vrrp_net_recv compares, there are at most 255 addresses, the packet fits
\* the interface and the largest size vrrp_net_recv allows, and there is no
\* password among IPv6 addresses.
Plain(d) ==
  /\ d \in Configs
  /\ d.adv_int <= 255
  /\ Len(d.vips) \in 1..255
  /\ adv_getsize(d) <= VRRP_PKT_MAXSIZE
  /\ IPHDR_SIZE + adv_getsize(d) <= d.mtu
  /\ d.version = RFC3768 /\ d.auth_type = SIMPLE /\ d.family = 6 => d.auth_data = <<>>

Buffer(d, prio) == [priority |-> prio, chksum |-> adv_checksum(d, prio)]

Bytes == 0..255

LEMMA ByteFields ==
  /\ \A n \in 1..ADVINT_MAX : n \div 256 \in Bytes /\ n % 256 \in Bytes /\ n \in Nat
  /\ \A n \in 0..ADVINT_MAX : n \in Nat
  /\ NOAUTH \in Bytes /\ SIMPLE \in Bytes /\ 0 \in Bytes
BY SMT DEF Bytes, ADVINT_MAX, NOAUTH, SIMPLE

\* The conversion to a byte keeps a byte.
LEMMA Byte == \A n \in 1..255 : n % 256 = n
BY SMTT(40)

LEMMA ByteNat == \A n \in 1..255 : n \in Nat
BY SMTT(40)

LEMMA ByteInt == \A n \in 1..ADVINT_MAX : n <= 255 => n % 256 = n
<1>1. \A max \in Nat : \A n \in 1..max : n <= 255 => n \in 1..255
  BY SMTT(40)
<1>2. ADVINT_MAX \in Nat
  BY SMTT(40) DEF ADVINT_MAX
<1>3. \A n \in 1..ADVINT_MAX : n <= 255 => n \in 1..255
  BY <1>1, <1>2, ZenonT(60)
<1> QED BY <1>3, Byte, ZenonT(60)

\* The sizes of an advertisement of n addresses.
LEMMA SizeBounds ==
  \A n \in 1..255 :
    /\ VRRP_PKTHDR_SIZE + 4 * n + VRRP_AUTH_SIZE \in Nat
    /\ VRRP_PKTHDR_SIZE + 4 * n + VRRP_AUTH_SIZE >= VRRP_PKT_MINSIZE
    /\ VRRP_PKTHDR_SIZE + 16 * n \in Nat
    /\ VRRP_PKTHDR_SIZE + 16 * n >= VRRP_PKT_MINSIZE
BY SMTT(40) DEF VRRP_PKTHDR_SIZE, VRRP_AUTH_SIZE, VRRP_PKT_MINSIZE

\* The sizes of a plain configuration.
LEMMA Sizes ==
  ASSUME NEW d, Plain(d)
  PROVE  /\ naddr(d) = Len(d.vips) /\ naddr(d) \in 1..255
         /\ adv_getsize(d) \in Nat /\ adv_getsize(d) >= VRRP_PKT_MINSIZE
<1>1. Len(d.vips) \in 1..255
  BY ZenonT(60) DEF Plain
<1>2. naddr(d) = Len(d.vips)
  BY <1>1, Byte, ZenonT(60) DEF naddr
<1>3. naddr(d) \in 1..255
  BY <1>1, <1>2, ZenonT(60)
<1>4. \/ adv_getsize(d) = VRRP_PKTHDR_SIZE + 4 * naddr(d) + VRRP_AUTH_SIZE
      \/ adv_getsize(d) = VRRP_PKTHDR_SIZE + 16 * naddr(d)
  BY ZenonT(60) DEF adv_getsize, vrrp_ip4_getsize, vrrp_ip6_getsize
<1> QED BY <1>2, <1>3, <1>4, SizeBounds, ZenonT(60)

\* The address list of a packet, which is ours in reverse, has no address that we
\* do not have.
LEMMA SameVips ==
  ASSUME NEW d, Plain(d), NEW p,
         p.vips = [i \in 1..Len(d.vips) |-> d.vips[Len(d.vips) + 1 - i]]
  PROVE  viplist_cmp(d, p) = 0
<1> DEFINE n == Len(d.vips)
           diff == {i \in 1..naddr(d) : \A j \in 1..n : d.vips[j] # p.vips[i]}
<1>1. n \in Nat /\ naddr(d) = n
  <2>1. n \in 1..255
    BY ZenonT(60) DEF Plain
  <2>2. naddr(d) = n
    BY Sizes, ZenonT(60)
  <2> QED BY <2>1, <2>2, ByteNat, ZenonT(60)
<1>2. ASSUME NEW i \in 1..naddr(d) PROVE \E j \in 1..n : d.vips[j] = p.vips[i]
  <2>1. n + 1 - i \in 1..n
    BY <1>1, <1>2, SMTT(40)
  <2>2. p.vips[i] = d.vips[n + 1 - i]
    BY <1>1, <1>2, SMTT(40)
  <2> QED BY <2>1, <2>2, SMTT(40)
<1>3. diff = {}
  BY <1>2, SMTT(40)
<1> QED BY <1>3, FS_EmptySet, ZenonT(60) DEF viplist_cmp

\* The configurations of routers of one group, which may differ in their primary
\* address, their preemption and their start delay.
Alike(g, d) ==
  /\ g.version = d.version /\ g.vrid = d.vrid /\ g.adv_int = d.adv_int
  /\ g.auth_type = d.auth_type /\ g.auth_data = d.auth_data
  /\ g.family = d.family /\ g.vips = d.vips /\ g.mtu = d.mtu

LEMMA AlikeSizes ==
  ASSUME NEW d, NEW g, Alike(g, d)
  PROVE  naddr(g) = naddr(d) /\ adv_getsize(g) = adv_getsize(d)
<1>1. naddr(g) = naddr(d)
  BY Zenon DEF naddr, Alike
<1> QED BY <1>1, Zenon DEF adv_getsize, vrrp_ip4_getsize, vrrp_ip6_getsize, Alike

\* In IPv4 the password is read where it was written.
LEMMA PasswordByte ==
  ASSUME NEW d, NEW p, d.family = 4, Len(p.vips) = naddr(d), naddr(d) \in Nat,
         p.auth \in Seq(Chars), NEW k \in 1..Len(p.auth)
  PROVE  PayloadByte(d, p, 4 * naddr(d) + k - 1) = p.auth[k]
<1> DEFINE n == naddr(d)
           e == 4 * n + k - 1
<1>1. k \in Nat /\ k >= 1 /\ k <= Len(p.auth) /\ Len(p.auth) \in Nat
  OBVIOUS
<1> HIDE DEF n
<1>2. /\ ~(e < 4 * n) /\ e - 4 * n < Len(p.auth) /\ e - 4 * n + 1 = k
  BY <1>1, SMT DEF n
<1> HIDE DEF e
<1> QED BY <1>2, ZenonT(60) DEF PayloadByte, n, e

\* What vrrp_adv_build makes of a configuration passes every check vrrp_net_recv
\* makes with one that is alike, whatever the two priorities, unless the receiver
\* owns the addresses.
LEMMA AlikeAccept ==
  ASSUME NEW d, Plain(d), NEW g, Alike(g, d), NEW prio, NEW mine, mine # PRIO_OWNER
  PROVE  vrrp_net_recv(d, mine, vrrp_adv_build(g, Buffer(g, prio))) = "PKT"
<1> DEFINE p == vrrp_adv_build(g, Buffer(g, prio))
<1>1. /\ p.ttl = VRRP_TTL /\ p.proto = IPPROTO_VRRP /\ p.hdrlen = IPHDR_SIZE
      /\ p.size = adv_getsize(d) /\ p.version = d.version /\ p.vrid = d.vrid
      /\ p.priority = prio /\ p.naddr = naddr(d)
      /\ p.hi = IF d.version = RFC3768 THEN d.auth_type ELSE d.adv_int \div 256
      /\ p.lo = d.adv_int % 256
      /\ p.vips = [i \in 1..Len(d.vips) |-> d.vips[Len(d.vips) + 1 - i]]
      /\ d.version = RFC3768 /\ d.auth_type = SIMPLE /\ d.family = 4 =>
           p.auth = d.auth_data
      /\ p.chksum = adv_checksum(d, prio)
  <2>1. /\ g.version = d.version /\ g.vrid = d.vrid /\ g.adv_int = d.adv_int
        /\ g.auth_type = d.auth_type /\ g.auth_data = d.auth_data /\ g.vips = d.vips
        /\ g.family = d.family /\ naddr(g) = naddr(d) /\ adv_getsize(g) = adv_getsize(d)
    BY AlikeSizes, Zenon DEF Alike
  <2>2. Buffer(g, prio).priority = prio /\ Buffer(g, prio).chksum = adv_checksum(g, prio)
    BY DEF Buffer
  <2>3. adv_checksum(g, prio) = adv_checksum(d, prio)
    BY <2>1, Zenon DEF adv_checksum
  <2> QED BY <2>1, <2>2, <2>3, ZenonT(60) DEF vrrp_adv_build
<1> HIDE DEF p
<1>2. HeaderOK(d, p)
  <2>1. /\ adv_getsize(d) \in Nat /\ adv_getsize(d) >= VRRP_PKT_MINSIZE
        /\ adv_getsize(d) <= VRRP_PKT_MAXSIZE /\ IPHDR_SIZE + adv_getsize(d) <= d.mtu
        /\ d.mtu \in Nat
    BY Sizes, ZenonT(60) DEF Plain, Configs
  <2>2. pkt_receive(d, p).len \in {adv_getsize(d), IPHDR_SIZE + adv_getsize(d)}
    BY <1>1, SMTT(40) DEF pkt_receive, vrrp_ip4_recv, vrrp_ip6_recv
  <2>3. pkt_receive(d, p).proto = IPPROTO_VRRP
    BY <1>1, SMTT(40) DEF pkt_receive, vrrp_ip4_recv, vrrp_ip6_recv
  <2>4. LengthOK(d, p)
    BY <1>1, <2>1, <2>2, SMTT(40) DEF LengthOK, IPHDR_SIZE
  <2> QED BY <1>1, <2>3, <2>4 DEF HeaderOK
<1>3. ChecksumOK(d, p)
  BY <1>1, SMTT(40) DEF ChecksumOK, adv_checksum
<1>4. AuthOK(d, p)
  <2> SUFFICES ASSUME d.version # RFC5798, d.auth_type = SIMPLE,
                      NEW k \in 1..Len(d.auth_data)
               PROVE  PayloadByte(d, p, 4 * naddr(d) + k - 1) = d.auth_data[k]
    <3>1. d.version # RFC5798 => p.hi = d.auth_type
      BY <1>1, ZenonT(60) DEF Plain, Configs
    <3> QED BY <3>1, ZenonT(60) DEF AuthOK
  <2>1. d.version = RFC3768 /\ d.auth_data \in Seq(Chars) /\ d.family \in {4, 6}
    BY ZenonT(60) DEF Plain, Configs
  <2>2. d.auth_data # <<>>
    BY <2>1
  <2>3. d.family = 4 /\ p.auth = d.auth_data
    BY <1>1, <2>1, <2>2, ZenonT(60) DEF Plain
  <2>4. Len(p.vips) = naddr(d) /\ naddr(d) \in Nat
    BY <1>1, Sizes, SMTT(40)
  <2>5. p.auth \in Seq(Chars) /\ k \in 1..Len(p.auth)
    BY <2>1, <2>3, SMTT(40)
  <2>6. PayloadByte(d, p, 4 * naddr(d) + k - 1) = p.auth[k]
    BY <2>3, <2>4, <2>5, PasswordByte, ZenonT(60)
  <2> QED BY <2>3, <2>6
<1>5. VipsOK(d, p)
  <2>1. viplist_cmp(d, p) = 0
    BY <1>1, SameVips, SMTT(40)
  <2> QED BY <1>1, <2>1, SMTT(40) DEF VipsOK
<1>6. AdvIntOK(d, p)
  <2>1. d.adv_int \in 1..ADVINT_MAX /\ d.adv_int <= 255
    BY ZenonT(60) DEF Plain, Configs
  <2>2. d.adv_int % 256 = d.adv_int
    BY <2>1, ByteInt, ZenonT(60)
  <2> QED BY <1>1, <2>2, ZenonT(60) DEF AdvIntOK
<1> QED BY <1>1, <1>2, <1>3, <1>4, <1>5, <1>6, ZenonT(60) DEF vrrp_net_recv, p

\* The interval of a plain configuration comes out of the packet as it was.
LEMMA IntervalKept ==
  ASSUME NEW g, Plain(g), NEW buffer
  PROVE  /\ vrrp_adv_get_advint(vrrp_adv_build(g, buffer)) = g.adv_int
         /\ g.adv_int \in Nat /\ g.adv_int > 0
<1> DEFINE p == vrrp_adv_build(g, buffer)
           n == g.adv_int
<1>1. n \in 1..ADVINT_MAX /\ n <= 255 /\ g.version \in {RFC3768, RFC5798}
  BY Zenon DEF Plain, Configs
<1>2. /\ p.version = g.version /\ p.lo = n % 256
      /\ p.hi = IF g.version = RFC3768 THEN g.auth_type ELSE n \div 256
  BY Zenon DEF vrrp_adv_build
<1> HIDE DEF p, n
<1>3. n \in Nat /\ n > 0 /\ n % 256 = n /\ n \div 256 = 0
  BY <1>1, SMT DEF ADVINT_MAX
<1>4. vrrp_adv_get_advint(p) = n
  BY <1>1, <1>2, <1>3, SMT DEF vrrp_adv_get_advint, RFC3768, RFC5798
<1> QED BY <1>3, <1>4 DEF p, n

================================================================================
