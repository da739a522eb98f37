--------------------------- MODULE VrrpDaemon_proofs ---------------------------
(***************************************************************************)
(* Safety of VrrpDaemon for every configuration, every set of packets,     *)
(* commands and signals, and every bound.                                  *)
(*                                                                         *)
(* None of the properties is inductive alone: that the timers follow the   *)
(* state needs the type of packets in the socket, that the hook follows    *)
(* the state needs the timers (a timer that fires in INIT would call it),  *)
(* and that a stop is clean needs both.  IInv is their conjunction, and    *)
(* says that a daemon that has not called its script yet is in INIT, so    *)
(* that the first call is "init".                                          *)
(***************************************************************************)
EXTENDS VrrpDaemon, VrrpState_proofs, SequenceTheorems

\* The buffer that announces prio.
Good(prio) == [priority |-> prio, chksum |-> adv_checksum(Config, prio)]

IInv ==
  /\ TypeOK
  /\ Disciplined(v)
  /\ AdvertisementIsCurrent
  /\ VipsFollowMaster
  /\ OwnerIsMaster
  /\ StopIsClean
  /\ hook = "none" => v.state = "INIT"

\* The handlers start from an instance whose log is empty.
LEMMA QuietPost ==
  ASSUME v \in Instances
  PROVE  /\ Quiet \in Instances /\ Quiet.out = <<>>
         /\ Quiet.state = v.state /\ Quiet.priority = v.priority
         /\ Quiet.adv = v.adv /\ Quiet.master_adv_int = v.master_adv_int
         /\ Quiet.adv_timer = v.adv_timer
         /\ Quiet.masterdown_timer = v.masterdown_timer
         /\ Disciplined(v) => Disciplined(Quiet)
<1>1. Quiet = [v EXCEPT !.out = <<>>]
  BY DEF Quiet
<1>2. <<>> \in Seq(Effects)
  BY EmptyLog
<1>3. /\ Quiet \in Instances /\ Quiet.out = <<>>
      /\ Quiet.state = v.state /\ Quiet.priority = v.priority
      /\ Quiet.adv = v.adv /\ Quiet.master_adv_int = v.master_adv_int
      /\ Quiet.adv_timer = v.adv_timer
      /\ Quiet.masterdown_timer = v.masterdown_timer
  BY <1>1, <1>2, ZenonT(60) DEF Instances
<1> QED BY <1>3 DEF Disciplined

\* AdvertisementIsCurrent in terms of the log.
LEMMA CurrentMeans ==
  AdvertisementIsCurrent <=>
    v.adv = Good(v.priority) /\ Advertises(v.out, {Good(0), Good(v.priority)})
BY SMTT(40) DEF AdvertisementIsCurrent, Advertises, Good

\* The last of the calls q, or h when there is none.
LastCall(q, h) == IF q = <<>> THEN h ELSE q[Len(q)]

LEMMA LastCallIs ==
  /\ \A h : LastCall(<<>>, h) = h
  /\ \A h, a : LastCall(<<a>>, h) = a
  /\ \A h, a, b : LastCall(<<a, b>>, h) = b
BY DEF LastCall

LEMMA OneByOne ==
  /\ \A a : Append(<<>>, a) = <<a>>
  /\ \A a, b : Append(<<a>>, b) = <<a, b>>
<1>1. ASSUME NEW a PROVE Append(<<>>, a) = <<a>>
  OBVIOUS
<1>2. ASSUME NEW a, NEW b PROVE Append(<<a>>, b) = <<a, b>>
  <2> DEFINE s == Append(<<a>>, b)
             T == {a, b}
  <2>1. s \in Seq(T) /\ <<a, b>> \in Seq(T)
    OBVIOUS
  <2>2. Len(s) = 2 /\ s[1] = a /\ s[2] = b
    OBVIOUS
  <2>3. Len(<<a, b>>) = 2 /\ <<a, b>>[1] = a /\ <<a, b>>[2] = b
    OBVIOUS
  <2> HIDE DEF s
  <2>4. \A i \in 1..Len(s) : s[i] = <<a, b>>[i]
    BY <2>2, <2>3, SMTT(40)
  <2> QED BY <2>1, <2>2, <2>3, <2>4, SeqEqual, ZenonT(60) DEF s
<1> QED BY <1>1, <1>2

\* The calls an iteration records.
LEMMA FinishCalls ==
  ASSUME NEW w \in Instances, NEW r, NEW S, calls \in Seq(Args), turn \in BOOLEAN,
         Finish(w, r, S)
  PROVE  /\ calls' \in Seq(Args) /\ turn' \in BOOLEAN
         /\ hook' = LastCall(Calls(w.out), hook)
         /\ \/ Calls(w.out) = <<>> /\ calls' = calls /\ turn' = turn
            \/ Calls(w.out) # <<>> /\ calls' = Calls(w.out) /\ turn' = ~turn
<1>1. w.out \in Seq(Effects)
  BY DEF Instances
<1>2. Calls(w.out) \in Seq(Args)
  BY <1>1, CallsType, ZenonT(60)
<1> DEFINE q == Calls(w.out)
<1>3. \/ q = <<>> /\ calls' = calls /\ turn' = turn
      \/ q # <<>> /\ calls' = q /\ turn' = ~turn
  BY Zenon DEF Finish
<1> HIDE DEF q
<1>4. CASE q = <<>>
  BY <1>3, <1>4, ZenonT(60) DEF LastCall, hook, q
<1>5. CASE q # <<>>
  <2>1. turn' \in BOOLEAN
    BY <1>3, <1>5, ZenonT(60)
  <2> QED BY <1>2, <1>3, <1>5, <2>1, ZenonT(60) DEF LastCall, hook, q
<1> QED BY <1>4, <1>5, SMTT(40)

\* The last call is one.
LEMMA HookType ==
  ASSUME calls \in Seq(Args)
  PROVE  hook \in {"none", "init", "master", "backup"}
<1>1. CASE calls = <<>>
  BY <1>1 DEF hook
<1>2. CASE calls # <<>>
  <2>1. calls[Len(calls)] \in Args
    BY <1>2
  <2> QED BY <1>2, <2>1 DEF hook, Args
<1> QED BY <1>1, <1>2

\* An instance that announces its own priority, or 0.
Current(w) ==
  w.adv = Good(w.priority) /\ Advertises(w.out, {Good(0), Good(w.priority)})

\* The end of an iteration establishes the invariant when the handler leaves a
\* consistent instance, has taken the RELOAD bit, and the loop ends in INIT only.
LEMMA FinishInv ==
  ASSUME NEW w \in Instances, NEW r, NEW S,
         Disciplined(w), Current(w),
         LastCall(Calls(w.out), hook) = "master" <=> w.state = "MASTER",
         LastCall(Calls(w.out), hook) = "none" => w.state = "INIT",
         w.priority = PRIO_OWNER => w.state # "BACKUP",
         r \subseteq RegBits, "RELOAD" \notin r,
         "KEEP_GOING" \notin r => w.state = "INIT",
         S \subseteq AllSignals,
         calls \in Seq(Args), turn \in BOOLEAN,
         sock' \in Seq(Packets), fifo' \in Seq(Words), unread' \in BOOLEAN,
         flushed' \in BOOLEAN,
         Finish(w, r, S)
  PROVE  IInv'
<1>1. /\ v' = w /\ reg' = r \ {"DUMP"} /\ pending' = AfterExec(w, S)
      /\ hook' = LastCall(Calls(w.out), hook)
      /\ pc' = IF "KEEP_GOING" \in r THEN "loop" ELSE "stopped"
  BY FinishCalls, ZenonT(60) DEF Finish
<1>2. TypeOK'
  <2>1. pending' \subseteq AllSignals
    BY <1>1, SMTT(40) DEF AfterExec
  <2>2. calls' \in Seq(Args) /\ turn' \in BOOLEAN
    BY FinishCalls, ZenonT(60)
  <2>3. pc' \in {"loop", "stopped", "crashed"} /\ reg' \subseteq RegBits
    BY <1>1, SMTT(40)
  <2> QED BY <1>1, <2>1, <2>2, <2>3, ZenonT(60) DEF TypeOK, Args
<1>3. /\ Disciplined(v)' /\ VipsFollowMaster' /\ OwnerIsMaster'
      /\ (hook = "none" => v.state = "INIT")'
  BY <1>1, SMTT(40) DEF Disciplined, VipsFollowMaster, OwnerIsMaster
<1>4. AdvertisementIsCurrent'
  BY <1>1, ZenonT(60) DEF AdvertisementIsCurrent, Current, Advertises, Good
<1>5. StopIsClean'
  BY <1>1 DEF StopIsClean
<1> QED BY <1>2, <1>3, <1>4, <1>5, SMTT(40) DEF IInv

\* Taking the RELOAD bit after a signal or a command: the instance may be an
\* owner that is still a backup, and may be about to leave the loop, if the bit
\* is set.
LEMMA ReloadInv ==
  ASSUME NEW w \in Instances, NEW r, NEW S,
         Disciplined(w), w.state # "INIT", w.out = <<>>, w.adv = Good(w.priority),
         hook = "master" <=> w.state = "MASTER", hook # "none",
         w.priority = PRIO_OWNER /\ w.state = "BACKUP" => "RELOAD" \in r,
         r \subseteq RegBits, "KEEP_GOING" \notin r => "RELOAD" \in r,
         S \subseteq AllSignals,
         calls \in Seq(Args), turn \in BOOLEAN,
         sock' \in Seq(Packets), fifo' \in Seq(Words), unread' \in BOOLEAN,
         flushed' \in BOOLEAN,
         Reload(w, r, S)
  PROVE  IInv'
<1>1. CASE "RELOAD" \in r
  <2> DEFINE u == OnReload(Config, w)
  <2>1. /\ u \in Instances /\ Disciplined(u)
        /\ u.state = "INIT" /\ u.priority = w.priority /\ u.adv = w.adv
        /\ Calls(u.out) = IF w.state = "MASTER" THEN Append(Calls(w.out), "backup")
                          ELSE Calls(w.out)
        /\ \A A : Good(0) \in A /\ Advertises(w.out, A) => Advertises(u.out, A)
    BY ConfigAssumption, OnReloadPost, SMTT(40) DEF Good
  <2>2. Finish(u, r \ {"RELOAD"}, S)
    BY <1>1, SMTT(40) DEF Reload
  <2> HIDE DEF u
  <2>3. Current(u)
    BY <2>1, EmptyLog, SMTT(40) DEF Current
  <2>4. /\ w.state = "MASTER" => Calls(u.out) = <<"backup">>
        /\ w.state # "MASTER" => Calls(u.out) = <<>>
    BY <2>1, EmptyLog, OneByOne, ZenonT(60)
  <2>5. LastCall(Calls(u.out), hook) # "master"
    BY <2>4, LastCallIs, SMTT(40)
  <2>6. u.priority = PRIO_OWNER => u.state # "BACKUP"
    BY <2>1, SMTT(40)
  <2> QED BY <2>1, <2>2, <2>3, <2>5, <2>6, FinishInv, SMTT(40)
<1>2. CASE "RELOAD" \notin r
  <2>1. Finish(w, r, S)
    BY <1>2, SMTT(40) DEF Reload
  <2>2. Current(w)
    BY EmptyLog, SMTT(40) DEF Current
  <2>3. LastCall(Calls(w.out), hook) = hook
    BY EmptyLog, LastCallIs, SMTT(40)
  <2> QED BY <1>2, <2>1, <2>2, <2>3, FinishInv, SMTT(40)
<1> QED BY <1>1, <1>2, SMTT(40)

\* What the outcome o of a command may have done to the instance x and the
\* register r: it changes nothing, it sets a bit, or it sets the priority together
\* with RELOAD; KEEP_GOING is never cleared without RELOAD.
CtrlEffect(x, r, o) ==
  /\ o.reg \subseteq RegBits
  /\ "KEEP_GOING" \notin o.reg => "RELOAD" \in o.reg
  /\ o.ev # "CTRL_FIFO" => o.v = x /\ o.reg = r
  /\ \/ o.v = x
     \/ /\ "RELOAD" \in o.reg
        /\ \E prio \in Priorities :
             o.v = vrrp_adv_set_priority(Config, [x EXCEPT !.priority = prio], prio)

\* Every command of vrrp_ctrl_cmd, valid or not, has such an effect.
LEMMA CtrlCmdPost ==
  ASSUME NEW x \in Instances, NEW r \in SUBSET RegBits, "KEEP_GOING" \in r,
         NEW w \in Seq(Words), NEW nword \in Nat
  PROVE  CtrlEffect(x, r, vrrp_ctrl_cmd(Config, x, r, w, nword))
<1> USE DEF CtrlEffect
<1> DEFINE o == vrrp_ctrl_cmd(Config, x, r, w, nword)
           Out(ev, y, q) == [ev |-> ev, v |-> y, reg |-> q]
           prio == w[2].n
<1>1. CASE o = Out("INVALID", x, r)
  BY <1>1, SMTT(40)
<1>2. CASE o = Out("CTRL_FIFO", x, (r \cup {"RELOAD"}) \ {"KEEP_GOING"})
  BY <1>2, SMTT(40) DEF RegBits
<1>3. CASE o = Out("CTRL_FIFO", x, r \cup {"RELOAD"})
  BY <1>3, SMTT(40) DEF RegBits
<1>4. CASE o = Out("CTRL_FIFO", x, r \cup {"DUMP"})
  BY <1>4, SMTT(40) DEF RegBits
<1>5. CASE /\ ~Wild(w, nword) /\ nword = 2 /\ w[1].k = "prio"
           /\ ~(prio > VRRP_PRIO_MAX)
           /\ o = Out("CTRL_FIFO", vrrp_adv_set_priority(Config,
                       [x EXCEPT !.priority = prio], prio), r \cup {"RELOAD"})
  <2>1. Len(w) \in Nat /\ Len(w) # 0 /\ Len(w) # 1
    BY <1>5 DEF Wild
  <2>2. w[2] \in Words
    <3>0. \A n \in Nat : n # 0 /\ n # 1 => 2 \in 1..n
      OBVIOUS
    <3>1. 2 \in 1..Len(w)
      BY <2>1, <3>0, ZenonT(60)
    <3>2. \A n \in 1..Len(w) : w[n] \in Words
      OBVIOUS
    <3> QED BY <3>1, <3>2
  <2>3. prio \in Nat
    BY <2>2 DEF Words
  <2>4. prio \in Priorities
    <3>1. \A n \in Nat : ~(n > VRRP_PRIO_MAX) => n \in Priorities
      BY DEF Priorities, VRRP_PRIO_MAX
    <3>2. ~(prio > VRRP_PRIO_MAX)
      BY <1>5
    <3> HIDE DEF prio
    <3> QED BY <2>3, <3>1, <3>2, SMTT(40)
  <2> QED BY <1>5, <2>4, SMTT(40) DEF RegBits
<1> QED
  BY <1>1, <1>2, <1>3, <1>4, <1>5, ZenonT(60) DEF vrrp_ctrl_cmd

\* A new priority is announced at once.
LEMMA SetPriorityPost ==
  ASSUME NEW x \in Instances, NEW prio \in Priorities
  PROVE  LET y == vrrp_adv_set_priority(Config, [x EXCEPT !.priority = prio], prio)
         IN  /\ y \in Instances /\ y.adv = Good(y.priority) /\ y.out = x.out
             /\ y.state = x.state /\ y.adv_timer = x.adv_timer
             /\ y.masterdown_timer = x.masterdown_timer
<1>1. Good(prio) \in Buffers
  BY ConfigAssumption, BufferType, SMTT(40) DEF Good
<1>2. vrrp_adv_set_priority(Config, [x EXCEPT !.priority = prio], prio)
        = [x EXCEPT !.priority = prio, !.adv = Good(prio)]
  BY DEF vrrp_adv_set_priority, Good
<1> HIDE DEF Good
<1> QED BY <1>1, <1>2, ZenonT(60) DEF Instances

\* The invariant holds when the daemon starts.
LEMMA InitInv == Init => IInv
<1> SUFFICES ASSUME Init PROVE IInv
  OBVIOUS
<1>1. /\ v \in Instances /\ Disciplined(v) /\ v.state = "INIT"
      /\ v.out = <<>> /\ v.adv = Good(v.priority)
  <2> DEFINE w == NewInstance(Config, Priority)
  <2>1. /\ w \in Instances /\ Disciplined(w)
        /\ w.state = "INIT" /\ w.priority = Priority /\ w.out = <<>>
        /\ w.adv = [priority |-> Priority, chksum |-> adv_checksum(Config, Priority)]
    BY ConfigAssumption, NewInstanceType, SMTT(40)
  <2>2. v = w
    BY DEF Init
  <2> HIDE DEF w
  <2> QED BY <2>1, <2>2, SMTT(40) DEF Good
<1>2. TypeOK
  <2>1. <<>> \in Seq(Packets) /\ <<>> \in Seq(Words)
    OBVIOUS
  <2>2. /\ reg = {"KEEP_GOING"} /\ sock = <<>> /\ fifo = <<>> /\ unread = FALSE
        /\ flushed = FALSE /\ pending = {} /\ calls = <<>> /\ turn = FALSE
        /\ pc = "loop" /\ <<>> \in Seq({"init", "master", "backup"})
    BY DEF Init
  <2> QED BY <1>1, <2>1, <2>2, ZenonT(60) DEF TypeOK, RegBits
<1>3. AdvertisementIsCurrent
  BY <1>1, EmptyLog, CurrentMeans, SMTT(40)
<1>4. VipsFollowMaster /\ OwnerIsMaster /\ StopIsClean
  BY <1>1 DEF Init, VipsFollowMaster, OwnerIsMaster, StopIsClean, hook
<1> QED BY <1>1, <1>2, <1>3, <1>4, SMTT(40) DEF IInv

\* A step of the environment touches the timers and the queues only, or ends a
\* running daemon.
LEMMA EnvironmentInv ==
  ASSUME IInv, NEW w \in Instances, v' = w, Disciplined(w), w.out = <<>>,
         w.state = v.state, w.priority = v.priority, w.adv = v.adv,
         reg' = reg, calls' = calls, turn' = turn,
         pc' \in {"loop", "stopped", "crashed"}, pc' = pc \/ (pc = "loop" /\ pc' = "crashed"),
         sock' \in Seq(Packets), fifo' \in Seq(Words), unread' \in BOOLEAN,
         flushed' \in BOOLEAN, pending' \subseteq AllSignals
  PROVE  IInv'
<1>0. hook' = hook
  BY Zenon DEF hook
<1>1. TypeOK' /\ Disciplined(v)'
  BY ZenonT(60) DEF IInv, TypeOK, Disciplined
<1>2. AdvertisementIsCurrent'
  <2>1. v.adv = Good(v.priority)
    BY CurrentMeans, SMTT(40) DEF IInv
  <2>2. Advertises(w.out, {Good(0), Good(w.priority)})
    BY EmptyLog, SMTT(40)
  <2> QED BY <2>1, <2>2, SMTT(40) DEF AdvertisementIsCurrent, Advertises, Good
<1>3. /\ VipsFollowMaster' /\ OwnerIsMaster' /\ StopIsClean'
      /\ (hook = "none" => v.state = "INIT")'
  BY <1>0, SMTT(40) DEF IInv, VipsFollowMaster, OwnerIsMaster, StopIsClean
<1> QED BY <1>1, <1>2, <1>3, SMTT(40) DEF IInv

--------------------------------------------------------------------------------

\* What the invariant says of the state an iteration starts from, and of the
\* instance its handler starts from.
LEMMA Before ==
  ASSUME IInv
  PROVE  /\ v \in Instances /\ reg \subseteq RegBits /\ sock \in Seq(Packets)
         /\ fifo \in Seq(Words) /\ unread \in BOOLEAN /\ flushed \in BOOLEAN
         /\ pending \subseteq AllSignals
         /\ calls \in Seq(Args) /\ turn \in BOOLEAN
         /\ hook \in {"none", "init", "master", "backup"}
         /\ hook = "none" => v.state = "INIT"
         /\ pc \in {"loop", "stopped", "crashed"}
         /\ Disciplined(v)
         /\ v.adv = Good(v.priority)
         /\ hook = "master" <=> v.state = "MASTER"
         /\ v.priority = PRIO_OWNER => v.state # "BACKUP"
         /\ "RELOAD" \notin reg
         /\ pc = "loop" => "KEEP_GOING" \in reg
         /\ Quiet \in Instances /\ Quiet.out = <<>> /\ Disciplined(Quiet)
         /\ Quiet.state = v.state /\ Quiet.priority = v.priority /\ Quiet.adv = v.adv
         /\ Quiet.adv_timer = v.adv_timer /\ Quiet.masterdown_timer = v.masterdown_timer
         /\ Calls(Quiet.out) = <<>>
         /\ \A A : Advertises(Quiet.out, A)
<1>1. /\ v \in Instances /\ reg \subseteq RegBits /\ sock \in Seq(Packets)
      /\ fifo \in Seq(Words) /\ unread \in BOOLEAN /\ flushed \in BOOLEAN
      /\ pending \subseteq AllSignals
      /\ calls \in Seq(Args) /\ turn \in BOOLEAN
      /\ hook = "none" => v.state = "INIT"
      /\ pc \in {"loop", "stopped", "crashed"}
      /\ Disciplined(v)
      /\ v.adv = Good(v.priority)
      /\ hook = "master" <=> v.state = "MASTER"
      /\ v.priority = PRIO_OWNER => v.state # "BACKUP"
      /\ "RELOAD" \notin reg
      /\ pc = "loop" => "KEEP_GOING" \in reg
  BY CurrentMeans DEF IInv, TypeOK, Args, VipsFollowMaster, OwnerIsMaster, StopIsClean
<1>2. hook \in {"none", "init", "master", "backup"}
  BY <1>1, HookType, ZenonT(60)
<1> QED BY <1>1, <1>2, QuietPost, EmptyLog, ZenonT(60)

\* Reading the fifo amounts to taking the RELOAD bit with some instance and some
\* register: the words that are no command leave both alone, and RELOAD clear.
LEMMA CtrlReadPost ==
  ASSUME IInv, CtrlRead
  PROVE  \E w \in Instances, r \in SUBSET RegBits :
           /\ Reload(w, r, pending)
           /\ Disciplined(w) /\ w.out = <<>> /\ w.adv = Good(w.priority)
           /\ w.state = v.state
           /\ w.priority = v.priority \/ "RELOAD" \in r
           /\ "KEEP_GOING" \notin r => "RELOAD" \in r
<1> DEFINE q == Quiet
<1>q. /\ q \in Instances /\ q.out = <<>> /\ Disciplined(q)
      /\ q.state = v.state /\ q.priority = v.priority /\ q.adv = v.adv
      /\ v.adv = Good(v.priority) /\ reg \subseteq RegBits /\ fifo \in Seq(Words)
  BY Before, SMTT(40)
<1>1. /\ v.state # "INIT" /\ pc = "loop" /\ "KEEP_GOING" \in reg
      /\ fifo' = <<>> /\ unread' = FALSE /\ sock' = sock
  BY Before, SMTT(40) DEF CtrlRead, Waiting, Listening
<1>2. PICK nword \in split_cmd(fifo, flushed) :
        LET o == vrrp_ctrl_cmd(Config, Quiet, reg, fifo, nword)
        IN  /\ flushed' = (flushed \/ nword # 0)
            /\ IF o.ev = "CTRL_FIFO" THEN Reload(o.v, o.reg, pending)
               ELSE Finish(o.v, o.reg, pending)
  BY DEF CtrlRead
<1> DEFINE o == vrrp_ctrl_cmd(Config, q, reg, fifo, nword)
<1>3. nword \in Nat
  <2>1. Len(fifo) \in Nat
    BY Before, SMTT(40)
  <2>2. split_cmd(fifo, flushed) \subseteq Nat
    BY <2>1, SMTT(40) DEF split_cmd, CTRL_CMD_NTOKEN
  <2> QED BY <2>2, SMTT(40)
<1>4. IF o.ev = "CTRL_FIFO" THEN Reload(o.v, o.reg, pending)
      ELSE Finish(o.v, o.reg, pending)
  BY <1>2, SMTT(40)
<1> HIDE DEF q
<1>5. /\ o.reg \subseteq RegBits
      /\ "KEEP_GOING" \notin o.reg => "RELOAD" \in o.reg
      /\ o.ev # "CTRL_FIFO" => o.v = q /\ o.reg = reg
      /\ \/ o.v = q
         \/ /\ "RELOAD" \in o.reg
            /\ \E prio \in Priorities :
                 o.v = vrrp_adv_set_priority(Config,
                         [q EXCEPT !.priority = prio], prio)
  <2>1. q \in Instances /\ reg \in SUBSET RegBits /\ fifo \in Seq(Words)
    BY <1>q
  <2>2. "KEEP_GOING" \in reg
    BY <1>1, SMTT(40)
  <2>3. CtrlEffect(q, reg, o)
    BY <1>3, <2>1, <2>2, CtrlCmdPost, SMTT(40)
  <2> HIDE DEF o
  <2> QED BY <2>3, SMTT(40) DEF CtrlEffect
<1> HIDE DEF o
<1>6. /\ o.v \in Instances /\ o.v.adv = Good(o.v.priority) /\ o.v.out = <<>>
      /\ o.v.state = q.state /\ o.v.adv_timer = q.adv_timer
      /\ o.v.masterdown_timer = q.masterdown_timer
      /\ o.v = q \/ "RELOAD" \in o.reg
  <2>1. CASE o.v = q
    BY <1>q, <2>1, SMTT(40)
  <2>2. ASSUME NEW prio \in Priorities, "RELOAD" \in o.reg,
               o.v = vrrp_adv_set_priority(Config, [q EXCEPT !.priority = prio], prio)
        PROVE  /\ o.v \in Instances /\ o.v.adv = Good(o.v.priority)
               /\ o.v.out = <<>> /\ o.v.state = q.state
               /\ o.v.adv_timer = q.adv_timer
               /\ o.v.masterdown_timer = q.masterdown_timer
    BY <1>q, <2>2, SetPriorityPost, SMTT(40)
  <2> QED BY <1>5, <2>1, <2>2, ZenonT(60)
<1>7. Disciplined(o.v)
  BY <1>q, <1>6, SMTT(40) DEF Disciplined
<1>8. Reload(o.v, o.reg, pending)
  <2>1. CASE o.ev = "CTRL_FIFO"
    BY <1>4, <2>1, SMTT(40)
  <2>2. CASE o.ev # "CTRL_FIFO"
    BY Before, <1>4, <1>5, <2>2, SMTT(40) DEF Reload
  <2> QED BY <2>1, <2>2, SMTT(40)
<1>9. o.v.priority = v.priority \/ "RELOAD" \in o.reg
  BY <1>q, <1>6, SMTT(40)
<1> QED BY <1>q, <1>5, <1>6, <1>7, <1>8, <1>9, SMTT(40)

\* Every step preserves the invariant.
LEMMA NextInv == IInv /\ [Next]_vars => IInv'
<1> SUFFICES ASSUME IInv, [Next]_vars PROVE IInv'
  BY SMTT(40)
<1> DEFINE q == Quiet
<1>0. /\ v \in Instances /\ reg \subseteq RegBits /\ sock \in Seq(Packets)
      /\ fifo \in Seq(Words) /\ unread \in BOOLEAN /\ flushed \in BOOLEAN
      /\ pending \subseteq AllSignals
      /\ calls \in Seq(Args) /\ turn \in BOOLEAN
      /\ hook = "none" => v.state = "INIT"
      /\ pc \in {"loop", "stopped", "crashed"}
      /\ Disciplined(v)
      /\ v.adv = Good(v.priority)
      /\ hook = "master" <=> v.state = "MASTER"
      /\ v.priority = PRIO_OWNER => v.state # "BACKUP"
      /\ "RELOAD" \notin reg
      /\ pc = "loop" => "KEEP_GOING" \in reg
  BY Before, SMTT(40)
<1>q. /\ q \in Instances /\ q.out = <<>> /\ Disciplined(q)
      /\ q.state = v.state /\ q.priority = v.priority /\ q.adv = v.adv
      /\ q.adv_timer = v.adv_timer /\ q.masterdown_timer = v.masterdown_timer
      /\ Calls(q.out) = <<>>
      /\ \A A : Advertises(q.out, A)
  BY Before, SMTT(40)
<1>1. CASE StateInit
  <2> DEFINE w == vrrp_state_init(Config, q)
  <2>1. v.state = "INIT" /\ "KEEP_GOING" \in reg /\ Finish(w, reg, pending)
        /\ sock' = sock /\ fifo' = fifo /\ unread' = unread /\ flushed' = flushed
    BY <1>0, <1>1, SMTT(40) DEF StateInit
  <2>2. /\ w \in Instances
        /\ w.state = IF q.priority = PRIO_OWNER THEN "MASTER" ELSE "BACKUP"
        /\ w.priority = q.priority /\ w.adv = q.adv
        /\ w.state = "MASTER" => w.adv_timer \in Nat /\ w.masterdown_timer = Cleared
        /\ w.state = "BACKUP" => w.adv_timer = Cleared /\ w.masterdown_timer \in Nat
        /\ Calls(w.out) = IF w.state = "MASTER"
                          THEN Append(Append(Calls(q.out), "init"), "master")
                          ELSE Append(Calls(q.out), "init")
        /\ \A A : q.adv \in A /\ Advertises(q.out, A) => Advertises(w.out, A)
    <3>1. q.state = "INIT" /\ q.adv_timer = Cleared /\ q.masterdown_timer = Cleared
      BY <1>q, <2>1, ZenonT(60) DEF Disciplined
    <3> HIDE DEF q
    <3> QED BY <1>q, <3>1, ConfigAssumption, StateInitPost, ZenonT(60)
  <2> HIDE DEF w, q
  <2>3. Disciplined(w)
    BY <2>2, ZenonT(60) DEF Disciplined
  <2>4. Current(w)
    BY <1>0, <1>q, <2>2, SMTT(40) DEF Current
  <2>5. /\ LastCall(Calls(w.out), hook) = "master" <=> w.state = "MASTER"
        /\ LastCall(Calls(w.out), hook) # "none"
    <3>1. /\ w.state = "MASTER" => Calls(w.out) = <<"init", "master">>
          /\ w.state # "MASTER" => Calls(w.out) = <<"init">>
      BY <1>q, <2>2, OneByOne, ZenonT(60)
    <3> QED BY <3>1, LastCallIs, SMTT(40)
  <2>6. w.priority = PRIO_OWNER => w.state # "BACKUP"
    BY <2>2, SMTT(40)
  <2> QED BY <1>0, <2>1, <2>2, <2>3, <2>4, <2>5, <2>6, FinishInv, ZenonT(60)
<1>2. CASE Timer
  <2> DEFINE w == OnTimer(Config, q)
  <2>1. v.state # "INIT" /\ "KEEP_GOING" \in reg /\ Finish(w, reg, pending)
        /\ sock' = sock /\ fifo' = fifo /\ unread' = unread /\ flushed' = flushed
    BY <1>0, <1>2, SMTT(40) DEF Timer, Listening
  <2>2. /\ w \in Instances /\ w.state = "MASTER"
        /\ w.priority = q.priority /\ w.adv = q.adv
        /\ w.adv_timer \in Nat /\ w.masterdown_timer = Cleared
        /\ Calls(w.out) = IF q.state = "BACKUP" THEN Append(Calls(q.out), "master")
                          ELSE Calls(q.out)
        /\ \A A : q.adv \in A /\ Advertises(q.out, A) => Advertises(w.out, A)
    <3>1. q.state # "INIT" /\ (q.state = "MASTER" => q.masterdown_timer = Cleared)
      BY <1>q, <2>1, ZenonT(60) DEF Disciplined
    <3> HIDE DEF q
    <3> QED BY <1>q, <3>1, ConfigAssumption, OnTimerPost, ZenonT(60)
  <2> HIDE DEF w, q
  <2>3. Disciplined(w)
    BY <2>2, SMTT(40) DEF Disciplined
  <2>4. Current(w)
    BY <1>0, <1>q, <2>2, SMTT(40) DEF Current
  <2>5. LastCall(Calls(w.out), hook) = "master"
    <3>1. q.state = "BACKUP" \/ q.state = "MASTER"
      BY <1>q, <2>1, ZenonT(60) DEF Instances, States
    <3>2. CASE q.state = "BACKUP"
      <4>1. Calls(w.out) = <<"master">>
        BY <1>q, <2>2, <3>2, SMTT(40)
      <4> QED BY <4>1, LastCallIs, SMTT(40)
    <3>3. CASE q.state = "MASTER"
      <4>1. Calls(w.out) = <<>> /\ hook = "master"
        BY <1>0, <1>q, <2>2, <3>3, SMTT(40)
      <4> QED BY <4>1, LastCallIs, SMTT(40)
    <3> QED BY <3>1, <3>2, <3>3, SMTT(40)
  <2> QED BY <1>0, <2>1, <2>2, <2>3, <2>4, <2>5, FinishInv, ZenonT(60)
<1>3. CASE Recv
  <2> DEFINE p == Head(sock)
             w == OnPkt(Config, q, p)
  <2>1. v.state # "INIT" /\ "KEEP_GOING" \in reg /\ Finish(w, reg, pending)
        /\ sock # <<>> /\ sock' = Tail(sock)
        /\ fifo' = fifo /\ unread' = unread /\ flushed' = flushed
    BY <1>0, <1>3, SMTT(40) DEF Recv, Waiting, Listening
  <2>2. sock' \in Seq(Packets) /\ p \in Packets
    BY <1>0, <2>1, SMTT(40)
  <2>3. PacketOK(p)
    BY <2>2, EnvironmentAssumption, SMTT(40)
  <2> HIDE DEF p
  <2>4. /\ w \in Instances /\ Disciplined(w)
        /\ w.priority = q.priority /\ w.adv = q.adv
        /\ w.state # "INIT" /\ (q.state = "BACKUP" => w.state = "BACKUP")
        /\ q.priority = PRIO_OWNER => w = q
        /\ Calls(w.out) = IF w.state = q.state THEN Calls(q.out)
                          ELSE Append(Calls(q.out), "backup")
        /\ \A A : q.adv \in A /\ Advertises(q.out, A) => Advertises(w.out, A)
    <3>1. q.state # "INIT"
      BY <1>q, <2>1, ZenonT(60)
    <3> HIDE DEF q
    <3>2. q \in Instances /\ Disciplined(q) /\ Config \in Configs
      BY <1>q, ConfigAssumption, SMTT(40)
    <3> QED BY <2>3, <3>1, <3>2, OnPktPost, SMTT(40)
  <2> HIDE DEF w, q
  <2>5. Current(w)
    BY <1>0, <1>q, <2>4, ZenonT(60) DEF Current
  <2>6. /\ LastCall(Calls(w.out), hook) = "master" <=> w.state = "MASTER"
        /\ LastCall(Calls(w.out), hook) # "none"
    <3>1. CASE w.state = q.state
      <4>1. LastCall(Calls(w.out), hook) = hook
        BY <1>q, <2>4, <3>1, LastCallIs, ZenonT(60)
      <4> QED BY <1>0, <1>q, <2>1, <3>1, <4>1, ZenonT(60)
    <3>2. CASE w.state # q.state
      <4>1. Calls(w.out) = <<"backup">>
        BY <1>q, <2>4, <3>2, SMTT(40)
      <4>2. w.state # "MASTER"
        BY <1>q, <2>1, <2>4, <3>2, ZenonT(60) DEF Instances, States
      <4> QED BY <4>1, <4>2, LastCallIs, SMTT(40)
    <3> QED BY <3>1, <3>2, SMTT(40)
  <2>7. w.priority = PRIO_OWNER => w.state # "BACKUP"
    BY <1>0, <1>q, <2>4, SMTT(40)
  <2> QED BY <1>0, <2>1, <2>2, <2>4, <2>5, <2>6, <2>7, FinishInv, SMTT(40)
<1>4. CASE CtrlRead
  <2>1. /\ v.state # "INIT" /\ fifo' = <<>> /\ unread' = FALSE /\ sock' = sock
    BY <1>4, SMTT(40) DEF CtrlRead, Waiting, Listening
  <2>2. PICK nword : flushed' = (flushed \/ nword # 0)
    BY <1>4, SMTT(40) DEF CtrlRead
  <2>3. PICK w \in Instances, r \in SUBSET RegBits :
           /\ Reload(w, r, pending)
           /\ Disciplined(w) /\ w.out = <<>> /\ w.adv = Good(w.priority)
           /\ w.state = v.state
           /\ w.priority = v.priority \/ "RELOAD" \in r
           /\ "KEEP_GOING" \notin r => "RELOAD" \in r
    BY <1>4, CtrlReadPost, SMTT(40)
  <2>4. flushed' \in BOOLEAN
    <3>1. (flushed \/ nword # 0) \in BOOLEAN
      BY ZenonT(60)
    <3> QED BY <2>2, <3>1, ZenonT(60)
  <2>5. unread' \in BOOLEAN
    BY <2>1, ZenonT(60)
  <2>6. fifo' \in Seq(Words) /\ sock' \in Seq(Packets)
    BY <1>0, <2>1, SMTT(40)
  <2> QED BY <1>0, <2>1, <2>3, <2>4, <2>5, <2>6, ReloadInv, SMTT(40)
<1>5. CASE CtrlCrash
  <2>1. /\ v' = q /\ reg' = reg /\ calls' = calls /\ turn' = turn /\ pending' = pending
        /\ sock' = sock /\ fifo' = <<>> /\ unread' = FALSE /\ flushed' = flushed
        /\ pc' = "crashed" /\ pc = "loop"
    BY <1>5 DEF CtrlCrash, Waiting, Listening
  <2> HIDE DEF q
  <2>2. unread' \in BOOLEAN /\ flushed' \in BOOLEAN
    BY <1>0, <2>1, ZenonT(60)
  <2>3. fifo' \in Seq(Words) /\ sock' \in Seq(Packets) /\ pending' \subseteq AllSignals
    BY <1>0, <2>1, SMTT(40)
  <2>4. /\ q \in Instances /\ Disciplined(q) /\ q.out = <<>>
        /\ q.state = v.state /\ q.priority = v.priority /\ q.adv = v.adv
    BY <1>q, SMTT(40)
  <2> QED BY <2>1, <2>2, <2>3, <2>4, EnvironmentInv, SMTT(40)
<1>6. CASE Signal
  <2> DEFINE r == signal_handler(reg, pending)
  <2>1. /\ v.state # "INIT" /\ "KEEP_GOING" \in reg /\ Reload(q, r, {})
        /\ sock' = sock /\ fifo' = fifo /\ unread' = unread /\ flushed' = flushed
    BY <1>0, <1>6, SMTT(40) DEF Signal, Waiting, Listening
  <2>2. r \subseteq RegBits /\ ("KEEP_GOING" \notin r => "RELOAD" \in r)
    BY <1>0, <2>1, SMTT(40) DEF signal_handler, RegBits
  <2> HIDE DEF r, q
  <2>3. /\ q \in Instances /\ Disciplined(q) /\ q.state # "INIT" /\ q.out = <<>>
        /\ q.adv = Good(q.priority)
        /\ hook = "master" <=> q.state = "MASTER"
        /\ hook # "none"
        /\ q.priority = PRIO_OWNER => q.state # "BACKUP"
    BY <1>0, <1>q, <2>1, ZenonT(60)
  <2>4. unread' \in BOOLEAN /\ flushed' \in BOOLEAN
    BY <1>0, <2>1, ZenonT(60)
  <2>5. /\ sock' \in Seq(Packets) /\ fifo' \in Seq(Words) /\ {} \subseteq AllSignals
        /\ calls \in Seq(Args) /\ turn \in BOOLEAN
    BY <1>0, <2>1, SMTT(40)
  <2> QED BY <2>1, <2>2, <2>3, <2>4, <2>5, ReloadInv, SMTT(40)
<1>7. CASE Tick
  <2> DEFINE w == Elapse(q)
  <2>1. /\ v' = w /\ UNCHANGED <<reg, sock, fifo, unread, flushed, pending, calls, turn, pc>>
    BY <1>7, SMTT(40) DEF Tick
  <2> HIDE DEF q
  <2>2. /\ w \in Instances /\ Disciplined(w) /\ w.state = q.state
        /\ w.priority = q.priority /\ w.adv = q.adv /\ w.out = q.out
    BY <1>q, ElapsePost, ZenonT(60)
  <2> HIDE DEF w
  <2> QED BY <1>0, <1>q, <2>1, <2>2, EnvironmentInv, ZenonT(60)
<1>8. ASSUME NEW p \in Packets, Arrive(p) PROVE IInv'
  <2>1. /\ v' = q /\ sock' = Append(sock, p)
        /\ UNCHANGED <<reg, fifo, unread, flushed, pending, calls, turn, pc>>
    BY <1>8, SMTT(40) DEF Arrive
  <2>2. sock' \in Seq(Packets)
    BY <1>0, <2>1, SMTT(40)
  <2> HIDE DEF q
  <2> QED BY <1>0, <1>q, <2>1, <2>2, EnvironmentInv, ZenonT(60)
<1>9. ASSUME NEW cmd \in Commands, Write(cmd) PROVE IInv'
  <2>1. /\ v' = q /\ fifo' = fifo \o cmd /\ unread' = TRUE
        /\ UNCHANGED <<reg, sock, flushed, pending, calls, turn, pc>>
    BY <1>9, SMTT(40) DEF Write
  <2>2. fifo' \in Seq(Words)
    BY <1>0, <2>1, EnvironmentAssumption, SMTT(40)
  <2> HIDE DEF q
  <2> QED BY <1>0, <1>q, <2>1, <2>2, EnvironmentInv, ZenonT(60)
<1>10. ASSUME NEW s \in Signals, Kill(s) PROVE IInv'
  <2>1. /\ v' = q /\ pending' = pending \cup {s}
        /\ UNCHANGED <<reg, sock, fifo, unread, flushed, calls, turn, pc>>
    BY <1>10, SMTT(40) DEF Kill
  <2>2. pending' \subseteq AllSignals
    BY <1>0, <2>1, EnvironmentAssumption, SMTT(40)
  <2> HIDE DEF q
  <2> QED BY <1>0, <1>q, <2>1, <2>2, EnvironmentInv, ZenonT(60)
<1>11. CASE UNCHANGED vars
  BY <1>11, ZenonT(60) DEF vars, IInv, TypeOK, Disciplined, AdvertisementIsCurrent,
               VipsFollowMaster, OwnerIsMaster, StopIsClean, hook
<1> QED
  BY <1>1, <1>2, <1>3, <1>4, <1>5, <1>6, <1>7, <1>8, <1>9, <1>10, <1>11, SMTT(40)
  DEF Next, Daemon, Done

--------------------------------------------------------------------------------
(* What an iteration does to the outside. *)

\* The calls q an iteration may make, given the last one before it.
Allowed(q) ==
  \/ hook # "master" /\ q \in {<<"init">>, <<"init", "master">>}
  \/ hook \in {"init", "backup"} /\ q = <<"master">>
  \/ hook = "master" /\ q = <<"backup">>

HookStep ==
  \/ calls' = calls /\ turn' = turn
  \/ turn' = ~turn /\ Allowed(calls')

\* An iteration whose handler makes allowed calls or none.
LEMMA FinishHook ==
  ASSUME NEW w \in Instances, NEW r, NEW S, calls \in Seq(Args), turn \in BOOLEAN,
         Calls(w.out) = <<>> \/ Allowed(Calls(w.out)),
         Finish(w, r, S)
  PROVE  HookStep
<1> DEFINE q == Calls(w.out)
<1>1. \/ q = <<>> /\ calls' = calls /\ turn' = turn
      \/ q # <<>> /\ calls' = q /\ turn' = ~turn
  BY FinishCalls, ZenonT(60)
<1>2. q = <<>> \/ Allowed(q)
  OBVIOUS
<1> HIDE DEF q
<1> QED BY <1>1, <1>2, ZenonT(60) DEF HookStep, Allowed

\* A resignation is on the wire before the hook removes the addresses.
Announced ==
  v.state = "MASTER" /\ v'.state = "INIT" =>
    \E i, j \in 1..Len(v'.out) :
      i < j /\ v'.out[i].ev = "adv" /\ v'.out[i].adv.priority = 0
            /\ v'.out[j] = Hook("backup")

\* Taking the RELOAD bit releases the addresses of a master and of no other.
LEMMA ReloadHook ==
  ASSUME NEW w \in Instances, NEW r, NEW S,
         Disciplined(w), w.state # "INIT", w.out = <<>>, w.state = v.state,
         hook = "master" <=> v.state = "MASTER",
         calls \in Seq(Args), turn \in BOOLEAN,
         Reload(w, r, S)
  PROVE  HookStep /\ Announced
<1>1. CASE "RELOAD" \in r
  <2> DEFINE u == OnReload(Config, w)
             zero == [priority |-> 0, chksum |-> adv_checksum(Config, 0)]
  <2>1. /\ u \in Instances
        /\ w.state = "MASTER" =>
             u.out = Append(Append(w.out, Adv(zero)), Hook("backup"))
        /\ Calls(u.out) = IF w.state = "MASTER" THEN Append(Calls(w.out), "backup")
                          ELSE Calls(w.out)
    BY ConfigAssumption, OnReloadPost, ZenonT(60)
  <2>2. v' = u /\ Finish(u, r \ {"RELOAD"}, S)
    BY <1>1, ZenonT(60) DEF Reload, Finish
  <2> HIDE DEF u
  <2>3. HookStep
    <3>1. CASE w.state = "MASTER"
      <4>1. Calls(u.out) = <<"backup">>
        BY <2>1, <3>1, EmptyLog, OneByOne, ZenonT(60)
      <4>2. Allowed(Calls(u.out))
        BY <3>1, <4>1, SMTT(40) DEF Allowed
      <4> QED BY <2>1, <2>2, <4>2, FinishHook, ZenonT(60)
    <3>2. CASE w.state # "MASTER"
      <4>1. Calls(u.out) = <<>>
        BY <2>1, <3>2, EmptyLog, SMTT(40)
      <4> QED BY <2>1, <2>2, <4>1, FinishHook, ZenonT(60)
    <3> QED BY <3>1, <3>2, ZenonT(60)
  <2>4. Announced
    <3> SUFFICES ASSUME w.state = "MASTER"
                 PROVE  \E i, j \in 1..Len(u.out) :
                          i < j /\ u.out[i].ev = "adv"
                                /\ u.out[i].adv.priority = 0
                                /\ u.out[j] = Hook("backup")
      BY <2>2, ZenonT(60) DEF Announced
    <3>1. u.out = <<Adv(zero), Hook("backup")>>
      BY <2>1, SMTT(40)
    <3>2. /\ Len(u.out) = 2 /\ u.out[1] = Adv(zero)
          /\ u.out[2] = Hook("backup")
      BY <3>1, SMTT(40)
    <3>3. Adv(zero).ev = "adv" /\ Adv(zero).adv.priority = 0
      BY SMTT(40) DEF Adv
    <3> HIDE DEF zero
    <3> QED BY <3>2, <3>3, SMTT(40)
  <2> QED BY <2>3, <2>4, SMTT(40)
<1>2. CASE "RELOAD" \notin r
  <2>1. v' = w /\ Finish(w, r, S)
    BY <1>2, ZenonT(60) DEF Reload, Finish
  <2>2. HookStep
    BY <2>1, EmptyLog, FinishHook, ZenonT(60)
  <2> QED BY <2>1, <2>2, ZenonT(60) DEF Announced
<1> QED BY <1>1, <1>2, SMTT(40)

\* Every step of the daemon respects both.
LEMMA NextHook == IInv /\ [Next]_vars => HookStep /\ Announced
<1> SUFFICES ASSUME IInv, [Next]_vars PROVE HookStep /\ Announced
  BY SMTT(40)
<1> DEFINE q == Quiet
<1>0. /\ v \in Instances /\ sock \in Seq(Packets)
      /\ calls \in Seq(Args) /\ turn \in BOOLEAN
      /\ hook \in {"none", "init", "master", "backup"}
      /\ hook = "none" => v.state = "INIT"
      /\ hook = "master" <=> v.state = "MASTER"
      /\ q \in Instances /\ q.out = <<>> /\ Disciplined(q)
      /\ q.state = v.state /\ Calls(q.out) = <<>>
  BY Before, ZenonT(60)
<1>1. CASE StateInit
  <2> DEFINE w == vrrp_state_init(Config, q)
  <2>1. v.state = "INIT" /\ Finish(w, reg, pending)
    BY <1>1, SMTT(40) DEF StateInit
  <2>2. q.state = "INIT" /\ q.adv_timer = Cleared /\ q.masterdown_timer = Cleared
    BY <1>0, <2>1, SMTT(40) DEF Disciplined
  <2> HIDE DEF q
  <2>3. /\ w \in Instances
        /\ Calls(w.out) = IF w.state = "MASTER"
                          THEN Append(Append(Calls(q.out), "init"), "master")
                          ELSE Append(Calls(q.out), "init")
    BY <1>0, <2>2, ConfigAssumption, StateInitPost, ZenonT(60)
  <2> HIDE DEF w
  <2>4. Calls(w.out) \in {<<"init">>, <<"init", "master">>}
    BY <1>0, <2>3, OneByOne, ZenonT(60)
  <2>5. Allowed(Calls(w.out))
    BY <1>0, <2>1, <2>4, SMTT(40) DEF Allowed
  <2>6. HookStep
    BY <1>0, <2>1, <2>3, <2>5, FinishHook, ZenonT(60)
  <2> QED BY <2>1, <2>6, ZenonT(60) DEF Announced
<1>2. CASE Timer
  <2> DEFINE w == OnTimer(Config, q)
  <2>1. v.state # "INIT" /\ v' = w /\ Finish(w, reg, pending)
    BY <1>2, SMTT(40) DEF Timer, Finish, Listening
  <2>2. q.state # "INIT" /\ (q.state = "MASTER" => q.masterdown_timer = Cleared)
    BY <1>0, <2>1, SMTT(40) DEF Disciplined
  <2> HIDE DEF q
  <2>3. /\ w \in Instances /\ w.state = "MASTER"
        /\ Calls(w.out) = IF q.state = "BACKUP" THEN Append(Calls(q.out), "master")
                          ELSE Calls(q.out)
    BY <1>0, <2>2, ConfigAssumption, OnTimerPost, ZenonT(60)
  <2> HIDE DEF w
  <2>4. Calls(w.out) = <<>> \/ Allowed(Calls(w.out))
    BY <1>0, <2>1, <2>3, SMTT(40) DEF Allowed
  <2>5. HookStep
    BY <1>0, <2>1, <2>3, <2>4, FinishHook, ZenonT(60)
  <2> QED BY <2>1, <2>3, <2>5, ZenonT(60) DEF Announced
<1>3. CASE Recv
  <2> DEFINE p == Head(sock)
             w == OnPkt(Config, q, p)
  <2>1. v.state # "INIT" /\ sock # <<>> /\ v' = w /\ Finish(w, reg, pending)
    BY <1>3, SMTT(40) DEF Recv, Finish, Waiting, Listening
  <2>2. PacketOK(p)
    <3>1. p \in Packets
      BY <1>0, <2>1, SMTT(40)
    <3> QED BY <3>1, EnvironmentAssumption, SMTT(40)
  <2> HIDE DEF q, p
  <2>3. /\ w \in Instances
        /\ w.state # "INIT" /\ (q.state = "BACKUP" => w.state = "BACKUP")
        /\ Calls(w.out) = IF w.state = q.state THEN Calls(q.out)
                          ELSE Append(Calls(q.out), "backup")
    BY <1>0, <2>1, <2>2, ConfigAssumption, OnPktPost, ZenonT(60)
  <2> HIDE DEF w
  <2>4. w.state # q.state => v.state = "MASTER"
    BY <1>0, <2>1, <2>3, ZenonT(60) DEF Instances, States
  <2>5. Calls(w.out) = <<>> \/ Allowed(Calls(w.out))
    BY <1>0, <2>3, <2>4, SMTT(40) DEF Allowed
  <2>6. HookStep
    BY <1>0, <2>1, <2>3, <2>5, FinishHook, ZenonT(60)
  <2> QED BY <2>1, <2>3, <2>6, ZenonT(60) DEF Announced
<1>4. CASE CtrlRead
  <2>1. v.state # "INIT"
    BY <1>4, SMTT(40) DEF CtrlRead, Waiting, Listening
  <2>2. PICK w \in Instances, r \in SUBSET RegBits :
          /\ Reload(w, r, pending)
          /\ Disciplined(w) /\ w.out = <<>> /\ w.state = v.state
    BY <1>4, CtrlReadPost, SMTT(40)
  <2> QED BY <1>0, <2>1, <2>2, ReloadHook, ZenonT(60)
<1>5. CASE Signal
  <2>1. v.state # "INIT" /\ Reload(q, signal_handler(reg, pending), {})
    BY <1>5, SMTT(40) DEF Signal, Waiting, Listening
  <2> HIDE DEF q
  <2> QED BY <1>0, <2>1, ReloadHook, ZenonT(60)
<1>6. CASE CtrlCrash
  BY <1>0, <1>6, ZenonT(60) DEF CtrlCrash, HookStep, Announced
<1>7. CASE Tick
  <2>1. v' = Elapse(q) /\ calls' = calls /\ turn' = turn
    BY <1>7, SMTT(40) DEF Tick
  <2> HIDE DEF q
  <2>2. Elapse(q).state = q.state
    BY <1>0, ElapsePost, SMTT(40)
  <2> QED BY <1>0, <2>1, <2>2, ZenonT(60) DEF HookStep, Announced
<1>8. ASSUME NEW p \in Packets, Arrive(p) PROVE HookStep /\ Announced
  BY <1>0, <1>8, ZenonT(60) DEF Arrive, HookStep, Announced
<1>9. ASSUME NEW cmd \in Commands, Write(cmd) PROVE HookStep /\ Announced
  BY <1>0, <1>9, SMTT(40) DEF Write, HookStep, Announced
<1>10. ASSUME NEW s \in Signals, Kill(s) PROVE HookStep /\ Announced
  BY <1>0, <1>10, SMTT(40) DEF Kill, HookStep, Announced
<1>11. CASE UNCHANGED vars
  BY <1>11 DEF vars, HookStep, Announced
<1> QED
  BY <1>1, <1>2, <1>3, <1>4, <1>5, <1>6, <1>7, <1>8, <1>9, <1>10, <1>11, SMTT(40)
  DEF Next, Daemon, Done

--------------------------------------------------------------------------------

\* The inductive invariant holds in every state the daemon can be in.
THEOREM Invariance == Spec => []IInv
BY InitInv, NextInv, PTL DEF Spec

\* The state of the daemon keeps its types, whatever arrives.
THEOREM TypeCorrect == Spec => []TypeOK
<1>1. IInv => TypeOK
  BY SMTT(40) DEF IInv
<1> QED BY <1>1, Invariance, PTL

\* Exactly the timer that goes with the state runs: vrrp_listen never exits with
\* "no timer running !", and no stale timer takes precedence over the right one.
THEOREM TimersFollowState == Spec => []TimerDiscipline
<1>1. IInv => TimerDiscipline
  <2> SUFFICES ASSUME IInv PROVE TimerDiscipline
    BY SMTT(40)
  <2>1. v \in Instances /\ Disciplined(v)
    BY Before, ZenonT(60)
  <2> QED BY <2>1, SMTT(40) DEF TimerDiscipline, Disciplined, vrrp_timer_is_running,
                      Instances, States, Cleared
<1> QED BY <1>1, Invariance, PTL

\* Every advertisement that leaves the daemon announces its priority, or 0, under
\* a checksum that verifies.
THEOREM AdvertisementsAreCurrent == Spec => []AdvertisementIsCurrent
<1>1. IInv => AdvertisementIsCurrent
  BY SMTT(40) DEF IInv
<1> QED BY <1>1, Invariance, PTL

\* The hook script was last called with "master" exactly while the instance is
\* master, whatever packets, commands and signals came.
THEOREM VipsFollow == Spec => []VipsFollowMaster
<1>1. IInv => VipsFollowMaster
  BY SMTT(40) DEF IInv
<1> QED BY <1>1, Invariance, PTL

\* The owner of the addresses is never a backup.
THEOREM OwnerMaster == Spec => []OwnerIsMaster
<1>1. IInv => OwnerIsMaster
  BY SMTT(40) DEF IInv
<1> QED BY <1>1, Invariance, PTL

\* The daemon leaves its loop from INIT only, with its interface released.
THEOREM StopClean == Spec => []StopIsClean
<1>1. IInv => StopIsClean
  BY DEF IInv
<1> QED BY <1>1, Invariance, PTL

\* A master told to give up announces it before its hook removes the addresses.
THEOREM ResignationAnnounced == Spec => ResignationIsAnnounced
<1>1. IInv /\ [Next]_vars => [Announced]_vars
  BY NextHook
<1> QED BY <1>1, Invariance, PTL DEF Spec, ResignationIsAnnounced, Announced

\* The daemon implements VrrpSwitch, the protocol its hook script relies on.
THEOREM ImplementsSwitch == Spec => HookProtocol
<1>1. Init => Switch!Init
  BY DEF Init, Switch!Init
<1>2. IInv /\ [Next]_vars => [Switch!Iterate]_<<calls, turn>>
  <2> SUFFICES ASSUME HookStep PROVE [Switch!Iterate]_<<calls, turn>>
    BY NextHook, ZenonT(60)
  <2>1. CASE calls' = calls /\ turn' = turn
    BY <2>1
  <2>2. CASE turn' = ~turn /\ Allowed(calls')
    <3>1. Switch!Last(calls) = hook
      BY DEF Switch!Last, hook
    <3>2. /\ hook # "master" => "init" \in Switch!After(hook)
          /\ hook \in {"init", "backup"} => "master" \in Switch!After(hook)
          /\ hook = "master" => "backup" \in Switch!After(hook)
          /\ "master" \in Switch!After("init")
      BY DEF Switch!After
    <3>3. calls' # <<>> /\ calls'[1] \in Switch!After(hook)
      BY <2>2, <3>2, SMTT(40) DEF Allowed
    <3>4. \A n \in 2..Len(calls') : calls'[n] \in Switch!After(calls'[n - 1])
      BY <2>2, <3>2 DEF Allowed
    <3> QED BY <2>2, <3>1, <3>3, <3>4, ZenonT(60) DEF Switch!Iterate
  <2> QED BY <2>1, <2>2, ZenonT(60) DEF HookStep
<1> QED BY <1>1, <1>2, Invariance, PTL DEF Spec, HookProtocol, Switch!Spec

================================================================================
