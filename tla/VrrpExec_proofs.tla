---------------------------- MODULE VrrpExec_proofs ----------------------------
(***************************************************************************)
(* Proofs about VrrpExec, for any bound on the number of processes.        *)
(***************************************************************************)
EXTENDS VrrpExec, SequenceTheorems, TLAPS

Calls == {<<>>, <<"init">>, <<"init", "master">>, <<"master">>, <<"backup">>}

\* Of the first daemon between its handlers and its script: what it still has to
\* call agrees with its state, and so does the interface i once the last call for
\* MASTER or BACKUP has run (r); s is the script that runs.
Agrees(todo, state, s, i, r) ==
  /\ todo \in Calls
  /\ todo = <<"init">> => state = "BACKUP"
  /\ todo \in {<<"init", "master">>, <<"master">>} => state = "MASTER"
  /\ todo = <<"backup">> => state # "MASTER"
  /\ s \in {"none", "init"} /\ todo \in {<<>>, <<"init">>} /\ r =>
       (i = "up" <=> state = "MASTER")
  /\ s = "master" => todo = <<>> /\ state = "MASTER"
  /\ s = "backup" => todo = <<>> /\ state # "MASTER"

Follows(d) == Agrees(d.todo, d.state, script, iface, ran)

\* The first daemon alone: it lost its arguments to a failed fork, or nothing of
\* its calls is left but what a running script still needs.
Alone(d) ==
  /\ Follows(d)
  /\ d.argv => d.sched = "RR" /\ d.int = IF script = "none" THEN "handler" ELSE "ignored"
  /\ ~d.argv => forkfailed /\ d.int # "default" /\ script = "none"

\* The first daemon waits for a stray.
Waiting(d, e) ==
  /\ Follows(d) /\ script = "none"
  /\ d.argv /\ d.sched = "RR" /\ d.int = "ignored"
  /\ ~e.argv /\ e.todo \in Calls

Shared ==
  /\ script \in {"none", "init", "master", "backup"}
  /\ iface \in {"up", "none"} /\ files \in {"there", "removed"}
  /\ ended \in {"no", "stopped", "crashed"}
  /\ ran \in BOOLEAN /\ forkfailed \in BOOLEAN /\ stray \in BOOLEAN
  /\ ended = "crashed" => forkfailed

ExecInv ==
  /\ Shared
  /\ \/ stack = <<>> /\ ended # "no" /\ script = "none"
     \/ /\ ended = "no"
        /\ \/ \E d \in Daemon : stack = <<d>> /\ Alone(d)
           \/ 2 <= MaxStack /\ \E d, e \in Daemon : stack = <<d, e>> /\ Waiting(d, e)

--------------------------------------------------------------------------------
(* Stacks of one and of two, and the calls left to make. *)

LEMMA One ==
  ASSUME NEW d
  PROVE  /\ <<d>> # <<>> /\ Len(<<d>>) = 1 /\ <<d>>[1] = d /\ SubSeq(<<d>>, 1, 0) = <<>>
         /\ \A x : [<<d>> EXCEPT ![1] = x] = <<x>>
         /\ \A e : Append(<<d>>, e) = <<d, e>>
<1>1. <<d>> # <<>> /\ Len(<<d>>) = 1 /\ <<d>>[1] = d
  BY SMT
<1>2. SubSeq(<<d>>, 1, 0) = <<>>
  BY SMT
<1>3. \A x : [<<d>> EXCEPT ![1] = x] = <<x>>
  BY SMT
<1>4. ASSUME NEW e PROVE Append(<<d>>, e) = <<d, e>>
  <2> DEFINE S == {d, e}
             a == Append(<<d>>, e)
             t == <<d, e>>
  <2>1. <<d>> \in Seq(S) /\ e \in S /\ t \in Seq(S) /\ Len(t) = 2 /\ t[1] = d /\ t[2] = e
    BY SMT
  <2>2. Len(<<d>>) = 1 /\ <<d>>[1] = d
    BY SMT
  <2>3. a \in Seq(S) /\ Len(a) = 2 /\ a[1] = d /\ a[2] = e
    BY <2>1, <2>2, AppendProperties, SMT
  <2> HIDE DEF S, a, t
  <2>4. \A i \in 1..Len(a) : a[i] = t[i]
    BY <2>1, <2>3, SMT
  <2>5. a = t
    BY <2>1, <2>3, <2>4, SeqEqual, SMT
  <2> QED BY <2>5 DEF a, t
<1> QED BY <1>1, <1>2, <1>3, <1>4, Zenon

LEMMA Two ==
  ASSUME NEW d, NEW e
  PROVE  /\ <<d, e>> # <<>> /\ Len(<<d, e>>) = 2
         /\ <<d, e>>[1] = d /\ <<d, e>>[2] = e /\ SubSeq(<<d, e>>, 1, 1) = <<d>>
         /\ \A x : [<<d, e>> EXCEPT ![1] = x] = <<x, e>>
         /\ \A x : [<<d, e>> EXCEPT ![2] = x] = <<d, x>>
<1>1. <<d, e>> # <<>> /\ Len(<<d, e>>) = 2 /\ <<d, e>>[1] = d /\ <<d, e>>[2] = e
  BY SMT
<1>2. SubSeq(<<d, e>>, 1, 1) = <<d>>
  <2> DEFINE S == {d, e}
             a == SubSeq(<<d, e>>, 1, 1)
             t == <<d>>
  <2>1. t \in Seq(S) /\ Len(t) = 1 /\ t[1] = d
    BY SMT
  <2>2. \A i \in 1..1 : <<d, e>>[i] \in S
    BY SMT
  <2>3. a \in Seq(S) /\ Len(a) = 1 /\ a[1] = <<d, e>>[1]
    BY <2>2, SubSeqProperties, SMT
  <2>4. <<d, e>>[1] = d
    BY SMT
  <2> HIDE DEF S, a, t
  <2>5. \A i \in 1..Len(a) : a[i] = t[i]
    BY <2>1, <2>3, <2>4, SMT
  <2>6. a = t
    BY <2>1, <2>3, <2>5, SeqEqual, SMT
  <2> QED BY <2>6 DEF a, t
<1>3. \A x : [<<d, e>> EXCEPT ![1] = x] = <<x, e>>
  BY SMT
<1>4. \A x : [<<d, e>> EXCEPT ![2] = x] = <<d, x>>
  BY SMT
<1> QED BY <1>1, <1>2, <1>3, <1>4, Zenon

\* The first call, and the ones after it.
LEMMA CallTails ==
  /\ Head(<<"init">>) = "init" /\ Tail(<<"init">>) = <<>>
  /\ Head(<<"master">>) = "master" /\ Tail(<<"master">>) = <<>>
  /\ Head(<<"backup">>) = "backup" /\ Tail(<<"backup">>) = <<>>
  /\ Head(<<"init", "master">>) = "init" /\ Tail(<<"init", "master">>) = <<"master">>
BY SMT

LEMMA CallsDiffer ==
  /\ <<"init">> # <<>> /\ <<"master">> # <<>> /\ <<"backup">> # <<>>
  /\ <<"init", "master">> # <<>>
  /\ <<"init">> # <<"master">> /\ <<"init">> # <<"backup">> /\ <<"master">> # <<"backup">>
  /\ <<"init", "master">> # <<"init">> /\ <<"init", "master">> # <<"master">>
  /\ <<"init", "master">> # <<"backup">>
BY SMT

LEMMA CallsType == Calls \subseteq Seq({"init", "master", "backup"})
BY SMT DEF Calls

--------------------------------------------------------------------------------
(* What the steps do to one process. *)

\* A process x that d has become, keeping its arguments, its scheduling and its
\* dispositions.
Keeps(x, d) == x.argv = d.argv /\ x.sched = d.sched /\ x.int = d.int

Names == {"INIT", "BACKUP", "MASTER"}

\* A handler.
LEMMA HandlePost ==
  ASSUME NEW d \in Daemon, NEW state \in Names, NEW todo \in Calls
  PROVE  LET x == [d EXCEPT !.state = state, !.todo = todo]
         IN  x \in Daemon /\ x.state = state /\ x.todo = todo /\ Keeps(x, d)
<1>1. todo \in Seq({"init", "master", "backup"})
  BY CallsType
<1> QED BY <1>1, ZenonT(60) DEF Daemon, Keeps, Names

\* A stop or a reload, by a command.
LEMMA ReloadPost ==
  ASSUME NEW d \in Daemon, NEW going \in BOOLEAN
  PROVE  LET x == Reload(d, going)
         IN  /\ x \in Daemon /\ x.state = "INIT" /\ Keeps(x, d)
             /\ x.todo = IF d.state = "MASTER" THEN <<"backup">> ELSE <<>>
<1> DEFINE t == IF d.state = "MASTER" THEN <<"backup">> ELSE <<>>
<1>1. t \in Calls
  BY Zenon DEF Calls
<1>2. t \in Seq({"init", "master", "backup"})
  BY <1>1, CallsType
<1>3. Reload(d, going) = [d EXCEPT !.state = "INIT", !.going = going, !.todo = t]
  BY Zenon DEF Reload
<1> HIDE DEF t
<1>4. LET x == Reload(d, going)
      IN  x \in Daemon /\ x.state = "INIT" /\ Keeps(x, d) /\ x.todo = t
  BY <1>2, <1>3, ZenonT(60) DEF Daemon, Keeps
<1> QED BY <1>4 DEF t

\* The signals pselect delivers.
LEMMA DeliverPost ==
  ASSUME NEW d \in Daemon
  PROVE  LET x == [d EXCEPT !.pending = {}]
         IN  x \in Daemon /\ x.state = d.state /\ x.todo = d.todo /\ Keeps(x, d)
BY ZenonT(60) DEF Daemon, Keeps

\* A signal sent.
LEMMA KillPost ==
  ASSUME NEW d \in Daemon, NEW sig \in Signals
  PROVE  LET x == [d EXCEPT !.pending = d.pending \cup {sig}]
         IN  x \in Daemon /\ x.state = d.state /\ x.todo = d.todo /\ Keeps(x, d)
BY ZenonT(60) DEF Daemon, Keeps

LEMMA ReturnPost ==
  ASSUME NEW d \in Daemon
  PROVE  LET x == Return(d)
         IN  /\ x \in Daemon /\ x.state = d.state /\ x.todo = d.todo
             /\ x.argv = d.argv /\ x.sched = d.sched /\ x.int = "handler"
BY ZenonT(60) DEF Daemon, Return

LEMMA IgnoringPost ==
  ASSUME NEW d \in Daemon
  PROVE  LET x == Ignoring(d)
         IN  /\ x \in Daemon /\ x.state = d.state /\ x.todo = d.todo
             /\ x.argv = d.argv /\ x.sched = d.sched /\ x.int = "ignored"
BY ZenonT(60) DEF Daemon, Ignoring

LEMMA DonePost ==
  ASSUME NEW d \in Daemon, Tail(d.todo) \in Calls
  PROVE  LET x == Done(d)
         IN  x \in Daemon /\ x.state = d.state /\ x.todo = Tail(d.todo) /\ Keeps(x, d)
<1>1. Tail(d.todo) \in Seq({"init", "master", "backup"})
  BY CallsType
<1> QED BY <1>1, ZenonT(60) DEF Daemon, Done, Keeps

\* What a failed fork and a child free and give up.
LEMMA UnsetPost ==
  ASSUME NEW d \in Daemon
  PROVE  LET x == vrrp_exec_cleanup(uvrrpd_sched_unset(d))
         IN  /\ x \in Daemon /\ x.state = d.state /\ x.todo = d.todo
             /\ x.argv = FALSE /\ x.int = d.int
BY ZenonT(60) DEF Daemon, vrrp_exec_cleanup, uvrrpd_sched_unset

LEMMA SetPost ==
  ASSUME NEW d \in Daemon
  PROVE  LET x == uvrrpd_sched_set(d)
         IN  /\ x \in Daemon /\ x.state = d.state /\ x.todo = d.todo
             /\ x.argv = d.argv /\ x.sched = "RR" /\ x.int = d.int
BY ZenonT(60) DEF Daemon, uvrrpd_sched_set

\* The ways out of vrrp_exec: a failed fork, the parent, the child.
LEMMA ForkFailsPost ==
  ASSUME NEW d \in Daemon, Tail(d.todo) \in Calls
  PROVE  LET x == vrrp_exec_cleanup(uvrrpd_sched_unset(Done(Ignoring(d))))
         IN  /\ x \in Daemon /\ x.state = d.state /\ x.todo = Tail(d.todo)
             /\ x.argv = FALSE /\ x.int = "ignored"
<1> DEFINE i == Ignoring(d)
           p == Done(i)
<1>1. /\ i \in Daemon /\ i.state = d.state /\ i.todo = d.todo /\ i.int = "ignored"
  BY IgnoringPost, Zenon
<1> HIDE DEF i
<1>2. p \in Daemon /\ p.state = d.state /\ p.todo = Tail(d.todo) /\ p.int = "ignored"
  BY <1>1, DonePost, Zenon DEF Keeps
<1> HIDE DEF p
<1>3. LET x == vrrp_exec_cleanup(uvrrpd_sched_unset(p))
      IN  /\ x \in Daemon /\ x.state = d.state /\ x.todo = Tail(d.todo)
          /\ x.argv = FALSE /\ x.int = "ignored"
  BY <1>2, UnsetPost, Zenon
<1> QED BY <1>3, Zenon DEF i, p

LEMMA WaitsPost ==
  ASSUME NEW d \in Daemon, Tail(d.todo) \in Calls
  PROVE  LET x == Waits(d)
         IN  /\ x \in Daemon /\ x.state = d.state /\ x.todo = Tail(d.todo)
             /\ x.argv = d.argv /\ x.sched = "RR" /\ x.int = "ignored"
<1> DEFINE i == Ignoring(d)
           p == Done(i)
<1>1. /\ i \in Daemon /\ i.state = d.state /\ i.todo = d.todo /\ i.int = "ignored"
      /\ i.argv = d.argv
  BY IgnoringPost, Zenon
<1> HIDE DEF i
<1>2. /\ p \in Daemon /\ p.state = d.state /\ p.todo = Tail(d.todo) /\ p.int = "ignored"
      /\ p.argv = d.argv
  BY <1>1, DonePost, Zenon DEF Keeps
<1> HIDE DEF p
<1>3. LET x == uvrrpd_sched_set(p)
      IN  /\ x \in Daemon /\ x.state = d.state /\ x.todo = Tail(d.todo)
          /\ x.argv = d.argv /\ x.sched = "RR" /\ x.int = "ignored"
  BY <1>2, SetPost, Zenon
<1> QED BY <1>3, Zenon DEF i, p, Waits

LEMMA ChildPost ==
  ASSUME NEW d \in Daemon, Tail(d.todo) \in Calls
  PROVE  LET x == Child(d)
         IN  x \in Daemon /\ x.argv = FALSE /\ x.todo = Tail(d.todo)
<1> DEFINE o == Done(d)
<1>1. o \in Daemon /\ o.todo = Tail(d.todo)
  BY DonePost, Zenon
<1>2. Child(d) = vrrp_exec_cleanup(
                   [uvrrpd_sched_unset(o) EXCEPT !.int = "default", !.pending = {}])
  BY Zenon DEF Child
<1> HIDE DEF o
<1>3. LET x == Child(d) IN x \in Daemon /\ x.argv = FALSE /\ x.todo = o.todo
  BY <1>1, <1>2, ZenonT(60) DEF Daemon, vrrp_exec_cleanup, uvrrpd_sched_unset
<1> QED BY <1>1, <1>3, Zenon

--------------------------------------------------------------------------------
(* The inductive invariant. *)

\* A call leaves fewer calls, and what it runs agrees with the state.
LEMMA CallCases ==
  ASSUME NEW t \in Calls, t # <<>>
  PROVE  /\ Tail(t) \in Calls /\ Head(t) \in {"init", "master", "backup"}
         /\ \/ t = <<"init">> /\ Head(t) = "init" /\ Tail(t) = <<>>
            \/ t = <<"init", "master">> /\ Head(t) = "init" /\ Tail(t) = <<"master">>
            \/ t = <<"master">> /\ Head(t) = "master" /\ Tail(t) = <<>>
            \/ t = <<"backup">> /\ Head(t) = "backup" /\ Tail(t) = <<>>
<1>1. t \in {<<"init">>, <<"init", "master">>, <<"master">>, <<"backup">>}
  BY Zenon DEF Calls
<1>2. /\ \/ t = <<"init">> /\ Head(t) = "init" /\ Tail(t) = <<>>
         \/ t = <<"init", "master">> /\ Head(t) = "init" /\ Tail(t) = <<"master">>
         \/ t = <<"master">> /\ Head(t) = "master" /\ Tail(t) = <<>>
         \/ t = <<"backup">> /\ Head(t) = "backup" /\ Tail(t) = <<>>
  BY <1>1, CallTails, Zenon
<1> QED BY <1>2, Zenon DEF Calls

\* A call: ok says that the script runs.
LEMMA AgreesCall ==
  ASSUME NEW t \in Calls, t # <<>>, NEW state, NEW i, NEW r, NEW ok \in BOOLEAN,
         Agrees(t, state, "none", i, r)
  PROVE  Agrees(Tail(t), state, IF ok THEN Head(t) ELSE "none", i,
                IF Head(t) # "init" THEN ok ELSE r)
<1>1. CASE t = <<"init">>
  <2>1. state = "BACKUP" /\ (r => i # "up")
    BY <1>1, CallsDiffer, Zenon DEF Agrees, Calls
  <2>2. Agrees(<<>>, state, "none", i, r) /\ Agrees(<<>>, state, "init", i, r)
    BY <2>1, CallsDiffer, Zenon DEF Agrees, Calls
  <2> QED BY <1>1, <2>2, CallTails, Zenon
<1>2. CASE t = <<"init", "master">>
  <2>1. state = "MASTER"
    BY <1>2, CallsDiffer, Zenon DEF Agrees, Calls
  <2>2. \A s \in {"none", "init"} : Agrees(<<"master">>, state, s, i, r)
    BY <2>1, CallsDiffer, Zenon DEF Agrees, Calls
  <2> QED BY <1>2, <2>2, CallTails, Zenon
<1>3. CASE t = <<"master">>
  <2>1. state = "MASTER"
    BY <1>3, CallsDiffer, Zenon DEF Agrees, Calls
  <2>2. Agrees(<<>>, state, "master", i, TRUE) /\ Agrees(<<>>, state, "none", i, FALSE)
    BY <2>1, CallsDiffer, Zenon DEF Agrees, Calls
  <2> QED BY <1>3, <2>2, CallTails, Zenon
<1>4. CASE t = <<"backup">>
  <2>1. state # "MASTER"
    BY <1>4, CallsDiffer, Zenon DEF Agrees, Calls
  <2>2. Agrees(<<>>, state, "backup", i, TRUE) /\ Agrees(<<>>, state, "none", i, FALSE)
    BY <2>1, CallsDiffer, Zenon DEF Agrees, Calls
  <2> QED BY <1>4, <2>2, CallTails, Zenon
<1> QED BY <1>1, <1>2, <1>3, <1>4, CallCases, Zenon

\* The first daemon alone takes a step.
LEMMA AloneStep ==
  ASSUME Shared, ended = "no", NEW d \in Daemon, stack = <<d>>, Alone(d), Next
  PROVE  ExecInv'
<1>1. /\ stack # <<>> /\ Len(stack) = 1 /\ Top = d /\ Below = <<>> /\ stack[1] = d
      /\ \A x : WithTop(x) = <<x>>
      /\ \A x : [stack EXCEPT ![1] = x] = <<x>>
      /\ \A x, e : Append(<<x>>, e) = <<x, e>>
  <2>1. Len(stack) = 1 /\ Len(stack) - 1 = 0
    BY One, SMT
  <2> QED BY <2>1, One, Zenon DEF Top, Below, WithTop
<1>2. ASSUME NEW x \in Daemon, stack' = <<x>>, ended' = ended, Shared', Alone(x)'
      PROVE  ExecInv'
  BY <1>2, Zenon DEF ExecInv
<1>3. ASSUME stack' = <<>>, ended' # "no", script' = "none", Shared'
      PROVE  ExecInv'
  BY <1>3, Zenon DEF ExecInv
<1>4. /\ Agrees(d.todo, d.state, script, iface, ran) /\ d.todo \in Calls
      /\ (d.argv => d.sched = "RR" /\ d.int = IF script = "none" THEN "handler" ELSE "ignored")
      /\ (~d.argv => forkfailed /\ d.int # "default" /\ script = "none")
  BY Zenon DEF Alone, Follows, Agrees
\* a step of the state machine that keeps the arguments
<1>5. ASSUME NEW x \in Daemon, stack' = <<x>>, Keeps(x, d), script = "none",
             UNCHANGED <<script, iface, files, ended, history>>,
             Agrees(x.todo, x.state, "none", iface, ran)
      PROVE  ExecInv'
  <2>1. Alone(x)'
    BY <1>4, <1>5, Zenon DEF Alone, Follows, Keeps, history
  <2>2. Shared'
    BY <1>5, Zenon DEF Shared, history
  <2> QED BY <1>2, <1>5, <2>1, <2>2
\* a handler
<1>14. ASSUME NEW state \in Names, NEW t \in Calls, Loop,
              Handle(state, t), Agrees(t, state, "none", iface, ran)
       PROVE  ExecInv'
  <2> DEFINE x == [d EXCEPT !.state = state, !.todo = t]
  <2>1. script = "none" /\ UNCHANGED <<script, iface, files, ended, history>> /\ stack' = <<x>>
    BY <1>1, <1>14, Zenon DEF Loop, Runs, Handle
  <2>2. x \in Daemon /\ x.state = state /\ x.todo = t /\ Keeps(x, d)
    BY <1>14, HandlePost, Zenon
  <2> HIDE DEF x
  <2> QED BY <1>5, <1>14, <2>1, <2>2, Zenon
<1>6. CASE StateInit
  <2>1. Loop /\ script = "none" /\ d.todo = <<>> /\ d.state = "INIT"
    BY <1>1, <1>6, Zenon DEF StateInit, Loop, Runs
  <2>2. Agrees(<<>>, "INIT", "none", iface, ran)
    BY <1>4, <2>1, Zenon
  <2>3. ran => iface # "up"
    BY <2>2, CallsDiffer, Zenon DEF Agrees, Calls
  <2>4. /\ Agrees(<<"init">>, "BACKUP", "none", iface, ran)
        /\ Agrees(<<"init", "master">>, "MASTER", "none", iface, ran)
    BY <2>3, CallsDiffer, Zenon DEF Agrees, Calls
  <2>5. <<"init">> \in Calls /\ <<"init", "master">> \in Calls
    BY Zenon DEF Calls
  <2> QED BY <1>6, <1>14, <2>1, <2>4, <2>5, Zenon DEF StateInit, Names
<1>7. CASE MasterDown
  <2>1. Agrees(<<"master">>, "MASTER", "none", iface, ran) /\ <<"master">> \in Calls
    BY CallsDiffer, Zenon DEF Agrees, Calls
  <2> QED BY <1>7, <1>14, <2>1, Zenon DEF MasterDown, Names
<1>8. CASE Better
  <2>1. Agrees(<<"backup">>, "BACKUP", "none", iface, ran) /\ <<"backup">> \in Calls
    BY CallsDiffer, Zenon DEF Agrees, Calls
  <2> QED BY <1>8, <1>14, <2>1, Zenon DEF Better, Names
\* the reload branch
<1>9. ASSUME script = "none", d.todo = <<>>
      PROVE  Agrees(IF d.state = "MASTER" THEN <<"backup">> ELSE <<>>, "INIT", "none",
                    iface, ran)
  <2>1. Agrees(<<>>, d.state, "none", iface, ran)
    BY <1>4, <1>9, Zenon
  <2>2. d.state # "MASTER" => Agrees(<<>>, "INIT", "none", iface, ran)
    BY <2>1, CallsDiffer, Zenon DEF Agrees, Calls
  <2>3. Agrees(<<"backup">>, "INIT", "none", iface, ran)
    BY CallsDiffer, Zenon DEF Agrees, Calls
  <2> QED BY <2>2, <2>3, Zenon
<1>10. CASE Command
  <2>1. /\ script = "none" /\ d.todo = <<>>
        /\ UNCHANGED <<script, iface, files, ended, history>>
        /\ \E going \in BOOLEAN : stack' = <<Reload(d, going)>>
    BY <1>1, <1>10, Zenon DEF Command, Loop, Runs
  <2>2. PICK going \in BOOLEAN : stack' = <<Reload(d, going)>>
    BY <2>1
  <2> QED BY <1>5, <1>9, <2>1, <2>2, ReloadPost, Zenon
<1>11. ASSUME NEW k \in 1..Len(stack), NEW sig \in Signals, Kill(k, sig)
       PROVE  ExecInv'
  <2>1. k = 1
    BY <1>1, SMT
  <2>2. /\ stack' = [stack EXCEPT ![k] = [stack[k] EXCEPT !.pending = stack[k].pending \cup {sig}]]
        /\ UNCHANGED <<script, iface, files, ended, history>>
    BY <1>11, Zenon DEF Kill
  <2> DEFINE x == [d EXCEPT !.pending = d.pending \cup {sig}]
  <2>3. stack' = <<x>>
    BY <1>1, <2>1, <2>2, Zenon
  <2>4. x \in Daemon /\ x.state = d.state /\ x.todo = d.todo /\ Keeps(x, d)
    BY KillPost, Zenon
  <2> HIDE DEF x
  <2>5. Alone(x)'
    BY <1>4, <2>2, <2>4, Zenon DEF Alone, Follows, Keeps, history
  <2>6. Shared'
    BY <2>2, Zenon DEF Shared, history
  <2> QED BY <1>2, <2>2, <2>3, <2>4, <2>5, <2>6, Zenon
\* the end of the only daemon
<1>12. ASSUME NEW how, Pop(how)
       PROVE  stack' = <<>> /\ ended' = how
  BY <1>1, <1>12, Zenon DEF Pop
<1>13. CASE Deliver
  <2>1. /\ script = "none" /\ d.todo = <<>> /\ d.int # "default"
        /\ UNCHANGED <<script, iface, files, history>>
    BY <1>1, <1>4, <1>13, Zenon DEF Deliver, Loop, Runs
  <2> DEFINE g == d.pending = {"HUP"}
  <2>2. stack' = <<[Reload(d, g) EXCEPT !.pending = {}]>> /\ ended' = ended
    BY <1>1, <1>13, <2>1, Zenon DEF Deliver
  <2>3. g \in BOOLEAN
    OBVIOUS
  <2> HIDE DEF g
  <2> DEFINE r == Reload(d, g)
  <2>4. /\ r \in Daemon /\ r.state = "INIT" /\ Keeps(r, d)
        /\ r.todo = IF d.state = "MASTER" THEN <<"backup">> ELSE <<>>
    BY <2>3, ReloadPost, Zenon
  <2> DEFINE x == [r EXCEPT !.pending = {}]
  <2>5. stack' = <<x>>
    BY <2>2
  <2> HIDE DEF r
  <2>6. x \in Daemon /\ x.state = r.state /\ x.todo = r.todo /\ Keeps(x, r)
    BY <2>4, DeliverPost, Zenon
  <2> HIDE DEF x
  <2>7. Agrees(x.todo, x.state, "none", iface, ran)
    BY <1>9, <2>1, <2>4, <2>6, Zenon
  <2>8. Keeps(x, d)
    BY <2>4, <2>6, Zenon DEF Keeps
  <2> QED BY <1>5, <2>1, <2>2, <2>5, <2>6, <2>7, <2>8, Zenon
<1>15. CASE Leave
  <2>1. /\ stack' = <<>> /\ ended' = "stopped" /\ files' = "removed" /\ script' = "none"
        /\ UNCHANGED <<iface, history>>
    BY <1>1, <1>12, <1>15, Zenon DEF Leave, Runs
  <2>2. Shared'
    BY <2>1, Zenon DEF Shared, history
  <2> QED BY <1>3, <2>1, <2>2, Zenon
\* a call of the script
<1>16. ASSUME Called
       PROVE  /\ script = "none" /\ d.todo # <<>> /\ Tail(d.todo) \in Calls
              /\ Head(d.todo) \in {"init", "master", "backup"}
              /\ \A ok \in BOOLEAN :
                   Agrees(Tail(d.todo), d.state, IF ok THEN Head(d.todo) ELSE "none", iface,
                          IF Head(d.todo) # "init" THEN ok ELSE ran)
              /\ \A ok \in BOOLEAN :
                   Made(ok) => ran' = IF Head(d.todo) # "init" THEN ok ELSE ran
  <2>1. script = "none" /\ d.todo # <<>>
    BY <1>1, <1>16, Zenon DEF Called, Runs
  <2>2. Tail(d.todo) \in Calls /\ Head(d.todo) \in {"init", "master", "backup"}
    BY <1>4, <2>1, CallCases, Zenon
  <2>3. \A ok \in BOOLEAN :
          Agrees(Tail(d.todo), d.state, IF ok THEN Head(d.todo) ELSE "none", iface,
                 IF Head(d.todo) # "init" THEN ok ELSE ran)
    BY <1>4, <2>1, AgreesCall, Zenon
  <2>4. \A ok \in BOOLEAN : Made(ok) => ran' = IF Head(d.todo) # "init" THEN ok ELSE ran
    BY <1>1, Zenon DEF Made
  <2> QED BY <2>1, <2>2, <2>3, <2>4, Zenon
<1>17. ASSUME NEW ok \in BOOLEAN, Called, Made(ok)
       PROVE  ran' \in BOOLEAN
  BY <1>16, <1>17, Zenon DEF Shared
<1>18. CASE NotExecutable
  <2>1. /\ Called /\ stack' = <<Done(d)>> /\ Made(FALSE)
        /\ UNCHANGED <<script, iface, files, ended, forkfailed, stray>>
    BY <1>1, <1>18, Zenon DEF NotExecutable
  <2> DEFINE x == Done(d)
  <2>2. x \in Daemon /\ x.state = d.state /\ x.todo = Tail(d.todo) /\ Keeps(x, d)
    BY <1>16, <2>1, DonePost, Zenon
  <2>3. stack' = <<x>>
    BY <2>1
  <2> HIDE DEF x
  <2>4. Agrees(x.todo, x.state, script', iface', ran')
    BY <1>16, <2>1, <2>2, Zenon
  <2>5. Alone(x)'
    BY <1>4, <1>16, <2>1, <2>2, <2>4, Zenon DEF Alone, Follows, Keeps
  <2>6. Shared'
    BY <1>17, <2>1, Zenon DEF Shared
  <2> QED BY <1>2, <2>1, <2>2, <2>3, <2>5, <2>6, Zenon
<1>19. CASE NoArgs
  <2>1. /\ Called /\ ~d.argv /\ stack' = <<>> /\ ended' = "crashed" /\ Made(FALSE)
        /\ UNCHANGED <<script, iface, files, forkfailed, stray>>
    BY <1>1, <1>12, <1>19, Zenon DEF NoArgs
  <2>2. Shared'
    BY <1>4, <1>17, <2>1, Zenon DEF Shared
  <2> QED BY <1>3, <1>16, <2>1, <2>2, Zenon
<1>20. CASE ForkFails
  <2> DEFINE x == vrrp_exec_cleanup(uvrrpd_sched_unset(Done(Ignoring(d))))
  <2>1. /\ Called /\ stack' = <<x>> /\ Made(FALSE) /\ forkfailed' = TRUE
        /\ UNCHANGED <<script, iface, files, ended, stray>>
    BY <1>1, <1>20, Zenon DEF ForkFails
  <2>2. /\ x \in Daemon /\ x.state = d.state /\ x.todo = Tail(d.todo)
        /\ x.argv = FALSE /\ x.int = "ignored"
    BY <1>16, <2>1, ForkFailsPost, Zenon
  <2> HIDE DEF x
  <2>3. Agrees(x.todo, x.state, script', iface', ran')
    BY <1>16, <2>1, <2>2, Zenon
  <2>4. Alone(x)'
    BY <1>16, <2>1, <2>2, <2>3, Zenon DEF Alone, Follows
  <2>5. Shared'
    BY <1>17, <2>1, Zenon DEF Shared
  <2> QED BY <1>2, <2>1, <2>2, <2>4, <2>5, Zenon
<1>21. CASE ExecWorks
  <2> DEFINE x == Waits(d)
  <2>1. /\ Called /\ d.argv /\ stack' = <<x>> /\ Made(TRUE) /\ script' = Head(d.todo)
        /\ UNCHANGED <<iface, files, ended, forkfailed, stray>>
    BY <1>1, <1>21, Zenon DEF ExecWorks
  <2>2. /\ x \in Daemon /\ x.state = d.state /\ x.todo = Tail(d.todo)
        /\ x.argv = d.argv /\ x.sched = "RR" /\ x.int = "ignored"
    BY <1>16, <2>1, WaitsPost, Zenon
  <2> HIDE DEF x
  <2>3. Agrees(x.todo, x.state, script', iface', ran')
    BY <1>16, <2>1, <2>2, Zenon
  <2>4. script' # "none" /\ script' \in {"none", "init", "master", "backup"}
    BY <1>16, <2>1, Zenon
  <2>5. Alone(x)'
    BY <2>1, <2>2, <2>3, <2>4, Zenon DEF Alone, Follows
  <2>6. Shared'
    BY <1>17, <2>1, <2>4, Zenon DEF Shared
  <2> QED BY <1>2, <2>1, <2>2, <2>5, <2>6, Zenon
<1>22. CASE ExecFails
  <2> DEFINE x == Waits(d)
             e == Child(d)
  <2>1. /\ Called /\ d.argv /\ stack' = <<x, e>> /\ Made(FALSE) /\ stray' = TRUE
        /\ 1 < MaxStack /\ UNCHANGED <<script, iface, files, ended, forkfailed>>
    <3>1. Append(WithTop(Waits(Top)), Child(Top)) = <<x, e>>
      BY <1>1, Zenon
    <3> QED BY <1>1, <1>22, <3>1, Zenon DEF ExecFails
  <2>2. /\ x \in Daemon /\ x.state = d.state /\ x.todo = Tail(d.todo)
        /\ x.argv = d.argv /\ x.sched = "RR" /\ x.int = "ignored"
    BY <1>16, <2>1, WaitsPost, Zenon
  <2>3. e \in Daemon /\ e.argv = FALSE /\ e.todo \in Calls
    BY <1>16, <2>1, ChildPost, Zenon
  <2>4. 2 <= MaxStack
    BY <2>1, MaxStackAssumption, SMT
  <2> HIDE DEF x, e
  <2>5. Agrees(x.todo, x.state, script', iface', ran')
    BY <1>16, <2>1, <2>2, Zenon
  <2>6. Waiting(x, e)'
    BY <1>16, <2>1, <2>2, <2>3, <2>5, Zenon DEF Waiting, Follows
  <2>7. Shared'
    BY <1>17, <2>1, Zenon DEF Shared
  <2> QED BY <2>1, <2>2, <2>3, <2>4, <2>6, <2>7, Zenon DEF ExecInv
<1>23. CASE ScriptEnds
  <2> DEFINE x == Return(d)
  <2>1. /\ script # "none" /\ script' = "none" /\ stack' = <<x>>
        /\ UNCHANGED <<files, ended, history>>
        /\ iface' = CASE script = "master" -> "up"
                      [] script = "backup" -> "none"
                      [] OTHER -> iface
    BY <1>1, <1>23, Zenon DEF ScriptEnds
  <2>2. /\ x \in Daemon /\ x.state = d.state /\ x.todo = d.todo
        /\ x.argv = d.argv /\ x.sched = d.sched /\ x.int = "handler"
    BY ReturnPost, Zenon
  <2> HIDE DEF x
  <2>3. script \in {"init", "master", "backup"} /\ iface \in {"up", "none"}
    BY <2>1, Zenon DEF Shared
  <2>4. /\ script = "master" => iface' = "up"
        /\ script = "backup" => iface' = "none"
        /\ script = "init" => iface' = iface
    BY <2>1, Zenon
  <2>5. Agrees(d.todo, d.state, "none", iface', ran)
    <3>1. CASE script = "init"
      BY <1>4, <2>4, <3>1, Zenon DEF Agrees
    <3>2. CASE script = "master"
      <4>1. d.todo = <<>> /\ d.state = "MASTER" /\ iface' = "up"
        BY <1>4, <2>4, <3>2, Zenon DEF Agrees
      <4> QED BY <4>1, CallsDiffer, Zenon DEF Agrees, Calls
    <3>3. CASE script = "backup"
      <4>1. d.todo = <<>> /\ d.state # "MASTER" /\ iface' # "up"
        BY <1>4, <2>4, <3>3, Zenon DEF Agrees
      <4> QED BY <4>1, CallsDiffer, Zenon DEF Agrees, Calls
    <3> QED BY <2>3, <3>1, <3>2, <3>3, Zenon
  <2>6. Alone(x)'
    BY <1>4, <2>1, <2>2, <2>5, Zenon DEF Alone, Follows, history
  <2>7. Shared'
    BY <2>1, <2>3, <2>4, Zenon DEF Shared, history
  <2> QED BY <1>2, <2>1, <2>2, <2>6, <2>7, Zenon
<1>24. CASE Over
  BY <1>1, <1>24, Zenon DEF Over
<1> QED
  BY <1>6, <1>7, <1>8, <1>10, <1>11, <1>13, <1>15, <1>18, <1>19, <1>20, <1>21, <1>22, <1>23,
     <1>24, Zenon DEF Next, vrrp_exec

\* A stray takes a step while the first daemon waits for it.
LEMMA WaitingStep ==
  ASSUME Shared, ended = "no", 2 <= MaxStack, NEW d \in Daemon, NEW e \in Daemon,
         stack = <<d, e>>, Waiting(d, e), Next
  PROVE  ExecInv'
<1>1. /\ stack # <<>> /\ Len(stack) = 2 /\ Top = e /\ Below = <<d>>
      /\ stack[1] = d /\ stack[2] = e /\ <<d>> # <<>>
      /\ \A x : WithTop(x) = <<d, x>>
      /\ \A x : [stack EXCEPT ![1] = x] = <<x, e>>
      /\ \A x : [stack EXCEPT ![2] = x] = <<d, x>>
  <2>1. <<d, e>>[1] = d /\ <<d, e>>[2] = e
    BY SMT
  <2>2. stack # <<>> /\ Len(stack) = 2 /\ Len(stack) - 1 = 1
    BY Two, SMT
  <2>6. Below = <<d>>
    BY <2>2, Two, Zenon DEF Below
  <2>3. /\ \A x : [stack EXCEPT ![1] = x] = <<x, e>>
        /\ \A x : [stack EXCEPT ![2] = x] = <<d, x>>
    BY SMT
  <2>4. <<d>> # <<>>
    BY One, Zenon
  <2>5. \A x : WithTop(x) = <<d, x>>
    BY <2>2, <2>3, Zenon DEF WithTop
  <2> QED BY <2>1, <2>2, <2>3, <2>4, <2>5, <2>6, Zenon DEF Top
<1>2. /\ Agrees(d.todo, d.state, "none", iface, ran) /\ script = "none"
      /\ d.argv /\ d.sched = "RR" /\ d.int = "ignored" /\ ~e.argv /\ e.todo \in Calls
  BY Zenon DEF Waiting, Follows
\* the first daemon still waits
<1>3. ASSUME NEW x \in Daemon, NEW y \in Daemon, stack' = <<x, y>>,
             x.todo = d.todo, x.state = d.state, Keeps(x, d), y.argv = e.argv,
             y.todo \in Calls, UNCHANGED <<script, iface, files, ended, history>>
      PROVE  ExecInv'
  <2>1. Waiting(x, y)'
    BY <1>2, <1>3, Zenon DEF Waiting, Follows, Keeps, history
  <2>2. Shared'
    BY <1>3, Zenon DEF Shared, history
  <2> QED BY <1>3, <2>1, <2>2, Zenon DEF ExecInv
<1>4. Keeps(d, d)
  BY DEF Keeps
\* a handler
<1>5. ASSUME NEW state \in Names, NEW t \in Calls, Handle(state, t)
      PROVE  ExecInv'
  <2> DEFINE y == [e EXCEPT !.state = state, !.todo = t]
  <2>1. UNCHANGED <<script, iface, files, ended, history>> /\ stack' = <<d, y>>
    BY <1>1, <1>5, Zenon DEF Handle
  <2>2. y \in Daemon /\ y.state = state /\ y.todo = t /\ Keeps(y, e)
    BY <1>5, HandlePost, Zenon
  <2> HIDE DEF y
  <2>3. y.argv = e.argv
    BY <2>2 DEF Keeps
  <2> QED BY <1>3, <1>4, <1>5, <2>1, <2>2, <2>3, Zenon
<1>6. /\ <<>> \in Calls /\ <<"init">> \in Calls /\ <<"init", "master">> \in Calls
      /\ <<"master">> \in Calls /\ <<"backup">> \in Calls
      /\ "BACKUP" \in Names /\ "MASTER" \in Names
  BY Zenon DEF Calls, Names
<1>7. CASE StateInit
  BY <1>5, <1>6, <1>7, Zenon DEF StateInit
<1>8. CASE MasterDown
  BY <1>5, <1>6, <1>8, Zenon DEF MasterDown
<1>9. CASE Better
  BY <1>5, <1>6, <1>9, Zenon DEF Better
<1>10. CASE Command
  <2>1. PICK going \in BOOLEAN : stack' = <<d, Reload(e, going)>>
    BY <1>1, <1>10, Zenon DEF Command
  <2>2. UNCHANGED <<script, iface, files, ended, history>>
    BY <1>10, Zenon DEF Command
  <2> DEFINE y == Reload(e, going)
  <2>3. y \in Daemon /\ y.todo \in Calls /\ y.argv = e.argv
    BY <1>6, ReloadPost, Zenon DEF Keeps
  <2>4. stack' = <<d, y>>
    BY <2>1
  <2> HIDE DEF y
  <2> QED BY <1>3, <1>4, <2>2, <2>3, <2>4, Zenon
<1>11. ASSUME NEW k \in 1..Len(stack), NEW sig \in Signals, Kill(k, sig)
       PROVE  ExecInv'
  <2>1. k = 1 \/ k = 2
    BY <1>1, SMT
  <2>2. /\ stack' = [stack EXCEPT ![k] = [stack[k] EXCEPT !.pending = stack[k].pending \cup {sig}]]
        /\ UNCHANGED <<script, iface, files, ended, history>>
    BY <1>11, Zenon DEF Kill
  <2>3. CASE k = 1
    <3> DEFINE x == [d EXCEPT !.pending = d.pending \cup {sig}]
    <3>1. stack' = <<x, e>>
      BY <1>1, <2>2, <2>3, Zenon
    <3>2. x \in Daemon /\ x.state = d.state /\ x.todo = d.todo /\ Keeps(x, d)
      BY KillPost, Zenon
    <3> HIDE DEF x
    <3> QED BY <1>2, <1>3, <2>2, <3>1, <3>2, Zenon
  <2>4. CASE k = 2
    <3> DEFINE y == [e EXCEPT !.pending = e.pending \cup {sig}]
    <3>1. stack' = <<d, y>>
      BY <1>1, <2>2, <2>4, Zenon
    <3>2. y \in Daemon /\ y.todo = e.todo /\ y.argv = e.argv
      BY KillPost, Zenon DEF Keeps
    <3> HIDE DEF y
    <3> QED BY <1>2, <1>3, <1>4, <2>2, <3>1, <3>2, Zenon
  <2> QED BY <2>1, <2>3, <2>4
\* the stray ends and the first daemon comes back from waitpid
<1>12. ASSUME NEW how, Pop(how), files' \in {"there", "removed"},
              UNCHANGED <<script, iface, ran, forkfailed, stray>>
       PROVE  ExecInv'
  <2> DEFINE x == Return(d)
  <2>1. stack' = <<x>> /\ ended' = ended
    <3>1. stack' = [<<d>> EXCEPT ![Len(<<d>>)] = Return(<<d>>[Len(<<d>>)])] /\ ended' = ended
      BY <1>1, <1>12, Zenon DEF Pop
    <3>2. <<d>>[1] = d /\ Len(<<d>>) = 1 /\ [<<d>> EXCEPT ![1] = Return(d)] = <<Return(d)>>
      BY One, SMT
    <3> QED BY <3>1, <3>2, Zenon
  <2>2. /\ x \in Daemon /\ x.state = d.state /\ x.todo = d.todo
        /\ x.argv = d.argv /\ x.sched = d.sched /\ x.int = "handler"
    BY ReturnPost, Zenon
  <2> HIDE DEF x
  <2>3. Alone(x)'
    BY <1>2, <1>12, <2>2, Zenon DEF Alone, Follows
  <2>4. Shared'
    BY <1>12, <2>1, Zenon DEF Shared
  <2> QED BY <2>1, <2>2, <2>3, <2>4, Zenon DEF ExecInv
<1>13. CASE Deliver
  <2>1. UNCHANGED <<script, iface, files, ran, forkfailed, stray>>
    BY <1>13, Zenon DEF Deliver, history
  <2>2. CASE Pop("crashed")
    BY <1>12, <2>1, <2>2, Zenon DEF Shared
  <2>3. CASE ~Pop("crashed")
    <3> DEFINE g == e.pending = {"HUP"}
    <3>1. stack' = <<d, [Reload(e, g) EXCEPT !.pending = {}]>> /\ ended' = ended
      BY <1>1, <1>13, <2>3, Zenon DEF Deliver
    <3>2. g \in BOOLEAN
      OBVIOUS
    <3> HIDE DEF g
    <3> DEFINE r == Reload(e, g)
    <3>3. r \in Daemon /\ r.todo \in Calls /\ r.argv = e.argv
      BY <1>6, <3>2, ReloadPost, Zenon DEF Keeps
    <3> DEFINE y == [r EXCEPT !.pending = {}]
    <3>4. stack' = <<d, y>>
      BY <3>1
    <3> HIDE DEF r
    <3>5. y \in Daemon /\ y.todo = r.todo /\ y.argv = r.argv
      BY <3>3, DeliverPost, Zenon DEF Keeps
    <3> HIDE DEF y
    <3> QED BY <1>3, <1>4, <2>1, <3>1, <3>3, <3>4, <3>5, Zenon DEF history
  <2> QED BY <2>2, <2>3
<1>14. CASE Leave
  BY <1>12, <1>14, Zenon DEF Leave, history
<1>15. ASSUME NEW ok, Made(ok)
       PROVE  ran' = ran
  <2>1. Len(stack) # 1
    BY <1>1, SMT
  <2> QED BY <1>15, <2>1, Zenon DEF Made
<1>16. CASE NotExecutable
  <2>1. /\ e.todo # <<>> /\ stack' = <<d, Done(e)>> /\ ran' = ran
        /\ UNCHANGED <<script, iface, files, ended, forkfailed, stray>>
    BY <1>1, <1>15, <1>16, Zenon DEF NotExecutable, Called
  <2> DEFINE y == Done(e)
  <2>2. Tail(e.todo) \in Calls
    BY <1>2, <2>1, CallCases, Zenon
  <2>3. y \in Daemon /\ y.todo \in Calls /\ y.argv = e.argv
    BY <2>2, DonePost, Zenon DEF Keeps
  <2>4. stack' = <<d, y>>
    BY <2>1
  <2> HIDE DEF y
  <2> QED BY <1>3, <1>4, <2>1, <2>3, <2>4, Zenon DEF history
<1>17. CASE NoArgs
  BY <1>12, <1>15, <1>17, Zenon DEF NoArgs, Shared
<1>18. ~ForkFails /\ ~ExecWorks /\ ~ExecFails /\ ~ScriptEnds /\ ~Over
  BY <1>1, <1>2, Zenon DEF ForkFails, ExecWorks, ExecFails, ScriptEnds, Over
<1> QED
  BY <1>7, <1>8, <1>9, <1>10, <1>11, <1>13, <1>14, <1>16, <1>17, <1>18, Zenon DEF Next, vrrp_exec

\* With no process left nothing happens.
LEMMA NobodyStep ==
  ASSUME stack = <<>>, script = "none", Next
  PROVE  UNCHANGED vars
<1>1. Len(stack) = 0
  BY SMT
<1>2. ~ \E k \in 1..Len(stack), sig \in Signals : Kill(k, sig)
  BY <1>1, SMT
<1> QED
  BY <1>2, Zenon DEF Next, StateInit, MasterDown, Better, Command, Deliver, Leave, Loop, Runs,
       vrrp_exec, NotExecutable, NoArgs, ForkFails, ExecWorks, ExecFails, Called, ScriptEnds, Over

LEMMA InitExec == Init => ExecInv
<1> SUFFICES ASSUME Init PROVE ExecInv
  OBVIOUS
<1> DEFINE d == [state |-> "INIT", going |-> TRUE, argv |-> TRUE, sched |-> "RR",
                 int |-> "handler", pending |-> {}, todo |-> <<>>]
<1>1. <<>> \in Calls
  BY Zenon DEF Calls
<1>2. <<>> \in Seq({"init", "master", "backup"})
  BY <1>1, CallsType
<1>3. d \in Daemon
  BY <1>2, Zenon DEF Daemon
<1>4. /\ d.state = "INIT" /\ d.argv /\ d.sched = "RR" /\ d.int = "handler" /\ d.todo = <<>>
      /\ stack = <<d>>
  BY Zenon DEF Init
<1> HIDE DEF d
<1>5. Agrees(<<>>, "INIT", "none", "none", TRUE)
  BY CallsDiffer, Zenon DEF Agrees, Calls
<1>6. Alone(d)
  BY <1>4, <1>5, Zenon DEF Alone, Follows, Init
<1>7. Shared /\ ended = "no"
  BY Zenon DEF Shared, Init
<1> QED BY <1>3, <1>4, <1>6, <1>7, Zenon DEF ExecInv

LEMMA NextExec == ExecInv /\ [Next]_vars => ExecInv'
<1> SUFFICES ASSUME ExecInv, [Next]_vars PROVE ExecInv'
  OBVIOUS
<1>1. CASE UNCHANGED vars
  BY <1>1, Zenon DEF ExecInv, Shared, Alone, Waiting, Follows, vars
<1>2. CASE Next
  BY <1>1, <1>2, AloneStep, WaitingStep, NobodyStep, Zenon DEF ExecInv
<1> QED BY <1>1, <1>2

\* The inductive invariant: the processes are the first daemon, alone or waiting for
\* one stray that cannot call the script, or none is left.
THEOREM ExecInvariant == Spec => []ExecInv
BY InitExec, NextExec, PTL DEF Spec

--------------------------------------------------------------------------------
(* What it gives. *)

\* The types of the processes and of what they share, for any bound on the stack.
THEOREM ExecTypes == Spec => []TypeOK
<1>1. ExecInv => TypeOK
  <2> SUFFICES ASSUME ExecInv PROVE TypeOK
    OBVIOUS
  <2>1. CASE stack = <<>> /\ ended # "no"
    <3>1. stack \in Seq(Daemon) /\ Len(stack) <= MaxStack
      BY <2>1, MaxStackAssumption, SMT
    <3> QED BY <2>1, <3>1, Zenon DEF TypeOK, ExecInv, Shared
  <2>2. CASE ended = "no" /\ \E d \in Daemon : stack = <<d>>
    <3>1. PICK d \in Daemon : stack = <<d>>
      BY <2>2
    <3>2. stack \in Seq(Daemon) /\ Len(stack) <= MaxStack /\ stack # <<>>
      BY <3>1, MaxStackAssumption, SMT
    <3> QED BY <2>2, <3>2, Zenon DEF TypeOK, ExecInv, Shared
  <2>3. CASE ended = "no" /\ 2 <= MaxStack /\ \E d, e \in Daemon : stack = <<d, e>>
    <3>1. PICK d \in Daemon, e \in Daemon : stack = <<d, e>>
      BY <2>3
    <3>2. stack \in Seq(Daemon) /\ Len(stack) <= MaxStack /\ stack # <<>>
      BY <2>3, <3>1, MaxStackAssumption, SMT
    <3> QED BY <2>3, <3>2, Zenon DEF TypeOK, ExecInv, Shared
  <2> QED BY <2>1, <2>2, <2>3, Zenon DEF ExecInv
<1> QED BY <1>1, ExecInvariant, PTL

\* A daemon that can still call its script runs under SCHED_RR with its own signal
\* handlers, after any sequence of calls, failures and strays.
THEOREM NoTraceOfCalls == Spec => []CallsLeaveNoTrace
<1>1. ExecInv => CallsLeaveNoTrace
  <2> SUFFICES ASSUME ExecInv, Runs, Top.argv PROVE Top.sched = "RR" /\ Top.int = "handler"
    BY DEF CallsLeaveNoTrace
  <2>1. CASE \E d \in Daemon : stack = <<d>> /\ Alone(d)
    <3>1. PICK d \in Daemon : stack = <<d>> /\ Alone(d)
      BY <2>1
    <3>2. Top = d
      BY <3>1, One, Zenon DEF Top
    <3> QED BY <3>1, <3>2, Zenon DEF Alone, Runs
  <2>2. CASE \E d, e \in Daemon : stack = <<d, e>> /\ Waiting(d, e)
    <3>1. PICK d \in Daemon, e \in Daemon : stack = <<d, e>> /\ Waiting(d, e)
      BY <2>2
    <3>2. Top = e
      BY <3>1, Two, Zenon DEF Top
    <3> QED BY <3>1, <3>2, Zenon DEF Waiting
  <2> QED BY <2>1, <2>2, Zenon DEF ExecInv, Runs
<1> QED BY <1>1, ExecInvariant, PTL

\* Only a fork that failed can make the first daemon crash: execve failures, scripts
\* that are not executable and signals do not.
THEOREM ForkFailureKills == Spec => []OnlyForkFailureKills
<1>1. ExecInv => OnlyForkFailureKills
  BY Zenon DEF ExecInv, Shared, OnlyForkFailureKills
<1> QED BY <1>1, ExecInvariant, PTL

\* However many calls fail, there is never more than one stray.
THEOREM OneStray == Spec => []NoStrayOfAStray
<1>1. ExecInv => NoStrayOfAStray
  <2> SUFFICES ASSUME ExecInv PROVE Len(stack) <= 2
    BY DEF NoStrayOfAStray
  <2>1. Len(stack) = 0 \/ Len(stack) = 1 \/ Len(stack) = 2
    <3>1. Len(<<>>) = 0
      BY SMT
    <3> QED BY <3>1, One, Two, Zenon DEF ExecInv
  <2> QED BY <2>1, SMT
<1> QED BY <1>1, ExecInvariant, PTL

\* When the last call of the first daemon for MASTER or BACKUP ran the script, the
\* interface agrees with its state.
THEOREM InterfaceAgrees == Spec => []InterfaceFollowsState
<1>1. ExecInv => InterfaceFollowsState
  <2> SUFFICES ASSUME ExecInv, stack # <<>>, script = "none", stack[1].todo = <<>>, ran
               PROVE  iface = "up" <=> stack[1].state = "MASTER"
    BY DEF InterfaceFollowsState
  <2>1. PICK d \in Daemon : stack[1] = d /\ Follows(d)
    <3>1. \A d, e : <<d>>[1] = d /\ <<d, e>>[1] = d
      BY SMT
    <3>2. CASE \E d \in Daemon : stack = <<d>> /\ Alone(d)
      BY <3>1, <3>2, Zenon DEF Alone
    <3>3. CASE \E d, e \in Daemon : stack = <<d, e>> /\ Waiting(d, e)
      <4>1. PICK d \in Daemon, e \in Daemon : stack = <<d, e>> /\ Waiting(d, e)
        BY <3>3
      <4>2. stack[1] = d
        BY <3>1, <4>1, Zenon
      <4> QED BY <4>1, <4>2, Zenon DEF Waiting
    <3> QED BY <3>2, <3>3, Zenon DEF ExecInv
  <2> QED BY <2>1, Zenon DEF Follows, Agrees
<1> QED BY <1>1, ExecInvariant, PTL

================================================================================
