-------------------------------- MODULE VrrpExec --------------------------------
(***************************************************************************)
(* The calls of the hook script (vrrp_exec.c) and what their failures do   *)
(* to the daemon: a script that is not executable, a fork that fails, an   *)
(* execve that fails in the child.  vrrp_exec does not end that child: it  *)
(* returns into the state machine, and a second daemon runs with the       *)
(* sockets, the fifo and the files of the first, which waits for it.       *)
(*                                                                         *)
(* So the processes form a stack: the last one runs, each of the others is *)
(* in waitpid for the next.  Of the state machine only what leads to the   *)
(* script is here; todo holds the calls the current handler has to make.   *)
(***************************************************************************)
EXTENDS Integers, Sequences

CONSTANT MaxStack       \* bound: processes at once

ASSUME MaxStackAssumption == MaxStack \in Nat \ {0}

VARIABLES
  stack,      \* the daemons, each the parent of the next
  script,     \* the argument of the running script, or "none"
  iface,      \* the interface: "up" or "none"
  files,      \* the pid file and the fifo: "there" or "removed"
  ended,      \* how the first daemon ended: "no", "stopped" or "crashed"
  ran,        \* history: its last call for MASTER or BACKUP ran the script
  forkfailed, \* history: a fork has failed
  stray       \* history: an execve has failed

vars == <<stack, script, iface, files, ended, ran, forkfailed, stray>>
history == <<ran, forkfailed, stray>>

Signals == {"HUP", "TERM", "INT"}

Daemon ==
  [state : {"INIT", "BACKUP", "MASTER"},
   going : BOOLEAN,                             \* KEEP_GOING
   argv : BOOLEAN,                              \* vrrp->argv is not NULL
   sched : {"RR", "OTHER"},
   int : {"handler", "ignored", "default"},     \* disposition of SIGINT, SIGQUIT
   pending : SUBSET Signals,
   todo : Seq({"init", "master", "backup"})]

Init ==
  /\ stack = <<[state |-> "INIT", going |-> TRUE, argv |-> TRUE, sched |-> "RR",
                int |-> "handler", pending |-> {}, todo |-> <<>>]>>
  /\ script = "none" /\ iface = "none" /\ files = "there" /\ ended = "no"
  /\ ran = TRUE /\ forkfailed = FALSE /\ stray = FALSE

Top == stack[Len(stack)]
Below == SubSeq(stack, 1, Len(stack) - 1)
WithTop(d) == [stack EXCEPT ![Len(stack)] = d]

\* The last process of the stack, and not the script, is running.
Runs == stack # <<>> /\ script = "none"

--------------------------------------------------------------------------------
(* The state machine, as far as it calls the script. *)

Loop == Runs /\ Top.todo = <<>> /\ Top.going

\* A handler ends in a state and leaves calls to make.
Handle(state, todo) ==
  /\ stack' = WithTop([Top EXCEPT !.state = state, !.todo = todo])
  /\ UNCHANGED <<script, iface, files, ended, history>>

\* an owner goes to MASTER at once
StateInit ==
  /\ Loop /\ Top.state = "INIT"
  /\ Handle("BACKUP", <<"init">>) \/ Handle("MASTER", <<"init", "master">>)

MasterDown == Loop /\ Top.state = "BACKUP" /\ Handle("MASTER", <<"master">>)

Better == Loop /\ Top.state = "MASTER" /\ Handle("BACKUP", <<"backup">>)

\* mutant: a master does not call the script when it is told to stop or reload
Reload_no_hook(d, going) == [d EXCEPT !.state = "INIT", !.going = going]

\* The reload branch; going is FALSE for a stop.
Reload(d, going) ==
  [d EXCEPT !.state = "INIT", !.going = going,
            !.todo = IF d.state = "MASTER" THEN <<"backup">> ELSE <<>>]

\* The fifo is shared: the process that runs reads it.
Command ==
  /\ Loop /\ Top.state # "INIT"
  /\ \E going \in BOOLEAN : stack' = WithTop(Reload(Top, going))
  /\ UNCHANGED <<script, iface, files, ended, history>>

--------------------------------------------------------------------------------
(* Signals: blocked outside pselect, so they wait for the loop. *)

Kill(k, s) ==
  /\ s \notin stack[k].pending
  /\ s = "INT" => stack[k].int # "ignored"
  /\ stack' = [stack EXCEPT ![k].pending = @ \cup {s}]
  /\ UNCHANGED <<script, iface, files, ended, history>>

\* mutant: the dispositions are not restored
Return_unrestored(d) == d

\* The parent comes back from waitpid and restores its signals.
Return(d) == [d EXCEPT !.int = "handler"]

\* mutant: the first daemon goes without a trace
Pop_silent(how) ==
  /\ stack' = IF Below = <<>> THEN <<>> ELSE [Below EXCEPT ![Len(Below)] = Return(@)]
  /\ UNCHANGED ended

\* The process on top ends, as how if it is the first daemon.
Pop(how) ==
  /\ stack' = IF Below = <<>> THEN <<>> ELSE [Below EXCEPT ![Len(Below)] = Return(@)]
  /\ ended' = IF Below = <<>> THEN how ELSE ended

Deliver ==
  /\ Loop /\ Top.state # "INIT" /\ Top.pending # {}
  /\ IF "INT" \in Top.pending /\ Top.int = "default"
     THEN Pop("crashed")
     ELSE /\ stack' = WithTop([Reload(Top, Top.pending = {"HUP"}) EXCEPT !.pending = {}])
          /\ UNCHANGED ended
  /\ UNCHANGED <<script, iface, files, history>>

\* The end of main; its handlers remove the files, whichever process it is.
Leave ==
  /\ Runs /\ Top.todo = <<>> /\ ~Top.going
  /\ Pop("stopped")
  /\ files' = "removed"
  /\ UNCHANGED <<script, iface, history>>

--------------------------------------------------------------------------------
(* vrrp_exec *)

\* The call is made, whatever becomes of it; ok says that the script runs.
Made(ok) ==
  ran' = IF Len(stack) = 1 /\ Head(Top.todo) # "init" THEN ok ELSE ran

Called == Runs /\ Top.todo # <<>>

\* the daemon after a call
Done(d) == [d EXCEPT !.todo = Tail(@)]

\* is_file_executable: the call returns before anything is touched
NotExecutable ==
  /\ Called
  /\ stack' = WithTop(Done(Top)) /\ Made(FALSE)
  /\ UNCHANGED <<script, iface, files, ended, forkfailed, stray>>

\* vrrp_build_args writes through argv
NoArgs ==
  /\ Called /\ ~Top.argv
  /\ Pop("crashed") /\ Made(FALSE)
  /\ UNCHANGED <<script, iface, files, forkfailed, stray>>

vrrp_exec_cleanup(d) == [d EXCEPT !.argv = FALSE]

uvrrpd_sched_set(d) == [d EXCEPT !.sched = "RR"]
uvrrpd_sched_unset(d) == [d EXCEPT !.sched = "OTHER"]

\* mutant: SIGTERM is ignored as well
Ignoring_term(d) == [d EXCEPT !.int = "ignored", !.pending = @ \ {"INT", "TERM"}]

\* SIGINT and SIGQUIT set to SIG_IGN, which discards the pending ones
Ignoring(d) == [d EXCEPT !.int = "ignored", !.pending = @ \ {"INT"}]

\* a return without restoring anything
ForkFails ==
  /\ Called /\ Top.argv
  /\ stack' = WithTop(vrrp_exec_cleanup(uvrrpd_sched_unset(Done(Ignoring(Top)))))
  /\ forkfailed' = TRUE /\ Made(FALSE)
  /\ UNCHANGED <<script, iface, files, ended, stray>>

\* mutant: the child frees the arguments of its parent (vfork)
Waits_shared(d) == vrrp_exec_cleanup(uvrrpd_sched_set(Done(Ignoring(d))))

\* The parent restores SCHED_RR and waits.
Waits(d) == uvrrpd_sched_set(Done(Ignoring(d)))

ExecWorks ==
  /\ Called /\ Top.argv
  /\ stack' = WithTop(Waits(Top))
  /\ script' = Head(Top.todo) /\ Made(TRUE)
  /\ UNCHANGED <<iface, files, ended, forkfailed, stray>>

\* mutant: the child keeps its arguments
Child_with_args(d) ==
  [uvrrpd_sched_unset(Done(d)) EXCEPT !.int = "default", !.pending = {}]

\* The child goes on as a daemon.
Child(d) ==
  vrrp_exec_cleanup(
    [uvrrpd_sched_unset(Done(d)) EXCEPT !.int = "default", !.pending = {}])

ExecFails ==
  /\ Called /\ Top.argv /\ Len(stack) < MaxStack
  /\ stack' = Append(WithTop(Waits(Top)), Child(Top))
  /\ stray' = TRUE /\ Made(FALSE)
  /\ UNCHANGED <<script, iface, files, ended, forkfailed>>

\* vrrp_switch.sh has run, and waitpid returns
ScriptEnds ==
  /\ script # "none"
  /\ iface' = CASE script = "master" -> "up"
                [] script = "backup" -> "none"
                [] OTHER -> iface
  /\ script' = "none"
  /\ stack' = WithTop(Return(Top))
  /\ UNCHANGED <<files, ended, history>>

Over == stack = <<>> /\ UNCHANGED vars

vrrp_exec == NotExecutable \/ NoArgs \/ ForkFails \/ ExecWorks \/ ExecFails

Next ==
  \/ StateInit \/ MasterDown \/ Better \/ Command
  \/ \E k \in 1..Len(stack), s \in Signals : Kill(k, s)
  \/ Deliver \/ Leave \/ vrrp_exec \/ ScriptEnds
  \/ Over

Spec == Init /\ [][Next]_vars

\* A daemon keeps running and its script ends; pselect gets to deliver the
\* signals of each process between the other events.  That takes a pselect that finds
\* no descriptor ready now and then, which VrrpDaemon, where the socket and the fifo
\* are, has as a premise of its TermStops.
Fairness ==
  /\ WF_vars(StateInit) /\ WF_vars(Leave) /\ WF_vars(vrrp_exec)
  /\ WF_vars(ScriptEnds)
  /\ \A k \in 1..MaxStack : SF_vars(Deliver /\ Len(stack) = k)

FairSpec == Spec /\ Fairness

--------------------------------------------------------------------------------
(* Properties. *)

\* The types of the processes and of what they share.
TypeOK ==
  /\ stack \in Seq(Daemon) /\ Len(stack) <= MaxStack
  /\ script \in {"none", "init", "master", "backup"}
  /\ iface \in {"up", "none"} /\ files \in {"there", "removed"}
  /\ ended \in {"no", "stopped", "crashed"} /\ (ended = "no" <=> stack # <<>>)
  /\ ran \in BOOLEAN /\ forkfailed \in BOOLEAN /\ stray \in BOOLEAN

\* A daemon that can still call its script runs under SCHED_RR with its signal
\* handlers, whatever calls, failures and strays came before.
CallsLeaveNoTrace ==
  Runs /\ Top.argv => Top.sched = "RR" /\ Top.int = "handler"

\* A failing execve costs the daemon nothing but time: only a failed fork, which
\* frees the arguments it goes on to use, can crash the first daemon.
OnlyForkFailureKills == ended = "crashed" => forkfailed

\* A stray does not breed: it cannot call the script, and so cannot fork.
NoStrayOfAStray == Len(stack) <= 2

\* When the last call of the first daemon for MASTER or BACKUP ran the script, the
\* interface is as its state says, even if earlier calls failed and a stray ran
\* in between.
InterfaceFollowsState ==
  stack # <<>> /\ script = "none" /\ stack[1].todo = <<>> /\ ran =>
    (iface = "up" <=> stack[1].state = "MASTER")

\* A SIGTERM sent while a script or a stray runs is not lost: it stops the daemon
\* unless this one waits for a stray for ever.
TermStops ==
  []<>(Len(stack) <= 1) =>
    ((stack # <<>> /\ "TERM" \in Head(stack).pending) ~> (ended # "no"))

================================================================================
