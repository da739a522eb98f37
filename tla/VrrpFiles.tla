------------------------------- MODULE VrrpFiles -------------------------------
(***************************************************************************)
(* What the daemons of one vrid on one host share: the pid file with its   *)
(* lock, the control fifo and the interface of the virtual addresses.      *)
(* main, pidfile_check, ctrlfile and pidfile (uvrrpd.c), one action per    *)
(* system call that another process can observe, with the handlers atexit  *)
(* registers, and crashes.                                                 *)
(*                                                                         *)
(* A process is one life of a daemon.  A file is named by the process that *)
(* created it, so that a name in the directory can be removed and created  *)
(* again while the old file is still open.                                 *)
(***************************************************************************)
EXTENDS FiniteSets

CONSTANTS Procs, None

ASSUME ProcsAssumption == None \notin Procs

VARIABLES
  pc,        \* where each process is, "new" before it starts
  pidfile,   \* the file the name of the pid file stands for, or None
  locker,    \* for each pid file the process that holds its lock, or None
  pid,       \* for each pid file the process whose pid is written in it
  torn,      \* the pid files where more of an older pid follows it
  fd,        \* the pid file each process has open
  fifo,      \* the fifo the name of the control fifo stands for, or None
  ctrl,      \* the fifo each process reads
  masters,   \* the processes in MASTER state
  iface,     \* the interface, "up" or "none"
  met,       \* history: the processes that were not alone when they started
  refused,   \* history: those that gave up because of a file or a lock
  overlap,   \* history: those that started while another was stopping
  raced,     \* history: those that started or stopped while another did
  leftover   \* history: those that crashed and left the interface behind

files == <<pidfile, locker, pid, torn, fd>>
vars == <<pc, files, fifo, ctrl, masters, iface, met, refused, overlap, raced,
          leftover>>

Starting(p) == pc[p] \in {"check", "getlk", "unlink", "mkfifo", "open", "setup",
                          "pidopen", "setlk", "write"}
\* about to remove the pid file
Leaving(p) == pc[p] \in {"stop", "stop_ctrl", "exit_pid", "exit_write"}
Running(p) == pc[p] = "loop"
Active(p) == pc[p] \notin {"new", "gone"}
Unsettled(p) == Active(p) /\ ~Running(p)

Init ==
  /\ pc = [p \in Procs |-> "new"]
  /\ pidfile = None /\ fifo = None
  /\ locker = [p \in Procs |-> None] /\ pid = [p \in Procs |-> None]
  /\ fd = [p \in Procs |-> None] /\ ctrl = [p \in Procs |-> None]
  /\ torn = {}
  /\ masters = {} /\ iface = "none"
  /\ met = {} /\ refused = {}
  /\ overlap = {} /\ raced = {} /\ leftover = {}

\* p goes on to another step.
Go(p, to) ==
  /\ pc' = [pc EXCEPT ![p] = to]
  /\ met' = met \cup {q \in Procs : Starting(q)' /\ \E r \in Procs \ {q} : Active(r)'}
  /\ overlap' = overlap \cup {q \in Procs : Starting(q)' /\ \E r \in Procs : Leaving(r)'}
  /\ raced' = raced \cup
       {q \in Procs : Unsettled(q)' /\ \E r \in Procs \ {q} : Unsettled(r)'}

\* The locks of a process end with it.
Unlocked(p) == [i \in Procs |-> IF locker[i] = p THEN None ELSE locker[i]]

Refuse(p) == refused' = refused \cup {p}

NoHook == UNCHANGED <<masters, iface, leftover>>

--------------------------------------------------------------------------------
(* pidfile_check *)

Start(p) ==
  /\ pc[p] = "new" /\ Go(p, "check")
  /\ UNCHANGED <<files, fifo, ctrl, refused>> /\ NoHook

CheckOpen(p) ==
  /\ pc[p] = "check"
  /\ fd' = [fd EXCEPT ![p] = pidfile]
  /\ Go(p, IF pidfile = None THEN "unlink" ELSE "getlk")
  /\ UNCHANGED <<pidfile, locker, pid, torn, fifo, ctrl, refused>> /\ NoHook

\* mutant: a pid file is enough to give up
CheckLock_exists(p) ==
  /\ pc[p] = "getlk" /\ Go(p, "gone") /\ Refuse(p)
  /\ UNCHANGED <<files, fifo, ctrl>> /\ NoHook

\* mutant: only an error of F_GETLK is looked at
CheckLock_skipped(p) ==
  /\ pc[p] = "getlk" /\ Go(p, "unlink")
  /\ UNCHANGED <<files, fifo, ctrl, refused>> /\ NoHook

CheckLock(p) ==
  /\ pc[p] = "getlk"
  /\ IF locker[fd[p]] = None
     THEN Go(p, "unlink") /\ UNCHANGED refused
     ELSE Go(p, "gone") /\ Refuse(p)
  /\ UNCHANGED <<files, fifo, ctrl>> /\ NoHook

--------------------------------------------------------------------------------
(* ctrlfile; its handler is registered once the fifo is made *)

CtrlUnlink(p) ==
  /\ pc[p] = "unlink" /\ Go(p, "mkfifo")
  /\ fifo' = None
  /\ UNCHANGED <<files, ctrl, refused>> /\ NoHook

MkFifo(p) ==
  /\ pc[p] = "mkfifo"
  /\ IF fifo = None
     THEN Go(p, "open") /\ fifo' = p /\ UNCHANGED refused
     ELSE Go(p, "gone") /\ Refuse(p) /\ UNCHANGED fifo
  /\ UNCHANGED <<files, ctrl>> /\ NoHook

CtrlOpen(p) ==
  /\ pc[p] = "open"
  /\ ctrl' = [ctrl EXCEPT ![p] = fifo]
  /\ IF fifo # None
     THEN Go(p, "setup") /\ UNCHANGED refused
     ELSE Go(p, "exit_ctrl") /\ Refuse(p)
  /\ UNCHANGED <<files, fifo>> /\ NoHook

\* The sockets, the buffers and daemon(): any of them may fail.
Setup(p) ==
  /\ pc[p] = "setup"
  /\ Go(p, "pidopen") \/ Go(p, "exit_ctrl")
  /\ UNCHANGED <<files, fifo, ctrl, refused>> /\ NoHook

--------------------------------------------------------------------------------
(* pidfile; its handler is registered once the lock is held *)

\* mutant: open without O_CREAT
PidOpen_no_create(p) ==
  /\ pc[p] = "pidopen" /\ Go(p, "setlk")
  /\ fd' = [fd EXCEPT ![p] = pidfile]
  /\ UNCHANGED <<pidfile, locker, pid, torn, fifo, ctrl, refused>> /\ NoHook

PidOpen(p) ==
  /\ pc[p] = "pidopen" /\ Go(p, "setlk")
  /\ pidfile' = (IF pidfile = None THEN p ELSE pidfile)
  /\ fd' = [fd EXCEPT ![p] = pidfile']
  /\ UNCHANGED <<locker, pid, torn, fifo, ctrl, refused>> /\ NoHook

\* mutant: the result of F_SETLK is not looked at
SetLock_ignored(p) ==
  /\ pc[p] = "setlk" /\ Go(p, "write")
  /\ locker' = [locker EXCEPT ![fd[p]] = IF @ = None THEN p ELSE @]
  /\ UNCHANGED <<pidfile, pid, torn, fd, fifo, ctrl, refused>> /\ NoHook

SetLock(p) ==
  /\ pc[p] = "setlk"
  /\ IF locker[fd[p]] = None
     THEN /\ Go(p, "write") /\ locker' = [locker EXCEPT ![fd[p]] = p]
          /\ UNCHANGED refused
     ELSE Go(p, "exit_ctrl") /\ Refuse(p) /\ UNCHANGED locker
  /\ UNCHANGED <<pidfile, pid, torn, fd, fifo, ctrl>> /\ NoHook

\* The file is not truncated: the digits of a longer pid stay behind the new one.
WritePid(p) ==
  /\ pc[p] = "write"
  /\ \/ /\ Go(p, "loop") /\ pid' = [pid EXCEPT ![fd[p]] = p]
        /\ torn' \in (IF pid[fd[p]] = None THEN {torn}
                     ELSE {torn \cup {fd[p]}, torn \ {fd[p]}})
     \/ Go(p, "exit_write") /\ UNCHANGED <<pid, torn>>
  /\ UNCHANGED <<pidfile, locker, fd, fifo, ctrl, refused>> /\ NoHook

\* Any of these system calls may fail for a reason of its own; the handler that
\* removes the fifo is registered from "open" on.
CallFails(p) ==
  /\ \/ pc[p] \in {"check", "getlk", "mkfifo"} /\ Go(p, "gone")
     \/ pc[p] \in {"open", "pidopen", "setlk"} /\ Go(p, "exit_ctrl")
  /\ UNCHANGED <<files, fifo, ctrl, refused>> /\ NoHook

--------------------------------------------------------------------------------
(* The loop: only the calls of the hook matter here. *)

\* vrrp_state_goto_master: the script makes the interface
Takeover(p) ==
  /\ Running(p) /\ p \notin masters
  /\ masters' = masters \cup {p} /\ iface' = "up"
  /\ UNCHANGED <<pc, files, fifo, ctrl, met, refused, overlap, raced, leftover>>

\* vrrp_state_goto_backup and a reload of a master: the script removes it
Yield(p) ==
  /\ Running(p) /\ p \in masters
  /\ masters' = masters \ {p} /\ iface' = "none" /\ leftover' = {}
  /\ UNCHANGED <<pc, files, fifo, ctrl, met, refused, overlap, raced>>

\* mutant: a master that is stopped does not call the script
Stop_no_hook(p) ==
  /\ Running(p) /\ Go(p, "stop")
  /\ masters' = masters \ {p}
  /\ UNCHANGED <<files, fifo, ctrl, refused, iface, leftover>>

\* A stop ends the loop through the reload branch, so that a master has called
\* the script before main goes on.
Stop(p) ==
  /\ Running(p) /\ Go(p, "stop")
  /\ masters' = masters \ {p}
  /\ IF p \in masters THEN iface' = "none" /\ leftover' = {}
     ELSE UNCHANGED <<iface, leftover>>
  /\ UNCHANGED <<files, fifo, ctrl, refused>>

--------------------------------------------------------------------------------
(* The end of main, and the handlers: the pid file's first, on a name that main *)
(* has freed; after a failed write the name is still good.                      *)

PidUnlink(p) ==
  /\ pc[p] = "stop" /\ Go(p, "stop_ctrl")
  /\ pidfile' = None
  /\ UNCHANGED <<locker, pid, torn, fd, fifo, ctrl, refused>> /\ NoHook

StopCtrl(p) ==
  /\ pc[p] = "stop_ctrl" /\ Go(p, "exit_pid")
  /\ fifo' = None
  /\ UNCHANGED <<files, ctrl, refused>> /\ NoHook

ExitPid(p) ==
  /\ pc[p] \in {"exit_pid", "exit_write"} /\ Go(p, "exit_ctrl")
  /\ pidfile' \in (IF pc[p] = "exit_pid" THEN {pidfile, None} ELSE {None})
  /\ UNCHANGED <<locker, pid, torn, fd, fifo, ctrl, refused>> /\ NoHook

ExitCtrl(p) ==
  /\ pc[p] = "exit_ctrl" /\ Go(p, "gone")
  /\ fifo' = None
  /\ locker' = Unlocked(p)
  /\ UNCHANGED <<pidfile, pid, torn, fd, ctrl, refused>> /\ NoHook

\* SIGKILL or a fault: no handler runs, the kernel releases the lock.
Crash(p) ==
  /\ Active(p) /\ Go(p, "gone")
  /\ locker' = Unlocked(p)
  /\ masters' = masters \ {p}
  /\ leftover' = leftover \cup (masters \cap {p})
  /\ UNCHANGED <<pidfile, pid, torn, fd, fifo, ctrl, refused, iface>>

Done == (\A p \in Procs : pc[p] = "gone") /\ UNCHANGED vars

Step(p) ==
  \/ Start(p) \/ CheckOpen(p) \/ CheckLock(p)
  \/ CtrlUnlink(p) \/ MkFifo(p) \/ CtrlOpen(p) \/ Setup(p)
  \/ PidOpen(p) \/ SetLock(p) \/ WritePid(p) \/ CallFails(p)
  \/ Takeover(p) \/ Yield(p) \/ Stop(p)
  \/ PidUnlink(p) \/ StopCtrl(p) \/ ExitPid(p) \/ ExitCtrl(p) \/ Crash(p)

Next == (\E p \in Procs : Step(p)) \/ Done

Spec == Init /\ [][Next]_vars

--------------------------------------------------------------------------------
(* Properties. *)

\* The types of what the processes share; a file is open when it is used.
TypeOK ==
  /\ pc \in [Procs -> {"new", "check", "getlk", "unlink", "mkfifo", "open", "setup",
                       "pidopen", "setlk", "write", "loop", "stop", "stop_ctrl",
                       "exit_pid", "exit_write", "exit_ctrl", "gone"}]
  /\ pidfile \in Procs \cup {None} /\ fifo \in Procs \cup {None}
  /\ locker \in [Procs -> Procs \cup {None}]
  /\ pid \in [Procs -> Procs \cup {None}] /\ torn \subseteq Procs
  /\ fd \in [Procs -> Procs \cup {None}]
  /\ ctrl \in [Procs -> Procs \cup {None}]
  /\ masters \subseteq Procs /\ iface \in {"up", "none"}
  /\ met \subseteq Procs /\ refused \subseteq Procs
  /\ overlap \subseteq Procs /\ raced \subseteq Procs /\ leftover \subseteq Procs
  /\ \A p \in Procs :
       /\ pc[p] \in {"getlk", "setlk", "write", "loop"} => fd[p] # None
       /\ pc[p] \in {"setup", "pidopen", "setlk", "write", "loop"} => ctrl[p] # None

AtMostOneRuns == \A p, q \in Procs : Running(p) /\ Running(q) => p = q

\* The lock of the pid file keeps a second daemon of the same vrid from running,
\* in every interleaving of starts, failures and crashes, as long as none is
\* started while another is removing the pid file.
OneRuns == overlap = {} => AtMostOneRuns

\* The interface and the state go together: a master has its interface (a second
\* daemon could remove it), and an interface without a master was left by a
\* crash after which no daemon of this host has been master and resigned.
InterfaceFollowsMaster ==
  overlap = {} => (iface = "up" <=> masters \cup leftover # {})

\* A daemon in its loop can be reached: the name of the fifo stands for the fifo
\* it reads, and the pid file is there, is the one it locked and starts with its
\* pid; whatever files crashes had left, provided no two daemons were starting or
\* stopping at once.  A file it has created holds nothing else.
RunningIsReachable ==
  raced = {} => \A p \in Procs : Running(p) =>
              /\ fifo = ctrl[p] /\ pidfile = fd[p] /\ pid[fd[p]] = p
              /\ fd[p] = p => p \notin torn

\* Only another daemon keeps a daemon from starting: no file that a crash has left
\* behind does.
RefusedOnlyInCompany == refused \subseteq met

================================================================================
