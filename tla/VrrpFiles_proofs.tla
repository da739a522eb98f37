---------------------------- MODULE VrrpFiles_proofs ----------------------------
(***************************************************************************)
(* Proofs about VrrpFiles, for any number of daemons.                      *)
(***************************************************************************)
EXTENDS VrrpFiles, TLAPS

Holds(p) == pc[p] \in {"write", "loop", "stop", "stop_ctrl", "exit_pid", "exit_write"}

--------------------------------------------------------------------------------
(* The lock. *)

\* What a process that is past F_SETLK knows of its lock; that every lock belongs
\* to a living process; and, as long as no start overlaps a stop, that the files
\* opened for the lock are the one in the directory.
LockInv ==
  /\ TypeOK
  /\ \A p \in Procs : pc[p] \in {"getlk", "setlk"} => fd[p] \in Procs
  /\ \A p \in Procs : Holds(p) => fd[p] \in Procs /\ locker[fd[p]] = p
  /\ \A i \in Procs : locker[i] # None => Holds(locker[i]) \/ pc[locker[i]] = "exit_ctrl"
  /\ \A p \in masters : Running(p)
  /\ overlap = {} =>
       \A p \in Procs :
         /\ pc[p] \in {"setlk", "write", "loop"} => fd[p] = pidfile
         /\ Leaving(p) => \A q \in Procs : ~Starting(q) /\ ~Running(q)

\* Every step keeps the invariant of the lock.
LEMMA NextLock == LockInv /\ [Next]_vars => LockInv'
<1> SUFFICES ASSUME LockInv, [Next]_vars PROVE LockInv'
  OBVIOUS
<1> USE ProcsAssumption DEF LockInv, TypeOK, Starting, Leaving, Running, Holds
<1>1. ASSUME NEW p \in Procs, Step(p) PROVE LockInv'
  <2>1. CASE Start(p) BY <2>1, SMTT(40) DEF Start, Go, files, NoHook, Refuse, Unlocked, Active
  <2>2. CASE CheckOpen(p) BY <2>2, SMTT(40) DEF CheckOpen, Go, files, NoHook, Refuse, Unlocked, Active
  <2>3. CASE CheckLock(p) BY <2>3, SMTT(40) DEF CheckLock, Go, files, NoHook, Refuse, Unlocked, Active
  <2>4. CASE CtrlUnlink(p) BY <2>4, SMTT(40) DEF CtrlUnlink, Go, files, NoHook, Refuse, Unlocked, Active
  <2>5. CASE MkFifo(p) BY <2>5, SMTT(40) DEF MkFifo, Go, files, NoHook, Refuse, Unlocked, Active
  <2>6. CASE CtrlOpen(p) BY <2>6, SMTT(40) DEF CtrlOpen, Go, files, NoHook, Refuse, Unlocked, Active
  <2>7. CASE Setup(p) BY <2>7, SMTT(40) DEF Setup, Go, files, NoHook, Refuse, Unlocked, Active
  <2>8. CASE PidOpen(p) BY <2>8, SMTT(40) DEF PidOpen, Go, files, NoHook, Refuse, Unlocked, Active
  <2>9. CASE SetLock(p) BY <2>9, SMTT(40) DEF SetLock, Go, files, NoHook, Refuse, Unlocked, Active
  <2>10. CASE WritePid(p) BY <2>10, SMTT(40) DEF WritePid, Go, files, NoHook, Refuse, Unlocked, Active
  <2>11. CASE Takeover(p) BY <2>11, SMTT(40) DEF Takeover, Go, files, NoHook, Refuse, Unlocked, Active
  <2>12. CASE Yield(p) BY <2>12, SMTT(40) DEF Yield, Go, files, NoHook, Refuse, Unlocked, Active
  <2>13. CASE Stop(p) BY <2>13, SMTT(40) DEF Stop, Go, files, NoHook, Refuse, Unlocked, Active
  <2>14. CASE PidUnlink(p) BY <2>14, SMTT(40) DEF PidUnlink, Go, files, NoHook, Refuse, Unlocked, Active
  <2>15. CASE StopCtrl(p) BY <2>15, SMTT(40) DEF StopCtrl, Go, files, NoHook, Refuse, Unlocked, Active
  <2>16. CASE ExitPid(p) BY <2>16, SMTT(40) DEF ExitPid, Go, files, NoHook, Refuse, Unlocked, Active
  <2>17. CASE ExitCtrl(p) BY <2>17, SMTT(40) DEF ExitCtrl, Go, files, NoHook, Refuse, Unlocked, Active
  <2>18. CASE Crash(p) BY <2>18, SMTT(40) DEF Crash, Go, files, NoHook, Refuse, Unlocked, Active
  <2>19. CASE CallFails(p) BY <2>19, SMTT(40) DEF CallFails, Go, files, NoHook, Refuse, Unlocked, Active
  <2> QED BY <1>1, <2>1, <2>2, <2>3, <2>4, <2>5, <2>6, <2>7, <2>8, <2>9, <2>10, <2>11, <2>12, <2>13, <2>14, <2>15, <2>16, <2>17, <2>18, <2>19, ZenonT(60) DEF Step
<1>2. CASE UNCHANGED vars BY <1>2 DEF vars, files
<1> QED BY <1>1, <1>2, SMTT(40) DEF Next, Done

\* Every step keeps the interface with the master.
LEMMA NextInterface == LockInv /\ InterfaceFollowsMaster /\ [Next]_vars => InterfaceFollowsMaster'
<1> SUFFICES ASSUME LockInv, InterfaceFollowsMaster, [Next]_vars PROVE InterfaceFollowsMaster'
  BY SMTT(40)
<1> USE ProcsAssumption DEF LockInv, InterfaceFollowsMaster, TypeOK, Running, Leaving, Holds
<1>1. ASSUME NEW p \in Procs, Step(p) PROVE InterfaceFollowsMaster'
  <2>1. CASE Start(p) BY <2>1, SMTT(40) DEF Start, Go, files, NoHook, Refuse, Unlocked, Starting, Active
  <2>2. CASE CheckOpen(p) BY <2>2, SMTT(40) DEF CheckOpen, Go, files, NoHook, Refuse, Unlocked, Starting, Active
  <2>3. CASE CheckLock(p) BY <2>3, SMTT(40) DEF CheckLock, Go, files, NoHook, Refuse, Unlocked, Starting, Active
  <2>4. CASE CtrlUnlink(p) BY <2>4, SMTT(40) DEF CtrlUnlink, Go, files, NoHook, Refuse, Unlocked, Starting, Active
  <2>5. CASE MkFifo(p) BY <2>5, SMTT(40) DEF MkFifo, Go, files, NoHook, Refuse, Unlocked, Starting, Active
  <2>6. CASE CtrlOpen(p) BY <2>6, SMTT(40) DEF CtrlOpen, Go, files, NoHook, Refuse, Unlocked, Starting, Active
  <2>7. CASE Setup(p) BY <2>7, SMTT(40) DEF Setup, Go, files, NoHook, Refuse, Unlocked, Starting, Active
  <2>8. CASE PidOpen(p) BY <2>8, SMTT(40) DEF PidOpen, Go, files, NoHook, Refuse, Unlocked, Starting, Active
  <2>9. CASE SetLock(p) BY <2>9, SMTT(40) DEF SetLock, Go, files, NoHook, Refuse, Unlocked, Starting, Active
  <2>10. CASE WritePid(p) BY <2>10, SMTT(40) DEF WritePid, Go, files, NoHook, Refuse, Unlocked, Starting, Active
  <2>11. CASE Takeover(p) BY <2>11, SMTT(40) DEF Takeover, Go, files, NoHook, Refuse, Unlocked, Starting, Active
  <2>12. CASE Yield(p) BY <2>12, SMTT(40) DEF Yield, Go, files, NoHook, Refuse, Unlocked, Starting, Active
  <2>13. CASE Stop(p) BY <2>13, SMTT(40) DEF Stop, Go, files, NoHook, Refuse, Unlocked, Starting, Active
  <2>14. CASE PidUnlink(p) BY <2>14, SMTT(40) DEF PidUnlink, Go, files, NoHook, Refuse, Unlocked, Starting, Active
  <2>15. CASE StopCtrl(p) BY <2>15, SMTT(40) DEF StopCtrl, Go, files, NoHook, Refuse, Unlocked, Starting, Active
  <2>16. CASE ExitPid(p) BY <2>16, SMTT(40) DEF ExitPid, Go, files, NoHook, Refuse, Unlocked, Starting, Active
  <2>17. CASE ExitCtrl(p) BY <2>17, SMTT(40) DEF ExitCtrl, Go, files, NoHook, Refuse, Unlocked, Starting, Active
  <2>18. CASE Crash(p) BY <2>18, SMTT(40) DEF Crash, Go, files, NoHook, Refuse, Unlocked, Starting, Active
  <2>19. CASE CallFails(p) BY <2>19, SMTT(40) DEF CallFails, Go, files, NoHook, Refuse, Unlocked, Starting, Active
  <2> QED BY <1>1, <2>1, <2>2, <2>3, <2>4, <2>5, <2>6, <2>7, <2>8, <2>9, <2>10, <2>11, <2>12, <2>13, <2>14, <2>15, <2>16, <2>17, <2>18, <2>19, SMTT(40) DEF Step
<1>2. CASE UNCHANGED vars BY <1>2, SMTT(40) DEF vars, files
<1> QED BY <1>1, <1>2 DEF Next, Done

--------------------------------------------------------------------------------
(* One daemon at a time: raced = {}. *)

\* Past the check of the pid file, no daemon runs.
Alone(p) == Unsettled(p) /\ pc[p] \notin {"check", "getlk"}

RaceInv ==
  /\ \A p \in Procs : pc[p] \in {"new", "check", "getlk", "unlink", "mkfifo", "open",
                                 "setup", "pidopen"} =>
       pidfile # p /\ pid[p] = None /\ p \notin torn /\ \A q \in Procs : fd[q] # p
  /\ raced = {} => \A p \in Procs :
       /\ Unsettled(p) => \A q \in Procs \ {p} : ~Unsettled(q)
       /\ Alone(p) => \A q \in Procs : ~Running(q)
       /\ pc[p] = "getlk" => fd[p] = pidfile
       /\ pc[p] = "open" => fifo = p
       /\ pc[p] \in {"setup", "pidopen", "setlk", "write", "loop"} => fifo = ctrl[p]
       /\ pc[p] \in {"setlk", "write", "loop"} => fd[p] = pidfile
       /\ pc[p] \in {"setlk", "write"} /\ fd[p] = p => pid[p] = None /\ p \notin torn
       /\ Running(p) => pid[fd[p]] = p /\ (fd[p] = p => p \notin torn)

\* Every step keeps the invariant of the lone daemon.
LEMMA NextRace == LockInv /\ RaceInv /\ [Next]_vars => RaceInv'
<1> SUFFICES ASSUME LockInv, RaceInv, [Next]_vars PROVE RaceInv'
  BY SMTT(40)
<1> USE ProcsAssumption DEF LockInv, RaceInv, TypeOK, Alone, Starting, Leaving, Running, Active, Unsettled, Holds
<1>1. ASSUME NEW p \in Procs, Step(p) PROVE RaceInv'
  <2>1. CASE Start(p) BY <2>1, SMTT(40) DEF Start, Go, files, NoHook, Refuse, Unlocked
  <2>2. CASE CheckOpen(p) BY <2>2, SMTT(40) DEF CheckOpen, Go, files, NoHook, Refuse, Unlocked
  <2>3. CASE CheckLock(p) BY <2>3, SMTT(40) DEF CheckLock, Go, files, NoHook, Refuse, Unlocked
  <2>4. CASE CtrlUnlink(p) BY <2>4, SMTT(40) DEF CtrlUnlink, Go, files, NoHook, Refuse, Unlocked
  <2>5. CASE MkFifo(p) BY <2>5, SMTT(40) DEF MkFifo, Go, files, NoHook, Refuse, Unlocked
  <2>6. CASE CtrlOpen(p) BY <2>6, SMTT(40) DEF CtrlOpen, Go, files, NoHook, Refuse, Unlocked
  <2>7. CASE Setup(p) BY <2>7, SMTT(40) DEF Setup, Go, files, NoHook, Refuse, Unlocked
  <2>8. CASE PidOpen(p) BY <2>8, SMTT(40) DEF PidOpen, Go, files, NoHook, Refuse, Unlocked
  <2>9. CASE SetLock(p) BY <2>9, SMTT(40) DEF SetLock, Go, files, NoHook, Refuse, Unlocked
  <2>10. CASE WritePid(p) BY <2>10, SMTT(40) DEF WritePid, Go, files, NoHook, Refuse, Unlocked
  <2>11. CASE Takeover(p) BY <2>11, SMTT(40) DEF Takeover, Go, files, NoHook, Refuse, Unlocked
  <2>12. CASE Yield(p) BY <2>12, SMTT(40) DEF Yield, Go, files, NoHook, Refuse, Unlocked
  <2>13. CASE Stop(p) BY <2>13, SMTT(40) DEF Stop, Go, files, NoHook, Refuse, Unlocked
  <2>14. CASE PidUnlink(p) BY <2>14, SMTT(40) DEF PidUnlink, Go, files, NoHook, Refuse, Unlocked
  <2>15. CASE StopCtrl(p) BY <2>15, SMTT(40) DEF StopCtrl, Go, files, NoHook, Refuse, Unlocked
  <2>16. CASE ExitPid(p) BY <2>16, SMTT(40) DEF ExitPid, Go, files, NoHook, Refuse, Unlocked
  <2>17. CASE ExitCtrl(p) BY <2>17, SMTT(40) DEF ExitCtrl, Go, files, NoHook, Refuse, Unlocked
  <2>18. CASE Crash(p) BY <2>18, SMTT(40) DEF Crash, Go, files, NoHook, Refuse, Unlocked
  <2>19. CASE CallFails(p) BY <2>19, SMTT(40) DEF CallFails, Go, files, NoHook, Refuse, Unlocked
  <2> QED BY <1>1, <2>1, <2>2, <2>3, <2>4, <2>5, <2>6, <2>7, <2>8, <2>9, <2>10, <2>11, <2>12, <2>13, <2>14, <2>15, <2>16, <2>17, <2>18, <2>19, ZenonT(60) DEF Step
<1>2. CASE UNCHANGED vars BY <1>2, SMTT(40) DEF vars, files
<1> QED BY <1>1, <1>2, ZenonT(60) DEF Next, Done

--------------------------------------------------------------------------------
(* A process that starts alone meets no file in its way. *)

MetInv ==
  /\ refused \subseteq met
  /\ \A p \in Procs : Starting(p) /\ (\E q \in Procs \ {p} : Active(q)) => p \in met
  /\ \A p \in Procs \ met : pc[p] = "mkfifo" => fifo = None
  /\ \A p \in Procs \ met : pc[p] = "open" => fifo = p

\* Every step keeps the invariant of the refusals.
LEMMA NextMet == LockInv /\ MetInv /\ [Next]_vars => MetInv'
<1> SUFFICES ASSUME LockInv, MetInv, [Next]_vars PROVE MetInv'
  OBVIOUS
<1> USE ProcsAssumption DEF LockInv, MetInv, TypeOK, Starting, Leaving, Running, Active, Unsettled, Holds
<1>1. ASSUME NEW p \in Procs, Step(p) PROVE MetInv'
  <2>1. CASE Start(p) BY <2>1, SMTT(40) DEF Start, Go, files, NoHook, Refuse, Unlocked
  <2>2. CASE CheckOpen(p) BY <2>2, SMTT(40) DEF CheckOpen, Go, files, NoHook, Refuse, Unlocked
  <2>3. CASE CheckLock(p) BY <2>3, SMTT(40) DEF CheckLock, Go, files, NoHook, Refuse, Unlocked
  <2>4. CASE CtrlUnlink(p) BY <2>4, SMTT(40) DEF CtrlUnlink, Go, files, NoHook, Refuse, Unlocked
  <2>5. CASE MkFifo(p) BY <2>5, SMTT(40) DEF MkFifo, Go, files, NoHook, Refuse, Unlocked
  <2>6. CASE CtrlOpen(p) BY <2>6, SMTT(40) DEF CtrlOpen, Go, files, NoHook, Refuse, Unlocked
  <2>7. CASE Setup(p) BY <2>7, SMTT(40) DEF Setup, Go, files, NoHook, Refuse, Unlocked
  <2>8. CASE PidOpen(p) BY <2>8, SMTT(40) DEF PidOpen, Go, files, NoHook, Refuse, Unlocked
  <2>9. CASE SetLock(p) BY <2>9, SMTT(40) DEF SetLock, Go, files, NoHook, Refuse, Unlocked
  <2>10. CASE WritePid(p) BY <2>10, SMTT(40) DEF WritePid, Go, files, NoHook, Refuse, Unlocked
  <2>11. CASE Takeover(p) BY <2>11, SMTT(40) DEF Takeover, Go, files, NoHook, Refuse, Unlocked
  <2>12. CASE Yield(p) BY <2>12, SMTT(40) DEF Yield, Go, files, NoHook, Refuse, Unlocked
  <2>13. CASE Stop(p) BY <2>13, SMTT(40) DEF Stop, Go, files, NoHook, Refuse, Unlocked
  <2>14. CASE PidUnlink(p) BY <2>14, SMTT(40) DEF PidUnlink, Go, files, NoHook, Refuse, Unlocked
  <2>15. CASE StopCtrl(p) BY <2>15, SMTT(40) DEF StopCtrl, Go, files, NoHook, Refuse, Unlocked
  <2>16. CASE ExitPid(p) BY <2>16, SMTT(40) DEF ExitPid, Go, files, NoHook, Refuse, Unlocked
  <2>17. CASE ExitCtrl(p) BY <2>17, SMTT(40) DEF ExitCtrl, Go, files, NoHook, Refuse, Unlocked
  <2>18. CASE Crash(p) BY <2>18, SMTT(40) DEF Crash, Go, files, NoHook, Refuse, Unlocked
  <2>19. CASE CallFails(p) BY <2>19, SMTT(40) DEF CallFails, Go, files, NoHook, Refuse, Unlocked
  <2> QED BY <1>1, <2>1, <2>2, <2>3, <2>4, <2>5, <2>6, <2>7, <2>8, <2>9, <2>10, <2>11, <2>12, <2>13, <2>14, <2>15, <2>16, <2>17, <2>18, <2>19, ZenonT(60) DEF Step
<1>2. CASE UNCHANGED vars BY <1>2, SMTT(40) DEF vars, files
<1> QED BY <1>1, <1>2, SMTT(40) DEF Next, Done

--------------------------------------------------------------------------------
(* The theorems. *)

\* The invariants hold when no process has started.
LEMMA InitInvs == Init => LockInv /\ RaceInv /\ MetInv /\ InterfaceFollowsMaster
BY ProcsAssumption DEF Init, LockInv, RaceInv, MetInv, InterfaceFollowsMaster, TypeOK,
   Holds, Running, Starting, Leaving, Active, Unsettled, Alone

\* The types of the processes' places in main and of the files they share.
THEOREM FilesTypes == Spec => []TypeOK
<1>1. LockInv => TypeOK
  BY DEF LockInv
<1> QED BY <1>1, InitInvs, NextLock, PTL DEF Spec

\* The lock of the pid file (pidfile_check and pidfile in uvrrpd.c) lets one daemon
\* of a vrid run at a time, for any number of daemons started and crashed in any
\* order, unless one is started while another is stopping.
THEOREM OneDaemon == Spec => []OneRuns
<1>1. LockInv => OneRuns
  BY ProcsAssumption DEF LockInv, OneRuns, AtMostOneRuns, Running, Holds
<1> QED BY <1>1, InitInvs, NextLock, PTL DEF Spec

\* Under the same condition the interface is there exactly while a daemon is
\* master, or since a crash of a master (vrrp_exec is called on every change of
\* state, and no second daemon calls it).
THEOREM InterfaceKept == Spec => []InterfaceFollowsMaster
BY InitInvs, NextLock, NextInterface, PTL DEF Spec

\* A daemon that runs can be reached through its fifo and its pid file, unless two
\* daemons were starting or stopping at once (ctrlfile and pidfile, and the files
\* crashes leave).
THEOREM DaemonReachable == Spec => []RunningIsReachable
<1>1. LockInv /\ RaceInv => RunningIsReachable
  BY DEF LockInv, RaceInv, RunningIsReachable, Running
<1> QED BY <1>1, InitInvs, NextLock, NextRace, PTL DEF Spec

\* A daemon that was alone while it started was not refused: no file left by a
\* crash keeps the next daemon from starting (pidfile_check looks at the lock and
\* not at the file, ctrlfile removes the old fifo).
THEOREM StaleFilesHarmless == Spec => []RefusedOnlyInCompany
<1>1. MetInv => RefusedOnlyInCompany
  BY DEF MetInv, RefusedOnlyInCompany
<1> QED BY <1>1, InitInvs, NextLock, NextMet, PTL DEF Spec

================================================================================
