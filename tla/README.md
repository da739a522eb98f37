# uvrrpd in TLA+

Models of uvrrpd, a VRRPv2 (RFC 3768) and VRRPv3 (RFC 5798) daemon in C: one
daemon with its event loop, its timers and its hook script, several daemons on a
network, several on one host, the packets they exchange and the command line. TLC
checks them on small instances; TLAPS proves most of the safety properties for
every configuration.

## The system

A virtual router is a set of hosts, each running uvrrpd with the same vrid and
the same virtual addresses. One of them, the master, holds the addresses and
multicasts advertisements; the others, the backups, take over when these stop.

| Part | Source | State | Operations | What is hard about it |
|---|---|---|---|---|
| State machine | `vrrp_state.c` | state, priority, master_adv_int | init, backup, master, goto_master, goto_backup | every path must leave the right timer running and call the hook |
| Timers | `vrrp_timer.[ch]` | adv_timer, masterdown_timer | set, clear, update, is_running, is_expired | integer skew; nanosecond carries |
| Event loop | `vrrp.c`, `main` | `reg` (control bits) | vrrp_process, vrrp_listen | timer before socket before fifo; signals only inside pselect |
| Signals | `uvrrpd.c` | pending set, `reg` | signal_handler | set bits that other code tests and clears; some are discarded while the hook runs |
| Control fifo | `vrrp_ctrl.c` | fifo, `ctrl->cmd` | stop, reload, state, prio | commands merge; the word array starts uncleared |
| Packet to emit | `vrrp_adv.[ch]` | `__adv[2]` | build, send, send_zero, set_priority | one buffer rewritten in place by three operations |
| Packet reception | `vrrp_net.c`, `vrrp_ip4.c`, `vrrp_ip6.c` | `__pkt` | vrrp_net_recv | widths; IPv4 sizes and offsets used for IPv6 |
| Hook | `vrrp_exec.c`, `vrrp_switch.sh` | the macvlan interface | init, master, backup | blocks the loop; fork and execve may fail, and the child of a failed execve goes on |
| Topology updates | `vrrp_arp.c`, `vrrp_na.c` | `__topology` | init, send | a checksum of its own; one frame per address; what hosts and switches learn from it |
| Command line | `vrrp_options.c`, `common.h` | struct vrrp, struct vrrp_net | one per option | options in any order that set the same field |
| Pid and control file | `uvrrpd.c` | pid file and its lock, fifo | check, create, lock, write, unlink | daemons that start and stop at once; what a crash leaves |
| Checksum | `common.h`, `vrrp_ip4.c`, `vrrp_ip6.c` | - | cksum, chksum | carries; pseudo headers |
| Logging, lists | `log.[ch]`, `list.h` | - | - | - |

`main` reads the options, opens sockets and fifo, builds the packets and loops
over `vrrp_process`, which runs the handler of the current state; the handler
waits in `vrrp_listen` for an expired timer, a packet, a command or a signal.
`PROJECT.json` lists the hazards of the code line by line, with the properties
that cover each.

## Modules

| Module | What it models |
|---|---|
| `VrrpNet` | The packet: `vrrp_adv_build`, `vrrp_net_recv` and the address-family helpers. |
| `VrrpState` | The timers' delays, the packet buffer and `vrrp_state.c`, as functions from an instance to an instance. |
| `VrrpCtrl` | One read of the control fifo: `split_cmd` and `vrrp_ctrl_cmd`. |
| `VrrpDaemon` | One daemon: an action per kind of event of `vrrp_listen`, next to the environment (packets, commands, signals, time). |
| `VrrpSwitch` | The abstract specification of the hook calls: which call may come after which, with every call of every iteration in it. `VrrpDaemon` implements it. |
| `VrrpLan` | Several daemons on a network that loses packets, with start, reload, stop and crash. |
| `VrrpPeers` | Two masters, configured alike, that hear each other. |
| `VrrpOptions` | The command line up to the loop, one action per option. |
| `VrrpTimer` | `vrrp_timer.c` in seconds and nanoseconds, and the part of `vrrp_listen` that waits: the update, the limit given to pselect, the second look. |
| `VrrpCountdown` | What a timer promises the state machine. `VrrpTimer` implements it, `VrrpState` counts with it. |
| `VrrpFiles` | The daemons of one vrid on one host: pid file, lock, fifo and interface, an action per system call, errors and crashes. |
| `VrrpExec` | `vrrp_exec` with its failures, the processes they leave, signals and scheduler. |
| `VrrpFrames` | The words behind `VrrpNet`: `cksum`, the checksums of both families, ARP and neighbour advertisement, and what hosts and switches make of them. `VrrpPeers` uses it. |
| `Vrrp*_proofs` | Theorems and proofs about the module of that name; those about `VrrpFrames` are in `VrrpPeers_proofs`. |
| `MCVrrp*` | Constants for TLC. |

The handlers are operators on records so that `VrrpDaemon`, `VrrpLan` and
`VrrpPeers` share them. A handler of the C code changes the instance and acts on
the outside; the operator returns the instance with a field `out`, the packets,
topology updates and hook calls of this iteration in order. One action is one
iteration of the loop: the daemon has one thread, and everything it shares with
others (socket, fifo, pending signals) is a queue that only grows meanwhile.

Abstractions:

* In `VrrpState` a timer is the number of units left (seconds in VRRPv2,
  centiseconds in VRRPv3), or `Cleared`. `VrrpTimer` has the arithmetic below a
  unit: the second is a small number of nanoseconds there, and pselect, which
  measures time with another clock, may return at any moment.
* In `VrrpNet` a checksum is what it covers: the priority, the only byte that
  changes after the packet is built, and the size. `ChecksumIsExact` compares this
  with the sums of `VrrpFrames`; the theorem `ChecksumExact` is about all
  configurations, addresses and priorities.
* A command is a sequence of words; an address is a number; `HalfSpace`, 2^31 in
  the code, is half the number of IPv4 addresses, which is all `vrrp_ip4_cmp`
  depends on.
* A password is a sequence of characters. `vrrp_adv_build` writes it behind the
  addresses; `vrrp_net_recv` compares it with what it finds four bytes per address
  behind the header (`PayloadByte`). In IPv6 the packet has no room for it: it is
  written behind the buffer, which is not modelled beyond its not being sent, and
  looked for inside the addresses.
* `VrrpDaemon` keeps the hook calls of the last iteration that made any (`calls`)
  and a bit that each such iteration flips (`turn`), so that an iteration that calls
  the script is a step of `VrrpSwitch` even when it repeats the calls before it.
* A host believes a gratuitous ARP packet (`ArpUpdates`). It discards a neighbour
  advertisement with a bad checksum or hop limit (`NaAccepted`) and learns a
  hardware address from one only through the Target Link-Layer Address option
  (RFC 4861); a switch learns the source of the Ethernet header (`NaUpdates`).
* The uncleared entries of `ctrl->cmd` may be NULL or not, and following one may
  crash the daemon (`CtrlCrash`) or find a word that is no command.
* In `VrrpDaemon` and `VrrpLan` the script exists and returns; `VrrpExec` has its
  failures, with only as much of the state machine as leads to a call. In
  `VrrpDaemon` time and events pass
  between iterations, which covers a script that takes long before the next
  iteration; in `VrrpLan` an iteration takes no time.
* In `VrrpFiles` a file is named by the process that created it, so a name that
  is removed and made again stands for another file while the old one is open
  and locked. A process is one life of a daemon. `met`, `refused`, `overlap`,
  `raced` and `leftover` are history variables: no action reads them.
* In `VrrpExec` the processes form a stack, since each parent waits for its child.
* SIGPIPE, which is not blocked, is delivered with the other signals. The bit it
  sets is never tested.

## Runs

| Run | Bounds | Result |
|---|---|---|
| `daemon` | VRRPv3, interval and start delay 1, 5 packets, 9 commands, 3 signals, 1 packet and 2 words queued | Types; the timer that runs follows the state; the interface is up exactly in MASTER; the packet buffer is current; the owner is never a backup; no request is left over and the loop is left clean; a resignation is announced before the hook; the hook calls implement `VrrpSwitch`; SIGTERM and a stop command stop the daemon. |
| `daemon_merge` | 2 commands | Violated: a stop behind an unread command is lost. |
| `daemon_prio` | 1 command | Violated: the first prio may be refused. |
| `lan` | 3 VRRPv3 routers (two are equal and best, one of these does not preempt), interval 1, 2 losses, 1 fault | Bounds on the time without master and with two; a lone master is not disturbed; in the end there is one master, which no other router would preempt. |
| `peers` | 48 configurations, 3 addresses, 3 priorities; sums over up to 3 virtual addresses | Routers configured alike accept each other with all configurations but those of three kinds, with which they refuse; who accept settle on the greater one; the abstract checksum is exact; no host discards a frame of a new master. |
| `peers_refuse` | one configuration of each kind | Violated: VRRPv2 over IPv6 with a password. |
| `peers_address` | addresses half the space apart or more | Violated: both stay master, or the lower address. |
| `peers_takeover` | an IPv4 and an IPv6 configuration | Violated: neighbour advertisements update nothing. |
| `options` | 4 options, numbers at the edges of their ranges | A daemon that gets to its loop is configured. |
| `timer` | 7 delays, a second of 6 ns, 20 ns | The timer is a countdown; pselect waits exactly to the deadline, refuses its limit only whole seconds before it; the timer fires. |
| `files` | 3 lives of a daemon, symmetric | One daemon runs, it can be reached, the interface follows it, and files left by a crash stop nobody. |
| `exec` | one process more than there can be | What a failing script, fork or execve leaves behind. |

The violated runs state what the README or a comment says and the code does not
do; `findings` in `PROJECT.json` quotes both. `peers_refuse` has one configuration
of each of the three kinds with which routers configured alike refuse each other's
packets: a password in VRRPv2 over IPv6, an interval above 255, and more than 64
IPv6 addresses (`VRRP_PKT_MAXSIZE` is computed for 255 IPv4 addresses). TLC stops at
the first, the password; `PeersAgree` of run `peers` says of all three, on both
sides of each limit, that the packets are refused beyond it and accepted below.

Why the bounds are enough:

* The handlers look at one packet and one fifo content at a time. A packet can
  arrive at every moment, so one that waits gives every order of a packet with
  another event; two words are a whole prio command, or two commands that merged.
* The packets cover every branch of the handlers: priority 0, lower, higher,
  equal from a lower and a higher address (the priority of the daemon changes, so
  the same packet is equal, lower or higher in turn), another vrid.
* Intervals are 1 unit. The timers count down through every value, so a
  longer one adds states and no new order of events. With an interval of 1 the skew
  is 0 in VRRPv3 as it always is in VRRPv2, so the backups of a dead master race.
* Three routers are a master and two backups that race. Two losses are enough
  for a split brain to arise and to be prolonged; a fault is a crash, a reload or a
  stop. `SplitBrainHeals` counts losses, so it also says what happens with none.
  The theorems about `VrrpLan` are for both versions and any number of routers,
  losses and faults.
* `HalfSpace = 128`: the order of addresses depends only on whether they are half
  the space apart. The addresses of `peers` are up to one less than half apart,
  those of `peers_address` exactly half and more.
* The delays of `timer` are zero, less than, exactly and more than a second, in
  both fields, and the start is one nanosecond before a whole second, so every
  branch of `timespec_substract` is taken, the one without normalisation too.
* Three lives in `files` are a crashed daemon and two that meet what it left; the
  theorems are for any number.
* `exec` has no bound that is ever reached: `NoStrayOfAStray` is about it.
* The sums of `peers` stop at three virtual addresses (`MaxSummed`) to
  keep the recursion of `cksum` shallow.

Fairness. The daemon runs with SCHED_RR and its loop does not stop by itself, so
`VrrpDaemon` assumes weak fairness of the loop and of time. pselect reports a
ready descriptor rather than a signal, and the socket comes before the fifo, so
the fifo gets strong fairness only for states in which the socket is empty and
signals only for states in which both are; the liveness properties say so in
their premise (packets must not keep the daemon busy for ever). `VrrpLan` assumes
weak fairness of every daemon that runs and of time; losses and faults are
bounded, and restarts are not forced. `VrrpTimer` assumes that time passes, that
the loop goes on and that pselect returns once its limit is over. `VrrpExec`
assumes that processes run, that a script ends, and strong fairness of the
delivery of signals for each depth of the stack: pselect of a process that comes
back again and again delivers what is pending. That is a little more than pselect
promises, which delivers a signal for certain only when no descriptor is ready; the
socket and the fifo are in `VrrpDaemon`, whose `TermStops` has this as a premise.

## Proofs

`VrrpState_proofs` has one lemma per function of `vrrp_state.c`: for an instance
of the right type, what type, state, timers, packet buffer and effects the
function leaves; the calls of the script in a log of effects, a recursive function,
get one lemma per way a log grows. Its last section is about routers configured alike: what one
builds the other accepts, and the interval survives the two bytes it is sent in.
`VrrpDaemon_proofs` proves for every `Config`, `Priority`,
`Packets`, `Commands`, `Signals` and every bound on the queues:

* `TypeCorrect`, `TimersFollowState`, `AdvertisementsAreCurrent`, `VipsFollow`,
  `OwnerMaster`, `StopClean` (invariants);
* `ResignationAnnounced` (an action property);
* `ImplementsSwitch` (the daemon implements `VrrpSwitch`: every call, those of one
  iteration in their order, is one the script may expect after the one before).

The assumptions are those of `VrrpDaemon` and `VrrpNet`: the configuration has
the types the options give it, with an interval that is not 0 (which `options`
checks), packets have bytes in their fields, commands are sequences of words.

None of the invariants is inductive alone. `IInv` is their conjunction
strengthened by what links them: the timer discipline is needed to know which
timer an expired one is, and so which state; the state and the last hook call
must be known together to see that a call is due, and that the first one is
"init"; the packet buffer must be right
in every state for a resignation to restore a right one. The proof has one step
per action, each from the lemma of the function the action calls.

`VrrpTimer_proofs`, for every length of a second, every set of delays and every
clock (`LongAssumption`: no delay overflows a long, true with 64 bits):
`TimerTypes`, `DeadlineKept`, `SpinsOnWholeSeconds` and the refinement
`ImplementsCountdown`.
The invariant says that the fields of a deadline are not negative and that a
running wait ends at the deadline; the lemmas say that `Carry` and `Borrow` keep
the total of what they adjust, and how far below the other operand they leave it.

`VrrpFiles_proofs`, for any number of daemons: `FilesTypes`, `OneDaemon`,
`InterfaceKept`, `DaemonReachable`, `StaleFilesHarmless`. `LockInv` says who holds
the lock of which file and that, as long as no start overlaps a stop, the file
opened for the lock is the one in the directory: with it two holders hold the same
lock. `RaceInv` adds which files a lone daemon finds, `MetInv` what the history
variables know.

`VrrpOptions_proofs`: `ConfiguredWhenRunning`, for any number and order of
options, any numbers and passwords, and any number of addresses.

`VrrpExec_proofs`, for any bound on the stack: `ExecTypes`, `NoTraceOfCalls`,
`ForkFailureKills`, `OneStray`, `InterfaceAgrees`. `ExecInv` describes every stack
there can be: the first daemon alone, the first daemon waiting for one stray that
cannot call the script, or nobody. It relates the calls a daemon still has to make
to the state it makes them for, and a lone daemon's interface to the last call
that ran the script.

`VrrpLan_proofs`, for any set of routers and any bounds on losses and faults:

* `OutageIsBounded`, whatever the configurations and priorities. `OutageInv` says
  that once time has passed without a master every router that runs waits in
  BACKUP with an empty socket, and that the time that has passed is gone from what
  each still waits: nothing is left that could arm a timer again.
* `SplitBrainHealed` and `ReignIsStable`, for routers that are a `Group`.
  `HoldInv` says why a router j does not trouble a master i that it may not
  preempt: no resignation waits in its socket and it is a backup whose timer runs
  out after the next advertisement of i, or a master that i does not make yield;
  or an advertisement of i waits in its socket with no resignation behind it; or a
  resignation waits in the socket of i, which is not the owner and so answers it
  with an advertisement; or packets have been lost, and the time with two masters
  plus the time to the next advertisement of i is at most an interval per loss.
  Every step moves each pair of routers from one of the four to another. Time
  passes only when the sockets are empty, which leaves the first and the last; two
  masters, of which one makes the other yield, leave the last, which is the bound.
  `ReignInv` adds that without loss a lone master finds its socket empty, the
  other sockets hold its advertisements only, and the backups it can hold back
  still wait.

`Group` asks for what the properties need, each for a reason in the code. The
configurations are `Plain` and alike: other routers ignore each other. No priority
is 0: `vrrp_state.c` takes an advertisement with priority 0 for a resignation. One
router at most owns the addresses: an owner discards every packet and never yields.
Of two routers one makes the other yield: with equal priorities and IPv4 addresses
exactly half the address space apart neither does. A start delay is none or longer
than the interval: after a shorter one a router takes over before it has heard the
master. `ReignIsStable` asks that an owner preempts, since `vrrp_state_init` makes
it a master at once even if it is told not to. The routers of the `lan` run are a
group.

`VrrpPeers_proofs`:

* `AlikeRoutersAgree`, for every shared configuration that `Fits` (1 to 255
  addresses, a packet that fits the MTU) and is `Telling` (the byte of an IPv6
  address at which `vrrp_net_recv` looks for the first character of a password is
  another one), any two addresses and priorities from 1 to 254: packets are accepted
  exactly when the configuration is `Understood`.
* `GreaterWins`, for every shared configuration and any two priorities from 1 to
  254: after two verdicts PKT the greater one is the only master. With IPv4 the
  addresses must be less than half the address space apart, where `vrrp_ip4_cmp`
  orders them; beyond it `peers_address` has the counterexample. `PeersInv`, from
  which both follow, says what each of the two is going to hear, that a verdict is
  the one of `vrrp_net_recv`, and that a router that has accepted what it heard is
  master unless it had to yield.
* `ChecksumExact`, for every configuration with 32-bit addresses, at most 255 of
  them, and every source address but 0; `FramesAccepted`, for the same
  configurations; `TakeoverAnnounced`, for those of them that are IPv4. `SentInv` says that what is sent was built from a buffer that
  was not rewritten. `Total` is the sum that `cksum` folds. It adds up over the
  parts of a buffer and fits 32 bits (`TotalConcat`, `TotalBound`), so an
  advertisement sums to a rest plus 256 times the priority (`AdvTotal`), and
  `fold` never takes two such sums with different priorities to the same word
  (`PrioritiesTold`).

The prover cannot apply the library's induction theorems, whose parameter is an
operator. What the recursive sums of `VrrpFrames` and the logs of `VrrpState` compute is proved
from a least counterexample instead (`Least`, from the well-foundedness of the naturals).

Only model-checked: the liveness properties `TermStops` of `VrrpExec` and of
`VrrpDaemon`, `StopCommandStops` of `VrrpDaemon`, `Converges` and `BestWins` of
`VrrpLan` and `TimerFires` of `VrrpTimer`, since TLAPS does not reason about
fairness, and the violated properties.

## Met on the way

What the models show and no property claims otherwise:

* A daemon that is started while another one of its vrid is stopping can end up
  running next to a third: the one that stops removes the name of the pid file
  while it still holds its lock (`uvrrpd.c:170`). `OneRuns` excludes this.
* `main` frees the name of the pid file before the atexit handler uses it
  (`uvrrpd.c:172`); `ExitPid` may remove the file or not.
* The pid file is not truncated (`uvrrpd.c:338`): digits of a longer pid may stay
  behind the new one.
* After a failed fork `argv` is NULL, SIGINT and SIGQUIT stay ignored and the
  daemon stays under SCHED_OTHER; the next call of the script ends it
  (`vrrp_exec.c:145`).
* After a failed execve the child runs on as a daemon; a stop written to the fifo
  then reaches the child alone, and its end removes the pid file and the fifo of
  its parent (`vrrp_exec.c:163`).
* A daemon that crashed as master leaves its interface, which a restart as backup
  does not remove (`vrrp_state.c:326`).
* `-r 2` after `-6` runs VRRPv2 over IPv6 (`vrrp_options.c:231`). With a password
  `vrrp_adv_build` then writes behind the buffer that `vrrp_ip6_getsize` made room
  for (`vrrp_adv.c:222`); what that does to the heap is not modelled.
* IPv6 advertisements leave with the Ethernet destination of the IPv4 group,
  01:00:5e:00:00:12 (`vrrp_adv.c:51`). The Ethernet header of advertisements is not
  modelled, nor which of them the interface of a receiver filters out.
* On a build with a 32-bit long a VRRPv3 delay above 114 centiseconds overflows
  (`vrrp_timer.c:84`).

## Not modelled

Sockets, multicast groups and interface queries (system calls); the Ethernet header
of advertisements; the text of the
script's arguments and of log messages (formatting); the options that only store
a string or switch logging (`-f -s -F -C -d`); `log.[ch]`; `list.h`, whose lists
are sequences here; failures of malloc, clock_gettime and waitpid; SIGPIPE between
two calls of pselect.
