# OpenUPS: a TLA+ model, its checks and its proofs

OpenUPS probes one IP address with ICMP echoes and shuts the machine down when
too many probes in a row go unanswered: the address stands for the mains power.
What must not happen is a shutdown without an outage, an outage without a
shutdown, or a monitor that hangs. This directory models the parts of the
program that decide this, checks them with TLC and proves the most important
properties with TLAPS.

## 1. Inventory

| Part | Source | State | Operations | Interacts with |
|---|---|---|---|---|
| Reactor | `src/monitor.c` 573-958 | `now_ms`, `stop_flag`, exit code, poll set | loop head, four due-work handlers, poll, signal and receive handlers | everything; one thread |
| Timers and scheduler | `src/monitor.c` 125-297 | outstanding probe, next slot, countdown, watchdog time stamp | arm, clear, due, advance, compute the poll timeout | reactor |
| Shutdown state machine | `src/monitor.c` 300-409 | `consecutive_fails`, countdown | threshold, tick, cancel, execute | timers, shutdown command, notifier |
| Signal channel | `src/monitor.c` 629-690 | signal mask, signalfd | block, read one, restore | reactor, kernel |
| ICMP pinger | `src/icmp.c` | socket, sequence number | send, receive and match, checksum | network |
| Metrics | `src/monitor.c` 55-94 | three counters, latencies | record | reactor |
| Shutdown command | `src/shutdown.c` | child process, grace period | spawn, observe, classify | init system; blocks the reactor |
| systemd notifier | `src/systemd.c` | socket, last status and its time | ready, status, watchdog, stopping | systemd; may block the reactor |
| Runtime services | `src/openups.h` 209-345 | function table | forward or do nothing | notifier |
| Configuration | `src/config.c` | the configuration | defaults, environment, command line, validation | once, at start |
| Logger and clock | `src/logger.c` | level | write, read the clock | all |
| Lifecycle | `src/main.c`, `src/monitor.c` 775-922 | context, exit code | acquire, run, release | all; systemd sees the exit |
| Service unit | `systemd/openups.service` | state of the unit, start limit | start, time out, restart, give up | lifecycle, notifier |

The hard parts are not in any one function. They are the order in which a reply,
a miss, the end of a countdown, a signal and a failing command meet in one
thread that reads its clock once or twice per pass; late, repeated and wrapped
replies; the clamps and overflow marks of the timer arithmetic; a shutdown
command that fails, hangs or fails too late to be noticed; a socket to systemd
that blocks; three sources that write one configuration; datagrams of any shape
in a reused buffer; and a process
that gives up and is started again. `PROJECT.json` lists these hazards, each at its line, with
the property that would catch it going wrong.

## 2. Modules

| Module | Models | Used by |
|---|---|---|
| `MonitorState` | timer arithmetic, sequence numbers and valid configurations as pure operators, at parameterised widths | `Monitor`, `Config`, `Icmp` |
| `Monitor` | the reactor and its environment | `MCMonitor`, `MonitorProofs` |
| `OutagePolicy` | abstract: what the operator is promised | `Monitor` (`Policy`, the refinement) |
| `Shutdown` | `shutdown_trigger` and the command it watches | `MCShutdown`, `ShutdownProofs` |
| `Notifier` | the systemd notifier over its socket | `MCNotifier`, `NotifierProofs` |
| `Config` | `config_resolve`, and the milliseconds derived from its result | `MCConfig`, `ConfigProofs` |
| `Icmp` | the ICMP pinger, byte by byte | `MCIcmp`, `IcmpProofs` |
| `Service` | the life of the process and of its systemd unit | `ServiceProofs` |
| `MonitorProofs`, `TimingProofs`, `PolicyProofs`, `ShutdownProofs`, `NotifierProofs`, `ConfigProofs`, `IcmpProofs`, `ServiceProofs` | theorems | |

`Config`, `Icmp` and `Shutdown` each justify something `Monitor` takes for granted:
that its configurations are valid (`AcceptedIsUsable` ends in the same
`ValidConfig` that `ConfigAssumption` demands), that one bit tells a reply from
junk (`JudgedRightly`), and that a command takes at most `CommandMax`. `Service` takes the reactor as one step per probe.

Operators that begin with "Seeded fault" in their comment are not part of a
specification. They are plausible bugs; `PROJECT.json` names the definition each
of them replaces and the property TLC then finds violated.

### Monitor

One action per handler and per way it can return. `pc` says which handler is
next, so the environment may act between any two of them:

    head -> tick -> watchdog -> ping_timeout -> scheduler -> poll -> polling -> head
                                                                  \-> exiting -> exited

| `pc` | Code | Actions |
|---|---|---|
| `head` | `while (!stop_flag)`, `monitor_refresh_time` | `LoopHead`, `LoopStop` |
| `tick` | `shutdown_fsm_handle_tick` | `TickIdle`, `TickElapsed` |
| `watchdog` | `monitor_handle_watchdog` | `HandleWatchdog` |
| `ping_timeout` | `monitor_handle_ping_timeout`, `shutdown_fsm_handle_threshold` | `TimeoutIdle`, `MissBelowThreshold`, `MissLogOnly`, `MissExecute`, `MissWhilePending`, `MissArmCountdown` |
| `scheduler` | `monitor_handle_scheduler`, `monitor_send_ping` | `SchedulerIdle`, `SendFailed`, `SendProbe` |
| `poll`, `polling` | `monitor_handle_poll_events`, cut in two where `poll()` blocks | `PollEnter`, `ReplyAccepted`, `NothingAccepted`, `ReceiveFailed`, `PollFailed` |
| `exiting` | `monitor_log_shutdown`, `monitor_loop_destroy` | `ExitLoop` |

`clock` is the clock `get_monotonic_ms` reads, `now_ms` the reactor's last
reading of it. The environment advances `clock` freely while `poll()` sleeps and
by at most `MaxLag` per pass elsewhere; `shutdown_fsm_execute` advances it by at
most `CommandMax`, the bound that `Shutdown` justifies. The network delivers the
answer to any of the last `MaxAge` probes, any number of times and in any order,
and junk; it loses what it never delivers. `Faults` names the calls that may
fail. `wire` (every probe, with its sequence number and the time by the clock at which it
left), `answered` and `decisions` are history variables.

A reply is accepted when source, type, identifier and sequence agree; the first
three are one bit, `ours`: `Icmp` has the bytes. Log lines and status texts are
left out.

### Shutdown

`shutdown_trigger` step by step: spawn, first clock reading, then look at the
child, read the clock, sleep. The command ends when and how it likes. The caller
calls again as long as the result is a failure, as `shutdown_fsm_execute` does.
`"sigchld"` stands for a process that inherited an ignored `SIGCHLD`, for which
`waitpid` answers `ECHILD`. `CommandFaults` holds the sets of calls that may fail
together, of which a behaviour draws one as `faults`: two of the properties except
some of them.

### Notifier

The life of the socket: `systemd_notifier_init` opens it (`SocketOpened`), then
checks the address and connects, and on failure closes it again (`NotConnected`);
`descriptor` is what the kernel knows, `notifier.sockfd` what the program knows.
`systemd_notifier_destroy` comes at any time after that, also before READY, when
`monitor_loop_init` has failed.

`send_notify` attempt by attempt: the test of its loop (`NextAttempt`, `GivenUp`),
then the `send()` and its four outcomes. `told` is every datagram the socket
accepted, `taken` how many systemd has read; the socket is a blocking one, so
`Sent` waits for room. `EAGAIN`, which a blocking socket does not give, is one case
with `ENOBUFS`.

### Config

One step per variable in the order of `config_load_from_env` (`LoadVariable`,
`RefuseVariable`), one per argument as `getopt_long` hands it over
(`LoadOption`, `PassArgument`, `RefuseArgument`), then `Validate`. A text is known by
what the parsers make of it: a number, a word, an address, empty, too long. The
properties define the outcome without any order (`EffectiveConfig`), so that they
can disagree with the steps.

### Icmp

An array of bytes is a function on `0..n-1`. `send_buf` is one buffer for all
requests; `recv_buf` is on the stack and holds the bytes of some earlier datagram
behind the one received. `Foreign` datagrams come from anyone. `Echoes` are what
the target makes of the request on the wire, with IP headers of several lengths.
Each datagram carries the request it really answers, which the pinger cannot
see; `IsReply` ties it to the bytes. A datagram may be forged only by a host
that does not use the target's address.

### Service

    main -> context -> loop -> signalfd -> timing -> startup -> reactor -> leaving
    main, context             -> exited                 (nothing held)
    loop, signalfd, timing    -> destroy -> exited      (monitor_loop_init failed)
    leaving                   -> destroy -> exited

`loop`, `signalfd` and `timing` are the three places where `monitor_loop_init` can
fail: to block the signals, to open the signalfd (the mask is then restored), and
to read the clock (the whole channel is then undone).

`held` is what has been acquired and not released. The unit goes `activating`,
`active`, `deactivating`, `inactive`, with `overdue` after the start timeout,
`auto-restart` and `failed`. A unit of time is the probe interval of the unit file,
10 s. `link` is what the network does to a probe: answer it, swallow it, or make
`sendto` fail. Where the mask is not held `Killed` competes with every step.

## 3. Runs

| Run | Shows |
|---|---|
| `outage` | `CountdownHasCause`, `ShutdownHasCause`, `CountdownHonoured`, `ProbeAccounting`, `OnlyOwnReply`, `NoBusySpin`, types and the refinement of `OutagePolicy`: all modes, with and without delay, thresholds 1 to 3, a lagging loop; all calls may fail, times run into the overflow mark 11, `poll()` sleeps at most 2, sequence numbers 1..4 wrap within the horizon, one datagram is read per wake-up |
| `timers` | `TimersServed`, `NoEarlyShutdown`, `FairTimeout`, `OutageActedOn`: timers longer than the slack, so that sleeping through one of them or deciding early would show, and a network that answers nothing |
| `signals` | `StopIsFinal`, `InterruptServed`, `TerminateServed` with three signals |
| `command` | `SuccessNotRetried`, `EarlyFailureSeen`, `CallContract`, `OneCommand`, `CallReturns`, types, over two calls with spawn failures, with a failing clock, sleep and `waitpid`, and with `SIGCHLD` ignored |
| `notify` | `StatusIsCurrent`, `SuppressionIsBrief`, `ToldOnce`, `SocketMatches`, `KeepaliveInTime`, `NotifyReturns`, types, with every fault |
| `resolve` | `ResolvesByRank`, `AcceptedIsUsable`: command lines of up to two arguments against environments with a bad and a good value, with widths scaled so that every limit is met |
| `datagrams` | `RequestsAreSound`, `RequestsDiffer`, `JudgedRightly`, `FilterIsTransparent`: both families and byte orders, the filter attached or not, headers with and without options, datagrams wrong in one field or cut off; and more requests than there are sequence numbers |
| `service` | `NotSilentlyGone`, `EverythingReleased`, `ActiveIsMonitoring`, `OutageEndsVisibly`, `StopHonoured`, types, with up to three failing calls anywhere |
| `override` | fails: `OptionsOverride`, see section 5 |
| `unsent` | fails: `OutageIsActedOn`, see section 5 |
| `short_timeout` | fails: `FullTimeout`, see section 5 |
| `second_signal` | fails: `GracefulStop`, see section 5 |

Bounds. A unit of time stands for any number of milliseconds; what matters is the
order of the deadlines, and the configurations in `MCMonitor` put timeout,
interval, delay and lag in all orders the validation allows. The horizon holds a
full outage, a failed command and its retry. `MaxAge = 2` suffices for a reply to
be late by one probe and by two; older ones differ from them only by the
sequence number, which the small `SEQ_MAX` wraps.
The `timers` horizon of 19 holds the longest outage of its configurations with a
failed command and its retry; one of them needs three misses, so that the interval
`ObservedOutage` gives away counts. What `outage` meets at the overflow mark, 64-bit
milliseconds never reach: the widths are scaled down so that the failure paths the
code has for it are taken at all. The runs do not check for
deadlock: a run ends when the process has exited or time has reached the horizon.

`Config` needs no more than two arguments: an option given twice, a good value
over a bad one, and help before or after an error. `Icmp` has one outstanding
request and the one before; in a second set of behaviours, without datagrams, 1002
requests pass the carry between the bytes of the sequence number and the wrap,
which is set at 1000 there. `Service` has the unit's own numbers (5 misses,
30 s to start, 3 starts in 300 s); three failing calls, so that the same one
can fail at every start until the limit is reached.

Fairness. The reactor is a single thread that waits for nothing but `poll()`,
`nanosleep`, `waitpid(WNOHANG)` and `send`: weak fairness of its steps says the
scheduler runs it. Strong fairness of `TimePasses` says the clock advances,
although other steps are taken in between. The runs of `Monitor` that use
fairness allow no fault but the failing command, so no failure is forced by it;
`Shutdown` leaves the failing steps out of its fairness.
`Notifier` is fair to the whole attempt: a `send()` that finds room returns, with
whatever result and the same one every time if it likes, so that only the count of
the attempts ends the loop (`NotifyReturns`). It needs that systemd reads its socket:
the code sets no timeout, so without it the reactor would block. In `Service` the program, systemd and a pending
signal are weakly fair; the network and the operator are not, and no fault is
forced. There `OutageEndsVisibly` owes something to a bound: at most `MaxFaults` calls
fail, so the command succeeds in the end, while the code retries one that always
fails at every miss. `TerminateServed` needs that `SIGUSR1` is not
raised for ever, since one signal is read per wake-up, lowest number first.

## 4. Proofs

Every invariant and every action property of the passing runs is also a theorem,
and so is the refinement. All hold for every value of the constants under the
`ASSUME`s of the modules: the widths are positive, configurations satisfy
`config_validate`, the horizon lies below the overflow mark. `OwnReply`,
`CountedOnce` and `DifferentRequests` have one hypothesis more, stated with them.

The reactor (`MonitorProofs`, `TimingProofs`, `PolicyProofs`; the inductive
invariants are at the end of `Monitor`):

- `TypeCorrect` (`TypeOK`). Inductive as it stands; the overflow mark is kept out
  of every timer because each caller takes the failure path on it.
- `CountdownCause`, `ShutdownCause` rest on `CauseInv`. A count is only a number:
  to say that a countdown has a cause the invariant must tie it to probes, so
  `MissesAreLast` says that the last `consecutive_fails` settled probes are
  unanswered and that a countdown keeps the count at the threshold, and
  `AnswersAreToProbes` that no outstanding probe has been answered.
- `CountdownIsHonoured` follows step by step from `CauseInv`'s types.
- `StoppedForGood` (`StopIsFinal`) rests on `StopIsNext`: a stop is requested in the
  last handler of a pass, so the head of the loop comes next and no handler
  between sees `stop_flag`. The code has no check in between and needs none.
- `OwnReply` (`OnlyOwnReply`) rests on `ReplyInv`. The property is about the counter:
  whenever it counts a success, the reply was the first to the outstanding probe.
  A reply carries a sequence number
  and not a probe, so the invariant bounds its age in probes: it arrives at most
  `MaxAge - 1` behind, and while it waits in the buffer each pass sends at most one
  probe and reads at least one datagram, so the `i`-th in the buffer ages by at most
  `i` (`PacketsAreRecent`); and fewer than `SEQ_MAX` probes in a row have different
  numbers (`SequencesCount`). The hypothesis `RepliesAreRecent` says that both
  together stay below a round of the sequence numbers, 65535 probes: 18 hours at the
  shortest interval. Without it the property is false of the code too.
- `CountedOnce` (`ProbeAccounting`) adds the counters, under the same hypothesis: a
  reply accepted for the wrong probe would be counted as a second success.
- `NotEarly` (`NoEarlyShutdown`) rests on `TimingInv`. It speaks of the clock: from the
  moment the first missed probe left to the decision. The code counts from the
  `now_ms` of the pass that sent the probe, which may be `Late` behind; so the
  invariant measures from `SentAfter(k)`, `Late` before probe `k` left, and loses
  `Late` once and not once per probe. `ProbesAreSpaced` says that probe `k` leaves at
  least `k - j - 1` intervals after `SentAfter(j)`: one interval is lost because a
  late slot may be followed by one on schedule. This is the constant in
  `ObservedOutage`; the obvious `threshold - 1` intervals do not hold.
  `DeadlinesAreDerived` ties the reply deadline and the countdown to it. All this
  supposes a clock that can be read.
- `NoSpin` rests on `NothingLeftDue`: each handler leaves its own timer beyond
  `now_ms` and no later handler of the pass undoes that.
- `InTime` (`TimersServed`) rests on `LatenessInv`, `PatientProbes` (`FairTimeout`) on
  `TimingInv`, whose reply deadline it reads off. For all three of `NotEarly`, `InTime`
  and `PatientProbes` `ClockIsFresh` says how stale `now_ms` can be at each handler: by the lag of the
  pass, and by one command from the tick on, or from the miss handler on when there
  is no delay. `OnItsWay` follows one deadline through a pass: `poll()` is entered
  with a timeout no longer than the time left for it (`WaitIsShort`), but with a
  clock that may be `Late` behind, and left by `Late` later; hence `Slack`. The
  three except a clock that cannot be read: `monitor_refresh_time` then keeps
  the old `now_ms` for as long as the failure lasts, and a probe sent on it has a
  deadline that may lie in the past.
- `ImplementsPolicy`: each step of the reactor is a step of `OutagePolicy` or
  leaves its variables alone.

The other components:

- `NeverTwoCommands`, `NoRetryAfterSuccess`, `GraceIsKept`, `CallIsBounded` rest
  on `CommandInv`: earlier commands are over and failed whenever the caller is
  free to retry, and every stage of the observation has its place between the
  call and the deadline (`ObservationIsTimed`). `CallIsBounded` is what entitles
  `Monitor` to run the command in one step of at most `CommandMax`.
- `NotifierTypes`, `CurrentStatus`, `BriefSuppression`, `DeliveredOnce`,
  `SocketIsOwned` rest on `NotifierInv`. The text of the last status is a cache, and
  `StatusIsRemembered` says of what: while `last_status_ms` is not 0, systemd was
  told that text after every other, and no earlier than that time, since the clock
  is read before the first attempt. `CallsAreCounted` keeps the datagrams below the
  calls. `SocketInv` adds to `SocketMatches` the stretch in which the socket is open and
  the notifier not yet enabled: `sockfd` is then the open socket's. The clock of this module starts at 1 (`MaxClock` is positive): the code
  takes the time 0 for "never told". `KeepaliveHalves` (`KeepaliveInTime`) is
  arithmetic of the clamps.
- `Usable` rests on `ConfigInv`: whatever a parser accepts is limited by its C
  type (`Limited`); with that the milliseconds fit their 64 bits, and what validation
  lets through has a reply deadline before the next slot.
- `RankedValues` (`ResolvesByRank`) rests on `RankInv`, which says of each stage what
  has been read: the variables before `position` have parsed and given their fields a
  value (`VariablesSoFar`), and each field has the value of the latest argument before
  `position` that gives it one, else its base value (`ArgumentsSoFar`). It holds for
  command lines of any length; the run tries two arguments.
- `RepliesJudged` rests on the types of the buffers and on what is in flight: every
  datagram in the queue is of the pinger's family and honest about what it
  answers. The parser then reads no byte behind `received`, so stale bytes have no
  say. `FilterTransparent` follows from where a header ends.
- `DifferentRequests` (`RequestsDiffer`): while the pinger runs the last request on the
  wire carries `pinger.sequence` (`NumberInv`), and the next number is another one
  as long as there are two (`SEQ_MAX > 1`).
- `SoundRequests` (`RequestsAreSound`) rests on `SoundInv`: the reused buffer holds
  bytes, and from the first request on the pattern behind the header. That the
  checksum verifies is `ChecksumVerifies`, for arrays of any length, odd or even, in
  either byte order. The sum and its folding are recursive functions, so it must
  first be shown that they exist (`RecursionDefined`: functions up to each number
  exist and agree) and that the folding ends (`FoldingShrinks`); then that folding
  changes a sum by a multiple of 65535 and makes only 0 of 0 (`FoldedIs`), that filling
  in a word adds it (`SumFilled`), and so that a sum and the complement of its
  folding fold to all ones (`ComplementFolds`). Each induction is an argument by the
  least counterexample (`LeastMember`), which needs no induction over a predicate.
- `ActiveMonitors`, `AllReleased`, `NeverSilentlyGone` rest on `LifeInv`: what is held
  at each stage; in particular that each of the three ways
  `monitor_loop_init` fails leaves nothing but the sockets held; that a notification is
  pending only from a process that has
  announced itself; and that a signal has a cause, the operator or a start that
  is overdue, so that a good exit code always has one too. `ServiceTypes` (`TypeOK`)
  is inductive; its bounds on `starts` and `consecutive_fails` are the code's own.

Only model-checked: liveness (`OutageActedOn`, `InterruptServed`, `TerminateServed`,
`CallReturns`, `NotifyReturns`, `OutageEndsVisibly`, `StopHonoured`), which is out of
the prover's reach because fairness needs `ENABLED`. `InTime` and `CallIsBounded`
are the bounded forms of two of them.

## 5. Where the code and its documentation differ

- The README calls the timeout the time a single ping waits for its reply. The
  handlers of a pass share one `now_ms`. If the shutdown command blocks and fails
  in the first of them, the probe sent in the same pass gets a deadline counted
  from before the command, and any other wake-up then declares it missed early
  (`short_timeout`). `FairTimeout` states what remains true.
- The README calls the stop on `SIGTERM` graceful. The mask is restored with
  signals still pending, so a `SIGUSR1` or second `SIGTERM` that came in meanwhile
  kills the process before it has cleaned up (`second_signal`).
- The README ranks the command line over the environment. A malformed variable is
  refused before the command line is looked at, although an option overrides it
  (`override`). For well-formed texts the ranking holds (`resolve`).
- The README promises a shutdown when probes fail long enough. If the outage makes
  `sendto` itself fail, no probe is counted: the process ends with an error,
  systemd starts it three times and then leaves the unit failed (`unsent`). What
  remains true is that the outage ends visibly (`OutageEndsVisibly`).

## 6. Not modelled, and why

- A foreign reply with our source, identifier and sequence is indistinguishable
  from the real one for the code as well.
- `CLOCK_MONOTONIC_COARSE` is what the code reads: `clock` is that clock, so a
  property in its terms is exact up to one tick of it.
- A datagram that arrives between the return of `poll()` and the drain is read in
  the same wake-up here, and in the next one in the code if only a signal had
  woken it.
- Latency statistics, the success rate and the uptime, which only feed log lines.
- `argv` and the environment of the command, log output, usage texts, and what
  makes a text a number or an address (`strtol`, `inet_pton`): the parsers' verdict
  on it is modelled.
- `WatchdogSec` and `TimeoutStopSec` of the unit: they end a process that hangs, and
  `CallReturns`, `NotifyReturns` and `TimersServed` say that it does not.
- `TimersServed` has the reply deadline, the countdown and the watchdog. The slot timer
  is only covered through `ProbesAreSpaced`, from below, and `OutageActedOn`.
- With nothing outstanding the parsers compare with number 0, and a datagram that
  carries it matches in `Icmp`; that the caller then counts nothing is in `Monitor`.
- In `Service` a command that fails is tried again at the next miss; countdown and
  log-only mode, which keep the process running, are in `Monitor`.

## 7. Plan

Done: all modules of section 2 and the proofs of section 4. In this order, next:

1. The notifier's effect on the reactor: the time a notification takes as `lag`,
   and the sequence of status texts during an outage.
2. Proofs: an abstract specification of the command as the reactor sees it (one
   step, bounded, at most one success), and `Shutdown` as an implementation of it.
3. Bounded forms of the remaining liveness properties, as invariants.
