------------------------------ MODULE Monitor ------------------------------
(***************************************************************************)
(* The reactor of OpenUPS (monitor.c): one thread that probes a target     *)
(* with ICMP echoes, counts the probes that went unanswered, and shuts the *)
(* machine down, at once or after a countdown, when too many in a row did. *)
(* Every handler of the loop is one action; the environment delivers       *)
(* replies late, twice, out of order or never, raises signals, and lets    *)
(* real time pass between any two steps.                                   *)
(***************************************************************************)
EXTENDS MonitorState, Sequences, FiniteSets

CONSTANTS
    Configs,      \* the configurations considered, all accepted by config_validate
    DRAIN_MAX,    \* OPENUPS_MAX_REPLY_DRAIN_PER_TICK
    Signals,      \* the signals that may be sent to the process
    Faults,       \* the calls that may fail, a subset of FaultKinds
    MaxClock,     \* bound: horizon of real time
    MaxLag,       \* bound: time one pass of the loop may lose outside poll()
    CommandMax,   \* bound: time shutdown_trigger may block
    MaxQueue,     \* bound: datagrams the socket buffer holds
    MaxAge        \* bound: how many probes back a reply may belong to

SIGINT == 2
SIGUSR1 == 10
SIGTERM == 15

FaultKinds == {"send", "recv", "poll", "eintr", "clock", "command", "notify"}

ASSUME ConfigAssumption ==
    \A c \in Configs : ValidConfig(c) /\ c.interval_ms < U64MAX

ASSUME EnvironmentAssumption ==
    /\ Signals \subseteq {SIGINT, SIGUSR1, SIGTERM}
    /\ Faults \subseteq FaultKinds
    /\ DRAIN_MAX \in Nat \ {0}
    /\ MaxClock \in Nat /\ MaxClock < U64MAX
    /\ MaxLag \in Nat /\ CommandMax \in Nat
    /\ MaxQueue \in Nat /\ MaxAge \in Nat

VARIABLES
    config,             \* ctx->config, fixed once the reactor runs
    clock,              \* CLOCK_MONOTONIC, which only the environment moves
    now_ms,             \* loop->now_ms, the reactor's last reading of clock
    pc,                 \* the handler about to run
    wake_ms,            \* when the poll() under way times out, 0 outside it
    lag,                \* time this pass of the loop has lost outside poll()
    ping,               \* state->ping: the outstanding probe
    shutdown,           \* state->shutdown: the countdown
    next_ping_ms,       \* state->scheduler
    last_sent_ms,       \* state->watchdog
    sequence,           \* ctx->pinger.sequence
    consecutive_fails,  \* ctx->consecutive_fails
    metrics,            \* ctx->metrics, the counters
    stop_flag,          \* ctx->stop_flag
    exit_code,          \* what openups_reactor_run returns
    queue,              \* receive buffer of the ICMP socket
    signals,            \* blocked signals pending for the signalfd
    killed_by,          \* signal that ended the process, 0 if none
    wire,               \* history: the probes sent, and when by clock each left
    answered,           \* history: the probes whose reply was accepted
    decisions           \* history: how often a shutdown was decided

loop == <<now_ms, pc, wake_ms>>
timers == <<ping, shutdown, next_ping_ms, last_sent_ms>>
counters == <<consecutive_fails, metrics>>
ending == <<stop_flag, exit_code, killed_by>>
environment == <<clock, lag, queue, signals>>
history == <<wire, answered, decisions>>
vars == <<config, loop, timers, sequence, counters, ending, environment,
          history>>

NoPing == [waiting |-> FALSE, send_time_ms |-> 0, deadline_ms |-> 0,
           expected_sequence |-> 0]
NoShutdown == [pending |-> FALSE, deadline_ms |-> 0]

\* Seeded fault: the probe stays outstanding after it was counted.
PingKept == UNCHANGED ping

monitor_ping_clear == ping' = NoPing

\* Seeded fault: the countdown survives what should end it.
ShutdownKept == UNCHANGED shutdown

monitor_shutdown_clear == shutdown' = NoShutdown

\* monitor_loop_init and monitor_state_init, up to the first test of the loop.
Init ==
    /\ config \in Configs
    /\ clock = 0 /\ now_ms = 0 /\ lag = 0
    /\ pc = "head" /\ wake_ms = 0
    /\ ping = NoPing /\ shutdown = NoShutdown
    /\ next_ping_ms = now_ms /\ last_sent_ms = now_ms
    /\ sequence = 0
    /\ consecutive_fails = 0
    /\ metrics = [total_pings |-> 0, successful_pings |-> 0,
                  failed_pings |-> 0]
    /\ stop_flag = FALSE /\ exit_code = 0 /\ killed_by = 0
    /\ queue = <<>> /\ signals = {}
    /\ wire = <<>> /\ answered = {} /\ decisions = 0

-----------------------------------------------------------------------------
(* The head of the loop.                                                   *)

\* A reading of the clock that may fail, leaving the old value in place.
monitor_refresh_time ==
    \/ now_ms' = clock
    \/ "clock" \in Faults /\ now_ms' = now_ms

\* Seeded fault: the stop flag is not looked at.
LoopHeadUnchecked ==
    /\ pc = "head"
    /\ monitor_refresh_time
    /\ pc' = "tick"
    /\ UNCHANGED <<config, wake_ms, timers, sequence, counters, ending,
                   environment, history>>

LoopHead ==
    /\ pc = "head" /\ ~stop_flag
    /\ monitor_refresh_time
    /\ pc' = "tick"
    /\ UNCHANGED <<config, wake_ms, timers, sequence, counters, ending,
                   environment, history>>

LoopStop ==
    /\ pc = "head" /\ stop_flag
    /\ pc' = "exiting"
    /\ UNCHANGED <<config, now_ms, wake_ms, timers, sequence, counters,
                   ending, environment, history>>

-----------------------------------------------------------------------------
(* monitor_run_due_work: four handlers, all with the same now_ms.          *)

\* Runs the shutdown command, which blocks the whole reactor while it is
\* observed, and continues at resume_pc when it failed.  A dry run takes no
\* time and always stops.
shutdown_fsm_execute(resume_pc) ==
    /\ decisions' = decisions + 1
    /\ IF config.shutdown_mode = "dry-run"
       THEN clock' = clock
       ELSE \E d \in 0..CommandMax : clock + d <= MaxClock /\ clock' = clock + d
    /\ \/ pc' = "exiting"
       \/ /\ config.shutdown_mode # "dry-run" /\ "command" \in Faults
          /\ pc' = resume_pc

\* Seeded fault: the countdown ends a millisecond early.
ShutdownAlmostElapsed ==
    shutdown.pending /\ now_ms + 1 >= shutdown.deadline_ms

shutdown_deadline_elapsed ==
    shutdown.pending /\ now_ms >= shutdown.deadline_ms

\* shutdown_fsm_handle_tick
TickIdle ==
    /\ pc = "tick" /\ ~shutdown_deadline_elapsed
    /\ pc' = "watchdog"
    /\ UNCHANGED <<config, now_ms, wake_ms, timers, sequence, counters,
                   ending, environment, history>>

TickElapsed ==
    /\ pc = "tick" /\ shutdown_deadline_elapsed
    /\ monitor_shutdown_clear
    /\ shutdown_fsm_execute("watchdog")
    /\ UNCHANGED <<config, now_ms, wake_ms, ping, next_ping_ms, last_sent_ms,
                   sequence, counters, ending, lag, queue, signals, wire, answered>>

\* monitor_handle_watchdog: a failed notification leaves the timer due.
HandleWatchdog ==
    /\ pc = "watchdog"
    /\ \/ /\ monitor_watchdog_due(now_ms, last_sent_ms,
                                  config.watchdog_interval_ms)
          /\ last_sent_ms' = now_ms
       \/ /\ \/ ~monitor_watchdog_due(now_ms, last_sent_ms,
                                      config.watchdog_interval_ms)
             \/ "notify" \in Faults
          /\ last_sent_ms' = last_sent_ms
    /\ pc' = "ping_timeout"
    /\ UNCHANGED <<config, now_ms, wake_ms, ping, shutdown, next_ping_ms,
                   sequence, counters, ending, environment, history>>

\* Seeded fault: the probe is compared with its send time.
PingSentBefore == ping.waiting /\ now_ms >= ping.send_time_ms

ping_deadline_elapsed == ping.waiting /\ now_ms >= ping.deadline_ms

TimeoutIdle ==
    /\ pc = "ping_timeout" /\ ~ping_deadline_elapsed
    /\ pc' = "scheduler"
    /\ UNCHANGED <<config, now_ms, wake_ms, timers, sequence, counters,
                   ending, environment, history>>

\* handle_ping_failure, monitor_ping_clear: the probe is declared missed.
ProbeMissed ==
    /\ pc = "ping_timeout" /\ ping_deadline_elapsed
    /\ monitor_ping_clear
    /\ metrics' = [metrics EXCEPT !.total_pings = @ + 1,
                                  !.failed_pings = @ + 1]
    /\ UNCHANGED <<config, now_ms, wake_ms, next_ping_ms, last_sent_ms,
                   sequence, ending, lag, queue, signals, wire, answered>>

\* Seeded fault: the miss is not counted.
MissNotCounted == consecutive_fails

missed == consecutive_fails + 1

\* Seeded fault: the delay runs from the probe, not from its miss.
DeadlineFromProbe == monitor_deadline_add_ms(ping.send_time_ms, config.delay_ms)

countdown_deadline_ms == monitor_deadline_add_ms(now_ms, config.delay_ms)

\* The branches of shutdown_fsm_handle_threshold after a missed probe.
MissBelowThreshold ==
    /\ ProbeMissed
    /\ missed < config.fail_threshold
    /\ consecutive_fails' = missed
    /\ pc' = "scheduler"
    /\ UNCHANGED <<shutdown, clock, decisions>>

\* Seeded fault: log-only mode keeps the count.
MissLogOnlyKeeps ==
    /\ ProbeMissed
    /\ missed >= config.fail_threshold /\ config.shutdown_mode = "log-only"
    /\ consecutive_fails' = missed
    /\ pc' = "scheduler"
    /\ UNCHANGED <<shutdown, clock, decisions>>

MissLogOnly ==
    /\ ProbeMissed
    /\ missed >= config.fail_threshold /\ config.shutdown_mode = "log-only"
    /\ consecutive_fails' = 0
    /\ pc' = "scheduler"
    /\ UNCHANGED <<shutdown, clock, decisions>>

MissExecute ==
    /\ ProbeMissed
    /\ missed >= config.fail_threshold /\ config.shutdown_mode # "log-only"
    /\ config.delay_ms = 0
    /\ consecutive_fails' = missed
    /\ shutdown_fsm_execute("scheduler")
    /\ UNCHANGED shutdown

MissWhilePending ==
    /\ ProbeMissed
    /\ missed >= config.fail_threshold /\ config.shutdown_mode # "log-only"
    /\ config.delay_ms > 0 /\ shutdown.pending
    /\ consecutive_fails' = missed
    /\ pc' = "scheduler"
    /\ UNCHANGED <<shutdown, clock, decisions>>

MissArmCountdown ==
    /\ ProbeMissed
    /\ missed >= config.fail_threshold /\ config.shutdown_mode # "log-only"
    /\ config.delay_ms > 0 /\ ~shutdown.pending
    /\ IF countdown_deadline_ms = U64MAX
       THEN consecutive_fails' = 0 /\ shutdown' = shutdown
       ELSE /\ consecutive_fails' = missed
            /\ shutdown' = [pending |-> TRUE,
                            deadline_ms |-> countdown_deadline_ms]
    /\ pc' = "scheduler"
    /\ UNCHANGED <<clock, decisions>>

HandlePingTimeout ==
    \/ TimeoutIdle
    \/ MissBelowThreshold
    \/ MissLogOnly
    \/ MissExecute
    \/ MissWhilePending
    \/ MissArmCountdown

\* Seeded fault: a slot that is due right now is not served.
SlotPassed == ~ping.waiting /\ now_ms > next_ping_ms

scheduler_due == ~ping.waiting /\ now_ms >= next_ping_ms

SchedulerIdle ==
    /\ pc = "scheduler" /\ ~scheduler_due
    /\ pc' = "poll"
    /\ UNCHANGED <<config, now_ms, wake_ms, timers, sequence, counters,
                   ending, environment, history>>

\* icmp_pinger_send_echo fails: the sequence number is spent, the reactor ends.
SendFailed ==
    /\ pc = "scheduler" /\ scheduler_due /\ "send" \in Faults
    /\ sequence' = next_sequence(sequence)
    /\ exit_code' = 1 /\ pc' = "exiting"
    /\ UNCHANGED <<config, now_ms, wake_ms, timers, counters, stop_flag,
                   killed_by, environment, history>>

\* monitor_send_ping, monitor_ping_arm, monitor_scheduler_advance: the probe
\* leaves first, then its deadline and the next slot are computed, and either
\* may overflow and end the reactor.
SendProbe ==
    LET deadline_ms == monitor_deadline_add_ms(now_ms, config.timeout_ms)
        slot_ms == monitor_scheduler_advance(next_ping_ms, config.interval_ms,
                                             now_ms)
        armed == deadline_ms # U64MAX
        advanced == armed /\ slot_ms # U64MAX
    IN  /\ pc = "scheduler" /\ scheduler_due
        /\ sequence' = next_sequence(sequence)
        /\ wire' = Append(wire, [sequence |-> sequence', left_ms |-> clock])
        /\ ping' = IF armed
                   THEN [waiting |-> TRUE, send_time_ms |-> now_ms,
                         deadline_ms |-> deadline_ms,
                         expected_sequence |-> sequence']
                   ELSE ping
        /\ next_ping_ms' = IF advanced THEN slot_ms ELSE next_ping_ms
        /\ exit_code' = IF advanced THEN exit_code ELSE 1
        /\ pc' = IF advanced THEN "poll" ELSE "exiting"
        /\ UNCHANGED <<config, now_ms, wake_ms, shutdown, last_sent_ms,
                       counters, stop_flag, killed_by, environment, answered,
                       decisions>>

HandleScheduler == SchedulerIdle \/ SendFailed \/ SendProbe

-----------------------------------------------------------------------------
(* monitor_handle_poll_events, cut in two where poll() blocks.             *)

wait_timeout_ms ==
    monitor_state_wait_timeout(now_ms, ping, shutdown, next_ping_ms,
                               last_sent_ms, config.watchdog_interval_ms)

PollEnter ==
    /\ pc = "poll"
    /\ wake_ms' = clock + wait_timeout_ms
    /\ pc' = "polling"
    /\ lag' = 0
    /\ UNCHANGED <<config, now_ms, timers, sequence, counters, ending, clock,
                   queue, signals, history>>

Ready == signals # {} \/ queue # <<>>

PollReturns ==
    /\ pc = "polling"
    /\ Ready \/ clock >= wake_ms \/ "eintr" \in Faults

\* poll() itself fails, or a descriptor reports POLLERR, POLLHUP or POLLNVAL.
PollFailed ==
    /\ pc = "polling" /\ "poll" \in Faults
    /\ monitor_refresh_time \/ now_ms' = now_ms
    /\ exit_code' = 1 /\ pc' = "exiting" /\ wake_ms' = 0
    /\ UNCHANGED <<config, timers, sequence, counters, stop_flag, killed_by,
                   environment, history>>

\* A signalfd hands out the lowest-numbered pending signal first.
NextSignal == CHOOSE s \in signals : \A t \in signals : s <= t

\* Seeded faults: only one of the two signals stops the reactor.
OnlyInterrupt == {SIGINT}
OnlyTerminate == {SIGTERM}

StopSignals == {SIGINT, SIGTERM}

\* monitor_handle_signal: one signal per wake-up; SIGUSR1 only prints.
monitor_handle_signal ==
    IF signals = {}
    THEN UNCHANGED <<signals, stop_flag>>
    ELSE /\ signals' = signals \ {NextSignal}
         /\ stop_flag' = (stop_flag \/ NextSignal \in StopSignals)

\* Seeded fault: any reply of the target counts.
ReceivedAny(packet) == packet.ours

\* icmp_pinger_receive_reply: source, type, identifier and sequence agree.
receive_matched(packet) ==
    packet.ours /\ packet.sequence = ping.expected_sequence

\* The datagrams one wake-up reads at most.
drain_limit == IF Len(queue) < DRAIN_MAX THEN Len(queue) ELSE DRAIN_MAX

AcceptedAt(i) == ping.waiting /\ receive_matched(queue[i])

\* What the handler does before it drains the socket.
PollWoken ==
    /\ PollReturns
    /\ monitor_refresh_time
    /\ monitor_handle_signal
    /\ wake_ms' = 0
    /\ UNCHANGED <<config, next_ping_ms, last_sent_ms, sequence,
                   killed_by, clock, lag, wire, decisions>>

\* metrics_record_success, without the latencies.
RecordSuccess ==
    metrics' = [metrics EXCEPT !.total_pings = @ + 1,
                               !.successful_pings = @ + 1]

\* Seeded fault: a success does not forgive the misses before it.
SuccessKeepsMisses ==
    /\ UNCHANGED consecutive_fails
    /\ monitor_shutdown_clear
    /\ RecordSuccess

\* shutdown_fsm_cancel included.
handle_ping_success ==
    /\ consecutive_fails' = 0
    /\ monitor_shutdown_clear
    /\ RecordSuccess

\* The i-th datagram answers the outstanding probe.
ReplyAccepted(i) ==
    /\ PollWoken
    /\ AcceptedAt(i) /\ \A j \in 1..(i - 1) : ~AcceptedAt(j)
    /\ handle_ping_success
    /\ monitor_ping_clear
    /\ answered' = answered \cup {queue[i].probe}
    /\ queue' = SubSeq(queue, i + 1, Len(queue))
    /\ pc' = "head"
    /\ UNCHANGED exit_code

\* Nothing among the datagrams read answers the probe.
NothingAccepted ==
    /\ PollWoken
    /\ \A j \in 1..drain_limit : ~AcceptedAt(j)
    /\ queue' = SubSeq(queue, drain_limit + 1, Len(queue))
    /\ pc' = "head"
    /\ UNCHANGED <<ping, shutdown, counters, exit_code, answered>>

\* recvfrom fails for good: the outstanding probe is dropped, the reactor ends.
ReceiveFailed ==
    /\ PollWoken
    /\ queue # <<>> /\ "recv" \in Faults
    /\ monitor_ping_clear
    /\ exit_code' = 1 /\ pc' = "exiting"
    /\ UNCHANGED <<shutdown, counters, queue, answered>>

HandlePollEvents ==
    \/ \E i \in 1..drain_limit : ReplyAccepted(i)
    \/ NothingAccepted
    \/ ReceiveFailed
    \/ PollFailed

\* monitor_log_shutdown and monitor_loop_destroy: restoring the signal mask
\* delivers whatever is still pending, and its default action kills.
ExitLoop ==
    /\ pc = "exiting"
    /\ pc' = "exited"
    /\ killed_by' = IF signals = {} THEN 0 ELSE NextSignal
    /\ UNCHANGED <<config, now_ms, wake_ms, timers, sequence, counters,
                   stop_flag, exit_code, environment, history>>

-----------------------------------------------------------------------------
(* The environment: time, the network and the senders of signals.          *)

Blocked == pc = "polling" /\ ~Ready /\ clock < wake_ms

\* Time passes freely while poll() sleeps, by at most MaxLag per pass elsewhere.
TimePasses ==
    /\ pc # "exited" /\ clock < MaxClock
    /\ clock' = clock + 1
    /\ IF Blocked THEN lag' = lag ELSE lag < MaxLag /\ lag' = lag + 1
    /\ UNCHANGED <<config, loop, timers, sequence, counters, ending, queue,
                   signals, history>>

Deliver(packet) ==
    /\ pc # "exited" /\ Len(queue) < MaxQueue
    /\ queue' = Append(queue, packet)
    /\ UNCHANGED <<config, loop, timers, sequence, counters, ending, clock,
                   lag, signals, history>>

\* An answer to one of the last MaxAge probes, possibly late or repeated.
ReplyArrives ==
    \E p \in 1..Len(wire) :
        /\ p > Len(wire) - MaxAge
        /\ Deliver([ours |-> TRUE, sequence |-> wire[p].sequence, probe |-> p])

\* Other traffic the raw socket sees: replies to somebody else, and a reply
\* with our identifier whose sequence is the sentinel 0.
ForeignArrives ==
    \E packet \in [ours : BOOLEAN, sequence : {0}, probe : {0}] :
        Deliver(packet)

SignalRaised ==
    /\ pc # "exited"
    /\ \E s \in Signals : signals' = signals \cup {s}
    /\ UNCHANGED <<config, loop, timers, sequence, counters, ending, clock,
                   lag, queue, history>>

-----------------------------------------------------------------------------
HandleTick == TickIdle \/ TickElapsed

Process ==
    \/ LoopHead \/ LoopStop
    \/ HandleTick \/ HandleWatchdog \/ HandlePingTimeout \/ HandleScheduler
    \/ PollEnter \/ HandlePollEvents
    \/ ExitLoop

Environment == TimePasses \/ ReplyArrives \/ ForeignArrives \/ SignalRaised

Next == Process \/ Environment

Spec == Init /\ [][Next]_vars
\* Time passes, and the process takes every step it can: it is one thread that
\* never waits for anything but poll(), which returns when it is ready.
FairSpec == Spec /\ WF_vars(Process) /\ SF_vars(TimePasses)

-----------------------------------------------------------------------------
(* Properties.                                                             *)

Stages == {"head", "tick", "watchdog", "ping_timeout", "scheduler", "poll",
           "polling", "exiting", "exited"}

Pings == [waiting : BOOLEAN, send_time_ms : 0..MaxClock,
          deadline_ms : 0..(U64MAX - 1), expected_sequence : 0..SEQ_MAX]

Shutdowns == [pending : BOOLEAN, deadline_ms : 0..(U64MAX - 1)]

Metrics == [total_pings : Nat, successful_pings : Nat, failed_pings : Nat]

Packets == [ours : BOOLEAN, sequence : 0..SEQ_MAX, probe : Nat]

Probes == [sequence : 1..SEQ_MAX, left_ms : 0..MaxClock]

\* Every variable holds a value of its C type, and every time stays below the
\* overflow mark.
TypeOK ==
    /\ config \in Configs
    /\ clock \in 0..MaxClock /\ now_ms \in 0..MaxClock
    /\ wake_ms \in Nat /\ lag \in 0..MaxLag
    /\ pc \in Stages
    /\ ping \in Pings /\ shutdown \in Shutdowns
    /\ next_ping_ms \in 0..(U64MAX - 1)
    /\ last_sent_ms \in 0..MaxClock
    /\ sequence \in 0..SEQ_MAX
    /\ consecutive_fails \in Nat
    /\ metrics \in Metrics
    /\ stop_flag \in BOOLEAN
    /\ exit_code \in {0, 1}
    /\ killed_by \in {0, SIGINT, SIGUSR1, SIGTERM}
    /\ queue \in Seq(Packets)
    /\ signals \subseteq Signals
    /\ wire \in Seq(Probes)
    /\ answered \subseteq Nat
    /\ decisions \in Nat

\* The number of probes that were sent and are no longer outstanding.
Settled == Len(wire) - (IF ping.waiting THEN 1 ELSE 0)

\* The last fail_threshold probes settled all went unanswered.
Outage ==
    /\ Settled >= config.fail_threshold
    /\ \A p \in (Settled - config.fail_threshold + 1)..Settled :
           p \notin answered

\* A countdown runs only during an outage: no accepted reply, late or early,
\* leaves it running (handle_ping_success), and it never starts in log-only
\* mode or without a delay.
CountdownHasCause ==
    shutdown.pending =>
        Outage /\ config.shutdown_mode # "log-only" /\ config.delay_ms > 0

\* A shutdown is decided only during an outage, and never in log-only mode,
\* whichever of the two handlers that can decide it does.
DecisionHasCause ==
    decisions' # decisions => Outage' /\ config.shutdown_mode # "log-only"
ShutdownHasCause == [][DecisionHasCause]_vars

\* The first probe of the current run of missed probes.
FirstMissed == Settled - consecutive_fails + 1

\* A slot of the schedule may be served late and the next one on time, so only
\* fail_threshold - 2 whole intervals separate the first and the last miss.
ObservedOutage ==
    (IF config.fail_threshold > 2 THEN config.fail_threshold - 2 ELSE 0)
        * config.interval_ms + config.timeout_ms

\* How far one pass of the loop may fall behind the clock.
Late == MaxLag + CommandMax

\* The machine is never shut down sooner than the observed outage plus the
\* configured delay after the first probe that was missed really left, by the
\* clock and however often the command failed before; less the time the pass
\* that sent this probe may have lost before sending it, since deadlines count
\* from the reading at its head.  Nothing holds of a clock that cannot be read.
DecisionIsNotEarly ==
    decisions' # decisions /\ "clock" \notin Faults =>
        clock + Late >= wire[FirstMissed'].left_ms + ObservedOutage + config.delay_ms
NoEarlyShutdown == [][DecisionIsNotEarly]_vars

\* A countdown is neither extended nor restarted by further misses; it ends
\* when a reply is accepted or, once elapsed, with a decision, and an accepted
\* reply always ends it.
CountdownStep ==
    LET accepted == metrics'.successful_pings # metrics.successful_pings
    IN  /\ shutdown.pending /\ shutdown' # shutdown =>
               /\ ~shutdown'.pending
               /\ \/ accepted
                  \/ /\ now_ms >= shutdown.deadline_ms
                     /\ decisions' = decisions + 1
        /\ accepted => ~shutdown'.pending
CountdownHonoured == [][CountdownStep]_vars

\* What counts as a success is the first reply to the outstanding probe:
\* duplicates, replies to earlier probes that come late and replies whose
\* sequence number has wrapped around never do (icmp_pinger_receive_reply,
\* monitor_drain_icmp_replies).
AcceptsOwn ==
    metrics'.successful_pings # metrics.successful_pings =>
        /\ ping.waiting
        /\ Len(wire) \notin answered
        /\ answered' = answered \cup {Len(wire)}
OnlyOwnReply == [][AcceptsOwn]_vars

\* Every probe sent is counted exactly once, as answered or as missed, or is
\* still outstanding (metrics_record_success, metrics_record_failure).
ProbeAccounting ==
    exit_code = 0 =>
        /\ metrics.total_pings = Settled
        /\ metrics.successful_pings = Cardinality(answered)
        /\ metrics.failed_pings =
               metrics.total_pings - metrics.successful_pings

\* The loop never polls with timeout 0 because some work is already due: the
\* four handlers leave nothing due behind, except a watchdog notification that
\* could not be sent.
NoBusySpin ==
    pc = "poll" =>
        \/ wait_timeout_ms > 0
        \/ monitor_watchdog_due(now_ms, last_sent_ms,
                                config.watchdog_interval_ms)

Running == pc \notin {"exiting", "exited"}

\* How late a timer may be served: one pass to enter poll() with a stale
\* clock, one to leave it late.
Slack == 2 * Late

\* No armed timer is slept through: poll() is always given the nearest one.  (The
\* schedule of the probes is no such timer: a slot that passes while a probe is
\* outstanding is served when that probe is settled.)
TimersServed ==
    Running /\ "clock" \notin Faults =>
        /\ ping.waiting => clock <= ping.deadline_ms + Slack
        /\ shutdown.pending => clock <= shutdown.deadline_ms + Slack
        /\ config.watchdog_interval_ms > 0 /\ "notify" \notin Faults =>
               clock <= last_sent_ms + config.watchdog_interval_ms + Slack

\* Once a stop was requested the reactor probes, counts and decides nothing.
StopStep == stop_flag => UNCHANGED <<wire, answered, decisions, counters, timers>>
StopIsFinal == [][StopStep]_vars

\* The monitor, seen through the misses it counts, the countdown it runs and the
\* shutdowns it decides, follows the operator's policy step by step.
Policy == INSTANCE OutagePolicy
              WITH misses <- consecutive_fails, countdown <- shutdown.pending,
                   running <- Running
PolicySpec == Policy!Spec

\* SIGINT is served before any other signal, so a pending one always ends the
\* process, whatever else is pending, arrives or is due.
InterruptServed == SIGINT \in signals ~> pc = "exited"

\* SIGTERM waits behind SIGUSR1, one signal per wake-up; it ends the process
\* unless SIGUSR1 is raised again and again for ever.
TerminateServed ==
    <>[](SIGUSR1 \notin signals) =>
        (SIGTERM \in signals ~> pc = "exited")

\* A target that never answers again is acted upon: without an accepted reply
\* the shutdown is decided, unless the process ends first.
OutageActedOn ==
    config.shutdown_mode # "log-only" =>
        <>(answered # {} \/ decisions > 0 \/ pc = "exited")

\* A requested stop is graceful, as the README says of SIGTERM: the process
\* leaves by itself and is not killed by a signal that came in meanwhile
\* (signal_channel_destroy restores the mask with signals still pending).
GracefulStop == pc = "exited" /\ stop_flag => killed_by = 0

\* When the last probe left, by the clock.
LastLeft == wire[Len(wire)].left_ms

\* A probe is declared missed only after timeout_ms of real time since it was
\* sent, as the README says of the timeout ("the time a single ping waits for
\* its reply").
MissAfterTimeout ==
    metrics'.failed_pings # metrics.failed_pings =>
        clock >= LastLeft + config.timeout_ms
FullTimeout == [][MissAfterTimeout]_vars

\* What the reactor does guarantee while it can read its clock: the wait is
\* shortened by no more than the time the pass that sent the probe had lost
\* before sending it.
MissAfterShortenedTimeout ==
    metrics'.failed_pings # metrics.failed_pings /\ "clock" \notin Faults =>
        clock >= LastLeft + config.timeout_ms - Late
FairTimeout == [][MissAfterShortenedTimeout]_vars

-----------------------------------------------------------------------------
(* The inductive invariants.                                               *)

\* Nothing is accepted that was not sent: the packets of the buffer answer
\* probes on the wire, and no outstanding probe has been answered.
AnswersAreToProbes ==
    /\ \A i \in 1..Len(queue) : queue[i].probe <= Len(wire)
    /\ \A p \in answered : p <= Settled
    /\ Settled >= 0

\* The misses counted are the last probes settled, and a countdown keeps them.
MissesAreLast ==
    /\ consecutive_fails <= Settled
    /\ \A p \in FirstMissed..Settled : p \notin answered
    /\ shutdown.pending =>
           /\ consecutive_fails >= config.fail_threshold
           /\ config.shutdown_mode # "log-only"
           /\ config.delay_ms > 0

CauseInv == TypeOK /\ AnswersAreToProbes /\ MissesAreLast

\* The reading from which probe k was scheduled lies at most Late before it left.
SentAfter(k) == wire[k].left_ms - Late

\* The probes sent since probe k, but the one after it, each took an interval: so
\* much has passed when another one is sent, and the next slot keeps the distance.
ProbesAreSpaced ==
    /\ ping.waiting =>
           /\ ping.send_time_ms >= SentAfter(Len(wire))
           /\ \A k \in 1..(Len(wire) - 1) :
                  ping.send_time_ms >=
                      SentAfter(k) + (Len(wire) - 1 - k) * config.interval_ms
    /\ Running =>
           \A k \in 1..Len(wire) :
               next_ping_ms >= SentAfter(k) + (Len(wire) - k) * config.interval_ms

\* The deadlines armed lie where the last probe and the first miss put them.
DeadlinesAreDerived ==
    Running =>
        /\ ping.waiting =>
               wire # <<>> /\ ping.deadline_ms = ping.send_time_ms + config.timeout_ms
        /\ shutdown.pending =>
               shutdown.deadline_ms >=
                   SentAfter(FirstMissed) + ObservedOutage + config.delay_ms

TimingInv == CauseInv /\ ProbesAreSpaced /\ DeadlinesAreDerived

\* Each handler of a pass leaves its own timer beyond now_ms.
NothingLeftDue ==
    /\ pc \in {"watchdog", "ping_timeout", "scheduler", "poll"} =>
           (shutdown.pending => shutdown.deadline_ms > now_ms)
    /\ pc \in {"scheduler", "poll"} =>
           (ping.waiting => ping.deadline_ms > now_ms)
    /\ pc = "poll" => (~ping.waiting => next_ping_ms > now_ms)

\* Sequence numbers grow by one per probe and start again at 1 after SEQ_MAX,
\* so fewer than SEQ_MAX probes in a row carry different ones.
SequencesCount ==
    /\ \A j \in 1..Len(wire) : \A k \in 1..Len(wire) :
           j < k /\ k - j < SEQ_MAX =>
               \/ wire[k].sequence = wire[j].sequence + (k - j)
               \/ wire[k].sequence = wire[j].sequence + (k - j) - SEQ_MAX
    /\ Running => sequence = IF wire = <<>> THEN 0 ELSE wire[Len(wire)].sequence
    /\ ping.waiting =>
           wire # <<>> /\ ping.expected_sequence = wire[Len(wire)].sequence

\* A datagram with a sequence number answers the probe that carried it, and was
\* overtaken by few probes: it arrives MaxAge - 1 behind at most, and every
\* pass sends at most one probe and reads at least one datagram.
PacketsAreRecent ==
    \A i \in 1..Len(queue) :
        queue[i].sequence # 0 =>
            /\ queue[i].probe \in 1..Len(wire)
            /\ queue[i].sequence = wire[queue[i].probe].sequence
            /\ Running =>
                   Len(wire) - queue[i].probe + i
                       <= MaxAge - 1 + MaxQueue
                              + (IF pc \in {"poll", "polling"} THEN 1 ELSE 0)

ReplyInv ==
    CauseInv /\ SequencesCount /\ PacketsAreRecent /\ Len(queue) <= MaxQueue

AccountInv == ReplyInv /\ IsFiniteSet(answered) /\ ProbeAccounting

\* A stop is only ever pending at the head of the loop and after it.
StopIsNext == stop_flag => pc \in {"head", "exiting", "exited"}

\* The handlers of a pass work with a clock that at most one command and the
\* time lost outside poll() have made stale, and poll() sleeps to wake_ms.
ClockIsFresh ==
    /\ now_ms <= clock
    /\ pc = "tick" => clock <= now_ms + lag
    /\ pc \in {"watchdog", "ping_timeout"} /\ config.delay_ms = 0 =>
           clock <= now_ms + lag
    /\ pc \in {"watchdog", "ping_timeout", "scheduler", "poll"} =>
           clock <= now_ms + lag + CommandMax
    /\ pc = "polling" => clock <= wake_ms + lag

\* A deadline on its way to its handler, which a command may still hold up in
\* the stages before: poll() is left in time for it.
OnItsWay(deadline_ms, before) ==
    /\ pc \in {"head", "tick"} => clock <= deadline_ms + Late + lag
    /\ pc \in before => clock <= deadline_ms + Late + lag + CommandMax
    /\ pc = "polling" =>
           wake_ms <= deadline_ms + Late \/ deadline_ms >= MaxClock

TimersAreOnTheirWay ==
    /\ ping.waiting => OnItsWay(ping.deadline_ms, {"watchdog", "ping_timeout"})
    /\ shutdown.pending => OnItsWay(shutdown.deadline_ms, {})
    /\ config.watchdog_interval_ms > 0 /\ "notify" \notin Faults =>
           /\ OnItsWay(last_sent_ms + config.watchdog_interval_ms, {"watchdog"})
           /\ pc \in {"ping_timeout", "scheduler", "poll"} =>
                  last_sent_ms + config.watchdog_interval_ms > now_ms

LatenessInv ==
    CauseInv /\ NothingLeftDue /\ ClockIsFresh /\ TimersAreOnTheirWay

=============================================================================
