--------------------------- MODULE MonitorProofs ---------------------------
(* Proofs about the reactor for every configuration, bound and fault set.  *)
EXTENDS Monitor, FiniteSetTheorems, TLAPS

-----------------------------------------------------------------------------
(* Facts about the timer arithmetic.                                       *)

\* monitor_deadline_add_ms returns a time of the type, at least the base, and
\* exactly the sum unless it returns the overflow mark.
LEMMA DeadlineAdd ==
    ASSUME NEW base \in 0..U64MAX, NEW delta \in Nat
    PROVE  /\ monitor_deadline_add_ms(base, delta) \in 0..U64MAX
           /\ monitor_deadline_add_ms(base, delta) >= base
           /\ monitor_deadline_add_ms(base, delta) # U64MAX =>
                  monitor_deadline_add_ms(base, delta) = base + delta
  BY WidthAssumption DEF monitor_deadline_add_ms

\* monitor_deadline_timeout_ms returns a timeout poll() accepts.
LEMMA DeadlineTimeout ==
    ASSUME NEW now \in Nat, NEW deadline \in Nat
    PROVE  /\ monitor_deadline_timeout_ms(now, deadline) \in 0..INT_MAX
           /\ monitor_deadline_timeout_ms(now, deadline) = 0
                  <=> deadline <= now
  BY WidthAssumption DEF monitor_deadline_timeout_ms

\* The next slot lies one interval or more after the slot just served, and not
\* before the probe that served it, unless the addition overflowed.
LEMMA SchedulerAdvance ==
    ASSUME NEW slot \in 0..U64MAX, NEW interval \in Nat, NEW now \in 0..U64MAX,
           slot <= now,
           monitor_scheduler_advance(slot, interval, now) # U64MAX
    PROVE  /\ monitor_scheduler_advance(slot, interval, now) \in 0..(U64MAX - 1)
           /\ monitor_scheduler_advance(slot, interval, now) >= now
           /\ monitor_scheduler_advance(slot, interval, now) >= slot + interval
  BY WidthAssumption
  DEF monitor_scheduler_advance, monitor_deadline_add_ms

\* next_sequence never returns the sentinel 0.
LEMMA NextSequence ==
    ASSUME NEW s \in 0..SEQ_MAX
    PROVE  next_sequence(s) \in 1..SEQ_MAX
<1>1. CASE s = SEQ_MAX
  <2>1. (s + 1) % (SEQ_MAX + 1) = 0
    BY <1>1, WidthAssumption
  <2> QED BY <2>1, WidthAssumption DEF next_sequence
<1>2. CASE s < SEQ_MAX
  <2>1. (s + 1) % (SEQ_MAX + 1) = s + 1
    BY <1>2, WidthAssumption
  <2> QED BY <2>1, <1>2, WidthAssumption DEF next_sequence
<1> QED BY <1>1, <1>2, WidthAssumption

-----------------------------------------------------------------------------
(* Type correctness.                                                       *)

\* What config_validate guarantees of the configuration the reactor runs with.
LEMMA ConfigFacts ==
    ASSUME config \in Configs
    PROVE  /\ config.interval_ms \in Nat \ {0}
           /\ config.timeout_ms \in Nat \ {0}
           /\ config.fail_threshold \in Nat \ {0}
           /\ config.shutdown_mode \in Modes
           /\ config.delay_ms \in Nat
           /\ config.watchdog_interval_ms \in Nat
  BY ConfigAssumption DEF ValidConfig

\* The timeout computed before poll() is one that poll() accepts.
LEMMA WaitTimeout ==
    ASSUME TypeOK
    PROVE  wait_timeout_ms \in 0..INT_MAX
<1>1. /\ now_ms \in Nat /\ next_ping_ms \in Nat /\ last_sent_ms \in 0..U64MAX
      /\ ping.deadline_ms \in Nat /\ shutdown.deadline_ms \in Nat
  BY EnvironmentAssumption, WidthAssumption DEF TypeOK, Pings, Shutdowns
<1>2. config.watchdog_interval_ms \in Nat
  BY ConfigFacts DEF TypeOK
<1> DEFINE probe == monitor_deadline_timeout_ms(
                        now_ms,
                        IF ping.waiting THEN ping.deadline_ms ELSE next_ping_ms)
           countdown == monitor_timeout_min(
                            probe, ShutdownTimeout(now_ms, shutdown, probe))
<1>3. probe \in 0..INT_MAX
  BY <1>1, DeadlineTimeout
<1>4. countdown \in 0..INT_MAX
  <2>1. ShutdownTimeout(now_ms, shutdown, probe) \in 0..INT_MAX
    BY <1>1, <1>3, DeadlineTimeout DEF ShutdownTimeout
  <2> QED BY <2>1, <1>3 DEF monitor_timeout_min
<1>5. WatchdogTimeout(now_ms, last_sent_ms, config.watchdog_interval_ms,
                      countdown) \in 0..INT_MAX
  <2>1. monitor_deadline_add_ms(last_sent_ms, config.watchdog_interval_ms)
            \in Nat
    BY <1>1, <1>2, WidthAssumption DEF monitor_deadline_add_ms
  <2> HIDE DEF countdown
  <2>2. monitor_deadline_timeout_ms(
            now_ms, monitor_deadline_add_ms(last_sent_ms,
                                            config.watchdog_interval_ms))
            \in 0..INT_MAX
    BY <2>1, <1>1, DeadlineTimeout
  <2>3. INT_MAX \in 0..INT_MAX
    BY WidthAssumption
  <2> QED BY <2>2, <2>3, <1>4 DEF WatchdogTimeout
<1>6. wait_timeout_ms =
          monitor_timeout_min(
              countdown, WatchdogTimeout(now_ms, last_sent_ms,
                                         config.watchdog_interval_ms,
                                         countdown))
  BY DEF wait_timeout_ms, monitor_state_wait_timeout
<1> HIDE DEF countdown
<1> QED BY <1>4, <1>5, <1>6 DEF monitor_timeout_min

\* The signalfd hands out a signal that is pending.
LEMMA NextSignalPending ==
    ASSUME signals \subseteq Signals, signals # {}
    PROVE  NextSignal \in signals
<1>1. \A s \in signals : s \in {2, 10, 15}
  BY EnvironmentAssumption DEF SIGINT, SIGUSR1, SIGTERM
<1>2. \E s \in signals : \A t \in signals : s <= t
  <2>1. CASE 2 \in signals
    BY <2>1, <1>1
  <2>2. CASE 2 \notin signals /\ 10 \in signals
    BY <2>2, <1>1
  <2>3. CASE 2 \notin signals /\ 10 \notin signals
    BY <2>3, <1>1
  <2> QED BY <2>1, <2>2, <2>3
<1> QED BY <1>2 DEF NextSignal

\* The counters stay counters when a probe is recorded.
LEMMA MetricsRecord ==
    ASSUME NEW m \in Metrics
    PROVE  /\ [m EXCEPT !.total_pings = @ + 1, !.failed_pings = @ + 1]
                  \in Metrics
           /\ [m EXCEPT !.total_pings = @ + 1, !.successful_pings = @ + 1]
                  \in Metrics
<1>1. m.total_pings + 1 \in Nat /\ m.failed_pings + 1 \in Nat
      /\ m.successful_pings + 1 \in Nat
  BY DEF Metrics
<1>2. [m EXCEPT !.total_pings = @ + 1, !.failed_pings = @ + 1] \in Metrics
  BY <1>1, Zenon DEF Metrics
<1>3. [m EXCEPT !.total_pings = @ + 1, !.successful_pings = @ + 1] \in Metrics
  BY <1>1, Zenon DEF Metrics
<1> QED BY <1>2, <1>3

\* The datagrams of the buffer are packets.
LEMMA PacketFacts ==
    ASSUME NEW q \in Seq(Packets), NEW i \in 1..Len(q)
    PROVE  q[i].probe \in Nat
<1>1. q[i] \in Packets
  OBVIOUS
<1> QED BY <1>1 DEF Packets

\* A reply carries the sequence number of the probe it answers.
LEMMA ReplyIsPacket ==
    ASSUME NEW w \in Seq(Probes), NEW p \in 1..Len(w)
    PROVE  [ours |-> TRUE, sequence |-> w[p].sequence, probe |-> p] \in Packets
<1>1. w[p] \in Probes
  OBVIOUS
<1>2. w[p].sequence \in 0..SEQ_MAX
  BY <1>1, WidthAssumption DEF Probes
<1>3. p \in Nat
  OBVIOUS
<1> QED BY <1>2, <1>3 DEF Packets

\* Every step keeps the types.
LEMMA TypeStep == TypeOK /\ [Next]_vars => TypeOK'
<1> SUFFICES ASSUME TypeOK, [Next]_vars PROVE TypeOK'
  OBVIOUS
<1> USE DEF TypeOK, Stages
<1>a. MaxClock \in Nat /\ MaxClock < U64MAX /\ U64MAX \in Nat
      /\ MaxLag \in Nat /\ SEQ_MAX \in Nat
  BY WidthAssumption, EnvironmentAssumption
<1>b. NoPing \in Pings /\ NoShutdown \in Shutdowns
  BY <1>a DEF NoPing, Pings, NoShutdown, Shutdowns
<1>1. CASE LoopHead
  BY <1>1 DEF LoopHead, monitor_refresh_time, timers, counters, ending,
              environment, history
<1>2. CASE LoopStop
  BY <1>2 DEF LoopStop, timers, counters, ending, environment, history
<1>3. CASE TickIdle
  BY <1>3 DEF TickIdle, timers, counters, ending, environment, history
<1>4. CASE TickElapsed
  BY <1>4, <1>a, <1>b DEF TickElapsed, shutdown_fsm_execute,
                          monitor_shutdown_clear, counters, ending
<1>5. CASE HandleWatchdog
  BY <1>5 DEF HandleWatchdog, counters, ending, environment, history
<1>6. CASE HandlePingTimeout
  <2>1. CASE TimeoutIdle
    BY <2>1 DEF TimeoutIdle, timers, counters, ending, environment, history
  <2>2. ProbeMissed =>
            /\ ping' \in Pings
            /\ metrics' \in Metrics
            /\ UNCHANGED <<config, now_ms, wake_ms, next_ping_ms,
                           last_sent_ms, sequence, stop_flag, exit_code,
                           killed_by, lag, queue, signals, wire,
                           answered>>
    BY <1>b, MetricsRecord DEF ProbeMissed, monitor_ping_clear, ending
  <2>8. missed \in Nat
    BY DEF missed
  <2>3. CASE MissBelowThreshold
    BY <2>2, <2>3, <2>8 DEF MissBelowThreshold
  <2>4. CASE MissLogOnly
    BY <2>2, <2>4 DEF MissLogOnly
  <2>5. CASE MissExecute
    <3>1. shutdown_fsm_execute("scheduler") =>
              /\ clock' \in 0..MaxClock
              /\ decisions' \in Nat
              /\ pc' \in {"exiting", "scheduler"}
      BY <1>a, EnvironmentAssumption DEF shutdown_fsm_execute
    <3> QED BY <2>2, <2>5, <2>8, <3>1 DEF MissExecute
  <2>6. CASE MissWhilePending
    BY <2>2, <2>6, <2>8 DEF MissWhilePending
  <2>7. CASE MissArmCountdown
    <3>1. config.delay_ms \in Nat
      BY ConfigFacts
    <3>2. countdown_deadline_ms # U64MAX =>
              countdown_deadline_ms \in 0..(U64MAX - 1)
      <4>1. now_ms \in Nat /\ U64MAX \in Nat
        BY <1>a
      <4> QED BY <3>1, <4>1 DEF countdown_deadline_ms, monitor_deadline_add_ms
    <3>3. shutdown' \in Shutdowns
      <4>1. CASE countdown_deadline_ms = U64MAX
        <5>1. shutdown' = shutdown
          BY <2>7, <4>1 DEF MissArmCountdown
        <5> QED BY <5>1, <1>b
      <4>2. CASE countdown_deadline_ms # U64MAX
        <5>1. [pending |-> TRUE, deadline_ms |-> countdown_deadline_ms]
                  \in Shutdowns
          BY <3>2, <4>2 DEF Shutdowns
        <5> QED BY <2>7, <4>2, <5>1 DEF MissArmCountdown
      <4> QED BY <4>1, <4>2
    <3>4. consecutive_fails' \in Nat
      BY <2>7, <2>8 DEF MissArmCountdown
    <3>5. /\ ProbeMissed /\ pc' = "scheduler"
          /\ UNCHANGED <<clock, decisions>>
      BY <2>7 DEF MissArmCountdown
    <3> QED BY <2>2, <3>3, <3>4, <3>5
  <2> QED BY <1>6, <2>1, <2>3, <2>4, <2>5, <2>6, <2>7 DEF HandlePingTimeout
<1>7. CASE HandleScheduler
  <2>1. CASE SchedulerIdle
    BY <2>1 DEF SchedulerIdle, timers, counters, ending, environment, history
  <2>2. next_sequence(sequence) \in 1..SEQ_MAX
    BY NextSequence
  <2>3. CASE SendFailed
    BY <2>2, <2>3 DEF SendFailed, timers, counters, environment, history
  <2>4. CASE SendProbe
    <3> DEFINE deadline_ms == monitor_deadline_add_ms(now_ms,
                                                      config.timeout_ms)
               slot_ms == monitor_scheduler_advance(
                              next_ping_ms, config.interval_ms, now_ms)
    <3>1. deadline_ms # U64MAX => deadline_ms \in 0..(U64MAX - 1)
      BY ConfigFacts, <1>a DEF monitor_deadline_add_ms
    <3>2. slot_ms # U64MAX => slot_ms \in 0..(U64MAX - 1)
      <4>1. next_ping_ms <= now_ms
        BY <2>4, <1>a DEF SendProbe, scheduler_due
      <4>2. next_ping_ms \in 0..U64MAX /\ now_ms \in 0..U64MAX
        BY <1>a
      <4> QED BY ConfigFacts, <4>1, <4>2, SchedulerAdvance
    <3>3. /\ sequence' = next_sequence(sequence)
          /\ wire' = Append(wire, [sequence |-> sequence',
                                   left_ms |-> clock])
          /\ ping' = IF deadline_ms # U64MAX
                     THEN [waiting |-> TRUE, send_time_ms |-> now_ms,
                           deadline_ms |-> deadline_ms,
                           expected_sequence |-> sequence']
                     ELSE ping
          /\ next_ping_ms' = next_ping_ms \/
                 (slot_ms # U64MAX /\ next_ping_ms' = slot_ms)
          /\ exit_code' \in {0, 1} /\ pc' \in {"poll", "exiting"}
          /\ UNCHANGED <<config, now_ms, wake_ms, shutdown, last_sent_ms,
                         counters, stop_flag, killed_by, environment,
                         answered, decisions>>
      BY <2>4 DEF SendProbe
    <3> HIDE DEF deadline_ms, slot_ms
    <3>4. ping' \in Pings
      BY <2>2, <3>1, <3>3, <1>a DEF Pings
    <3>5. wire' \in Seq(Probes)
      <4>1. [sequence |-> sequence', left_ms |-> clock] \in Probes
        BY <2>2, <3>3 DEF Probes
      <4> QED BY <3>3, <4>1
    <3> QED BY <2>2, <3>2, <3>3, <3>4, <3>5 DEF counters, environment
  <2> QED BY <1>7, <2>1, <2>3, <2>4 DEF HandleScheduler
<1>8. CASE PollEnter
  BY <1>8, <1>a, WaitTimeout DEF PollEnter, timers, counters, ending, history
<1>9. CASE HandlePollEvents
  <2>1. CASE PollFailed
    BY <2>1 DEF PollFailed, monitor_refresh_time, timers, counters,
                environment, history
  <2>2. PollWoken =>
            /\ now_ms' \in 0..MaxClock /\ wake_ms' = 0
            /\ signals' \subseteq Signals /\ stop_flag' \in BOOLEAN
            /\ UNCHANGED <<config, next_ping_ms, last_sent_ms, sequence,
                           killed_by, clock, lag, wire, decisions>>
    BY DEF PollWoken, monitor_refresh_time, monitor_handle_signal
  <2>3. ASSUME NEW k \in Nat \ {0}
        PROVE  SubSeq(queue, k, Len(queue)) \in Seq(Packets)
    OBVIOUS
  <2>4. drain_limit \in Nat /\ drain_limit <= Len(queue)
    BY EnvironmentAssumption DEF drain_limit
  <2>6. ASSUME NEW i \in 1..drain_limit, ReplyAccepted(i) PROVE TypeOK'
    <3>1. queue[i].probe \in Nat
      <4>1. i \in 1..Len(queue)
        BY <2>4
      <4> QED BY <4>1, PacketFacts
    <3>2. queue' \in Seq(Packets)
      BY <2>3, <2>4, <2>6 DEF ReplyAccepted
    <3>3. shutdown' \in Shutdowns
      BY <2>6, <1>b DEF ReplyAccepted, handle_ping_success,
                        monitor_shutdown_clear
    <3>4. metrics' \in Metrics
      BY <2>6, MetricsRecord DEF ReplyAccepted, handle_ping_success,
                                 RecordSuccess
    <3>5. answered' \subseteq Nat
      BY <2>6, <3>1 DEF ReplyAccepted
    <3>6. /\ PollWoken /\ ping' = NoPing /\ consecutive_fails' = 0
          /\ pc' = "head" /\ exit_code' = exit_code
      BY <2>6 DEF ReplyAccepted, handle_ping_success, monitor_ping_clear
    <3> QED BY <2>2, <1>b, <3>2, <3>3, <3>4, <3>5, <3>6
  <2>7. CASE NothingAccepted
    <3>1. queue' \in Seq(Packets)
      BY <2>3, <2>4, <2>7 DEF NothingAccepted
    <3> QED BY <2>2, <2>7, <3>1 DEF NothingAccepted, counters
  <2>8. CASE ReceiveFailed
    BY <2>2, <1>b, <2>8 DEF ReceiveFailed, monitor_ping_clear, counters
  <2> QED BY <1>9, <2>1, <2>6, <2>7, <2>8 DEF HandlePollEvents
<1>10. CASE ExitLoop
  <2>1. signals # {} => NextSignal \in {SIGINT, SIGUSR1, SIGTERM}
    BY NextSignalPending, EnvironmentAssumption
  <2> QED BY <1>10, <2>1 DEF ExitLoop, timers, counters, environment, history
<1>11. CASE TimePasses
  BY <1>11, <1>a DEF TimePasses, loop, timers, counters, ending, history
<1>12. CASE ReplyArrives
  <2>1. PICK p \in 1..Len(wire) :
            Deliver([ours |-> TRUE, sequence |-> wire[p].sequence,
                     probe |-> p])
    BY <1>12 DEF ReplyArrives
  <2>2. [ours |-> TRUE, sequence |-> wire[p].sequence, probe |-> p]
            \in Packets
    BY ReplyIsPacket
  <2>3. queue' \in Seq(Packets)
    BY <2>1, <2>2 DEF Deliver
  <2> QED BY <2>1, <2>3 DEF Deliver, loop, timers, counters, ending, history
<1>13. CASE ForeignArrives
  <2>1. PICK packet \in [ours : BOOLEAN, sequence : {0}, probe : {0}] :
            Deliver(packet)
    BY <1>13 DEF ForeignArrives
  <2>2. packet \in Packets
    BY <1>a DEF Packets
  <2>3. queue' \in Seq(Packets)
    BY <2>1, <2>2 DEF Deliver
  <2> QED BY <2>1, <2>3 DEF Deliver, loop, timers, counters, ending, history
<1>14. CASE SignalRaised
  BY <1>14 DEF SignalRaised, loop, timers, counters, ending, history
<1>15. CASE UNCHANGED vars
  BY <1>15 DEF vars, loop, timers, counters, ending, environment, history
<1> QED
  BY <1>1, <1>2, <1>3, <1>4, <1>5, <1>6, <1>7, <1>8, <1>9, <1>10, <1>11,
     <1>12, <1>13, <1>14, <1>15
  DEF Next, Process, Environment, HandleTick

\* The reactor starts well typed.
LEMMA TypeInit == Init => TypeOK
<1> SUFFICES ASSUME Init PROVE TypeOK
  OBVIOUS
<1>1. 0 \in 0..MaxClock /\ 0 \in 0..(U64MAX - 1) /\ 0 \in 0..SEQ_MAX
      /\ 0 \in 0..MaxLag
  BY WidthAssumption, EnvironmentAssumption
<1>2. ping \in Pings
  BY <1>1 DEF Init, NoPing, Pings
<1>3. shutdown \in Shutdowns
  BY <1>1 DEF Init, NoShutdown, Shutdowns
<1>4. metrics \in Metrics
  BY DEF Init, Metrics
<1>5. queue \in Seq(Packets)
      /\ wire \in Seq(Probes)
  BY DEF Init
<1> QED BY <1>1, <1>2, <1>3, <1>4, <1>5 DEF Init, TypeOK, Stages

\* Every reachable state of the reactor is well typed; in particular no timer
\* ever holds the overflow mark.
THEOREM TypeCorrect == Spec => []TypeOK
  BY TypeInit, TypeStep, PTL DEF Spec

-----------------------------------------------------------------------------
(* Every shutdown has a cause.                                             *)

\* What the cause of a shutdown depends on.
outage == <<config, ping, shutdown, consecutive_fails, queue, wire, answered>>

\* The steps that leave all of it alone.
QuietStep ==
    \/ LoopHead \/ LoopStop \/ TickIdle \/ HandleWatchdog \/ TimeoutIdle
    \/ SchedulerIdle \/ SendFailed \/ PollEnter \/ PollFailed \/ ExitLoop
    \/ TimePasses \/ SignalRaised \/ UNCHANGED vars

\* A quiet step leaves what the outage is judged by alone.
LEMMA QuietFrame == QuietStep => UNCHANGED <<outage, decisions>>
  BY DEF QuietStep, outage, LoopHead, LoopStop, TickIdle, HandleWatchdog,
         TimeoutIdle, SchedulerIdle, SendFailed, PollEnter, PollFailed,
         ExitLoop, TimePasses, SignalRaised, vars, loop, timers, counters,
         ending, environment, history

\* The steps that do not.
BusyStep ==
    \/ TickElapsed
    \/ MissBelowThreshold \/ MissLogOnly \/ MissExecute \/ MissWhilePending
    \/ MissArmCountdown
    \/ SendProbe
    \/ \E i \in 1..drain_limit : ReplyAccepted(i)
    \/ NothingAccepted \/ ReceiveFailed
    \/ ReplyArrives \/ ForeignArrives

\* Every step of the reactor or of its environment is quiet or busy.
LEMMA StepKinds == [Next]_vars => QuietStep \/ BusyStep
  BY DEF Next, Process, Environment, HandleTick, HandlePingTimeout,
         HandleScheduler, HandlePollEvents, QuietStep, BusyStep

\* A missed probe joins the run of misses that ends the wire.
LEMMA MissExtends ==
    ASSUME CauseInv, ProbeMissed
    PROVE  /\ Settled \in Nat /\ Settled' = Settled + 1
           /\ Len(wire) = Settled + 1
           /\ UNCHANGED <<config, queue, wire, answered>>
           /\ ~ping'.waiting
           /\ missed \in Nat
           /\ missed = consecutive_fails + 1
           /\ missed <= Settled'
           /\ \A p \in (Settled' - missed + 1)..Settled' : p \notin answered
           /\ AnswersAreToProbes'
<1>1. /\ ping.waiting /\ ~ping'.waiting
      /\ UNCHANGED <<config, queue, wire, answered>>
  BY DEF ProbeMissed, ping_deadline_elapsed, monitor_ping_clear, NoPing
<1>2. Len(wire) \in Nat /\ consecutive_fails \in Nat /\ answered \subseteq Nat
  BY DEF CauseInv, TypeOK
<1>3. Settled = Len(wire) - 1 /\ Settled' = Len(wire)
  BY <1>1 DEF Settled
<1>4. Settled \in Nat
  BY <1>2, <1>3 DEF CauseInv, AnswersAreToProbes
<1>5. missed = consecutive_fails + 1 /\ missed <= Settled'
  BY <1>2, <1>3 DEF missed, CauseInv, MissesAreLast
<1>6. \A p \in (Settled' - missed + 1)..Settled' : p \notin answered
  <2> SUFFICES ASSUME NEW p \in (Settled' - missed + 1)..Settled'
               PROVE  p \notin answered
    OBVIOUS
  <2>1. CASE p = Len(wire)
    BY <2>1, <1>2, <1>3 DEF CauseInv, AnswersAreToProbes
  <2>2. CASE p # Len(wire)
    <3>1. p \in FirstMissed..Settled
      BY <2>2, <1>2, <1>3, <1>5 DEF FirstMissed
    <3> QED BY <3>1 DEF CauseInv, MissesAreLast
  <2> QED BY <2>1, <2>2
<1>7. AnswersAreToProbes'
  <2>1. \A i \in 1..Len(queue') : queue'[i].probe <= Len(wire')
    BY <1>1 DEF CauseInv, AnswersAreToProbes
  <2>2. \A p \in answered' : p <= Settled'
    BY <1>1, <1>2, <1>3 DEF CauseInv, AnswersAreToProbes
  <2> QED BY <2>1, <2>2, <1>2, <1>3 DEF AnswersAreToProbes
<1> QED BY <1>1, <1>2, <1>3, <1>4, <1>5, <1>6, <1>7

\* A wake-up of poll() only takes datagrams away from the front.
LEMMA DrainKeeps ==
    ASSUME CauseInv, NEW k \in Nat \ {0}, queue' = SubSeq(queue, k, Len(queue)),
           wire' = wire
    PROVE  \A i \in 1..Len(queue') : queue'[i].probe <= Len(wire')
<1> SUFFICES ASSUME NEW i \in 1..Len(queue')
             PROVE  queue'[i].probe <= Len(wire')
  OBVIOUS
<1>1. queue \in Seq(Packets)
  BY DEF CauseInv, TypeOK
<1>2. queue'[i] = queue[k + i - 1] /\ k + i - 1 \in 1..Len(queue)
  BY <1>1
<1> QED BY <1>2 DEF CauseInv, AnswersAreToProbes

\* A datagram that answers a probe on the wire, or none, may join the buffer.
LEMMA DeliverKeeps ==
    ASSUME CauseInv, NEW packet \in Packets, packet.probe <= Len(wire),
           Deliver(packet)
    PROVE  /\ \A i \in 1..Len(queue') : queue'[i].probe <= Len(wire')
           /\ UNCHANGED <<config, ping, shutdown, consecutive_fails, wire,
                          answered, decisions>>
<1>1. /\ queue' = Append(queue, packet)
      /\ UNCHANGED <<config, ping, shutdown, consecutive_fails, wire, answered,
                     decisions>>
  BY DEF Deliver, timers, counters, history
<1>2. queue \in Seq(Packets)
  BY DEF CauseInv, TypeOK
<1> SUFFICES ASSUME NEW i \in 1..Len(queue')
             PROVE  queue'[i].probe <= Len(wire')
  BY <1>1
<1>3. CASE i = Len(queue) + 1
  BY <1>1, <1>2, <1>3
<1>4. CASE i # Len(queue) + 1
  <2>1. i \in 1..Len(queue) /\ queue'[i] = queue[i]
    BY <1>1, <1>2, <1>4
  <2> QED BY <1>1, <2>1 DEF CauseInv, AnswersAreToProbes
<1> QED BY <1>3, <1>4

\* The number of settled probes is a natural number.
LEMMA SettledFacts ==
    ASSUME CauseInv
    PROVE  /\ Settled \in Nat /\ Len(wire) \in Nat /\ consecutive_fails \in Nat
           /\ ping.waiting => Len(wire) = Settled + 1
           /\ ~ping.waiting => Len(wire) = Settled
           /\ answered \subseteq Nat
           /\ config.fail_threshold \in Nat \ {0}
           /\ config.delay_ms \in Nat
<1>1. /\ Len(wire) \in Nat /\ consecutive_fails \in Nat /\ answered \subseteq Nat
      /\ config \in Configs
  BY DEF CauseInv, TypeOK
<1> QED BY <1>1, ConfigFacts DEF CauseInv, AnswersAreToProbes, Settled

\* Probes that settle without being answered may be added to the run of misses
\* in place of older ones: when the count stands still the run moves up.
LEMMA RunMovesUp ==
    ASSUME CauseInv, NEW n \in Nat, n = Settled \/ n = Settled + 1
    PROVE  /\ consecutive_fails <= n
           /\ \A p \in (n - consecutive_fails + 1)..n : p \notin answered
<1>1. consecutive_fails <= n
  BY SettledFacts DEF CauseInv, MissesAreLast
<1>2. ASSUME NEW p \in (n - consecutive_fails + 1)..n PROVE p \notin answered
  <2>1. CASE p <= Settled
    <3>1. p \in FirstMissed..Settled
      BY <2>1, SettledFacts DEF FirstMissed
    <3> QED BY <3>1 DEF CauseInv, MissesAreLast
  <2>2. CASE p > Settled
    BY <2>2, SettledFacts DEF CauseInv, AnswersAreToProbes
  <2> QED BY <2>1, <2>2, SettledFacts
<1> QED BY <1>1, <1>2

\* The cause of a shutdown is kept by every step.
LEMMA CauseStep == CauseInv /\ [Next]_vars => CauseInv'
<1> SUFFICES ASSUME CauseInv, [Next]_vars
             PROVE  AnswersAreToProbes' /\ MissesAreLast'
  BY TypeStep DEF CauseInv
<1>a. /\ Settled \in Nat /\ Len(wire) \in Nat /\ consecutive_fails \in Nat
      /\ ping.waiting => Len(wire) = Settled + 1
      /\ ~ping.waiting => Len(wire) = Settled
      /\ answered \subseteq Nat
      /\ config.fail_threshold \in Nat \ {0} /\ config.delay_ms \in Nat
  BY SettledFacts
<1>b. AnswersAreToProbes /\ MissesAreLast
  BY DEF CauseInv
<1>1. CASE QuietStep
  BY <1>1, <1>b, QuietFrame
  DEF outage, AnswersAreToProbes, MissesAreLast, FirstMissed, Settled
<1>2. CASE TickElapsed
  <2>1. /\ UNCHANGED <<config, ping, consecutive_fails, queue, wire, answered>>
        /\ ~shutdown'.pending
    BY <1>2 DEF TickElapsed, monitor_shutdown_clear, NoShutdown, counters
  <2> QED BY <2>1, <1>b
          DEF AnswersAreToProbes, MissesAreLast, FirstMissed, Settled
<1>3. ASSUME ProbeMissed, consecutive_fails' = 0, UNCHANGED shutdown,
             ~shutdown.pending
      PROVE  AnswersAreToProbes' /\ MissesAreLast'
  BY <1>3, MissExtends DEF MissesAreLast, FirstMissed
<1>4. ASSUME ProbeMissed, consecutive_fails' = missed,
             shutdown'.pending =>
                 /\ missed >= config.fail_threshold
                 /\ config.shutdown_mode # "log-only"
                 /\ config.delay_ms > 0
      PROVE  AnswersAreToProbes' /\ MissesAreLast'
  BY <1>4, MissExtends DEF MissesAreLast, FirstMissed
<1>5. CASE MissBelowThreshold
  <2>1. ~shutdown.pending
    BY <1>5, <1>a, <1>b DEF MissBelowThreshold, missed, MissesAreLast
  <2> QED BY <2>1, <1>4, <1>5 DEF MissBelowThreshold
<1>6. CASE MissLogOnly
  BY <1>3, <1>6, <1>b DEF MissLogOnly, MissesAreLast
<1>7. CASE MissExecute
  BY <1>4, <1>7, <1>b DEF MissExecute, MissesAreLast
<1>8. CASE MissWhilePending
  BY <1>4, <1>8 DEF MissWhilePending
<1>9. CASE MissArmCountdown
  BY <1>3, <1>4, <1>9 DEF MissArmCountdown
<1>10. CASE SendProbe
  <2>1. /\ UNCHANGED <<config, shutdown, consecutive_fails, queue, answered>>
        /\ Len(wire') = Len(wire) + 1
        /\ ~ping.waiting
        /\ ping'.waiting \/ ping' = ping
    BY <1>10 DEF SendProbe, scheduler_due, counters, environment, CauseInv,
                 TypeOK
  <2>2. Settled' = Settled \/ Settled' = Settled + 1
    BY <2>1, <1>a DEF Settled
  <2>3. Settled' \in Nat
    BY <2>2, <1>a
  <2>4. /\ consecutive_fails <= Settled'
        /\ \A p \in (Settled' - consecutive_fails + 1)..Settled' :
               p \notin answered
    BY <2>2, <2>3, RunMovesUp
  <2>5. AnswersAreToProbes'
    <3>1. \A i \in 1..Len(queue') : queue'[i].probe <= Len(wire')
      <4> SUFFICES ASSUME NEW i \in 1..Len(queue)
                   PROVE  queue[i].probe <= Len(wire) + 1
        BY <2>1
      <4>1. queue[i].probe \in Nat
        BY PacketFacts DEF CauseInv, TypeOK
      <4> QED BY <4>1, <1>a, <1>b DEF AnswersAreToProbes
    <3>2. \A p \in answered' : p <= Settled'
      BY <2>1, <2>2, <1>a, <1>b DEF AnswersAreToProbes
    <3> QED BY <3>1, <3>2, <2>3 DEF AnswersAreToProbes
  <2> QED BY <2>1, <2>4, <2>5, <1>b DEF MissesAreLast, FirstMissed
<1>11. ASSUME NEW i \in 1..drain_limit, ReplyAccepted(i)
       PROVE  AnswersAreToProbes' /\ MissesAreLast'
  <2>1. /\ ping.waiting /\ ~ping'.waiting
        /\ UNCHANGED <<config, wire>>
        /\ consecutive_fails' = 0 /\ ~shutdown'.pending
        /\ answered' = answered \cup {queue[i].probe}
        /\ queue' = SubSeq(queue, i + 1, Len(queue))
    BY <1>11 DEF ReplyAccepted, PollWoken, AcceptedAt, handle_ping_success,
                 monitor_ping_clear, monitor_shutdown_clear, NoPing,
                 NoShutdown
  <2>2. i \in 1..Len(queue)
    <3>1. queue \in Seq(Packets)
      BY DEF CauseInv, TypeOK
    <3> QED BY <3>1, EnvironmentAssumption DEF drain_limit
  <2>3. Settled' = Len(wire)
    BY <2>1 DEF Settled
  <2>4. \A p \in answered' : p <= Settled'
    BY <2>1, <2>2, <2>3, <1>a, <1>b DEF AnswersAreToProbes
  <2>5. \A j \in 1..Len(queue') : queue'[j].probe <= Len(wire')
    <3>1. i + 1 \in Nat \ {0}
      OBVIOUS
    <3> QED BY <2>1, <3>1, DrainKeeps
  <2>6. AnswersAreToProbes'
    BY <2>3, <2>4, <2>5, <1>a DEF AnswersAreToProbes
  <2>7. MissesAreLast'
    BY <2>1, <2>3, <1>a DEF MissesAreLast, FirstMissed
  <2> QED BY <2>6, <2>7
<1>12. CASE NothingAccepted
  <2>1. /\ UNCHANGED <<config, ping, shutdown, consecutive_fails, wire, answered>>
        /\ queue' = SubSeq(queue, drain_limit + 1, Len(queue))
    BY <1>12 DEF NothingAccepted, PollWoken, counters
  <2>2. \A j \in 1..Len(queue') : queue'[j].probe <= Len(wire')
    <3>1. drain_limit + 1 \in Nat \ {0}
      BY EnvironmentAssumption DEF drain_limit, CauseInv, TypeOK
    <3> QED BY <2>1, <3>1, DrainKeeps
  <2> QED BY <2>1, <2>2, <1>b
          DEF AnswersAreToProbes, MissesAreLast, FirstMissed, Settled
<1>13. CASE ReceiveFailed
  <2>1. /\ UNCHANGED <<config, shutdown, consecutive_fails, queue, wire, answered>>
        /\ ~ping'.waiting
    BY <1>13 DEF ReceiveFailed, PollWoken, monitor_ping_clear, NoPing, counters
  <2>2. Settled' = Len(wire) /\ (Settled' = Settled \/ Settled' = Settled + 1)
    BY <2>1, <1>a DEF Settled
  <2>3. /\ consecutive_fails <= Settled'
        /\ \A p \in (Settled' - consecutive_fails + 1)..Settled' :
               p \notin answered
    BY <2>2, <1>a, RunMovesUp
  <2>4. AnswersAreToProbes'
    BY <2>1, <2>2, <1>a, <1>b DEF AnswersAreToProbes
  <2> QED BY <2>1, <2>3, <2>4, <1>b DEF MissesAreLast, FirstMissed
<1>14. CASE ReplyArrives
  <2>1. PICK p \in 1..Len(wire) :
            Deliver([ours |-> TRUE, sequence |-> wire[p].sequence,
                     probe |-> p])
    BY <1>14 DEF ReplyArrives
  <2>2. [ours |-> TRUE, sequence |-> wire[p].sequence, probe |-> p]
            \in Packets
    BY ReplyIsPacket DEF CauseInv, TypeOK
  <2>3. /\ \A i \in 1..Len(queue') : queue'[i].probe <= Len(wire')
        /\ UNCHANGED <<config, ping, shutdown, consecutive_fails, wire,
                       answered>>
    BY <2>1, <2>2, DeliverKeeps
  <2> QED BY <2>3, <1>b
          DEF AnswersAreToProbes, MissesAreLast, FirstMissed, Settled
<1>15. CASE ForeignArrives
  <2>1. PICK packet \in [ours : BOOLEAN, sequence : {0}, probe : {0}] :
            Deliver(packet)
    BY <1>15 DEF ForeignArrives
  <2>2. packet \in Packets /\ packet.probe = 0
    BY WidthAssumption DEF Packets
  <2>3. /\ \A i \in 1..Len(queue') : queue'[i].probe <= Len(wire')
        /\ UNCHANGED <<config, ping, shutdown, consecutive_fails, wire,
                       answered>>
    BY <2>1, <2>2, <1>a, DeliverKeeps
  <2> QED BY <2>3, <1>b
          DEF AnswersAreToProbes, MissesAreLast, FirstMissed, Settled
<1> QED
  BY <1>1, <1>2, <1>5, <1>6, <1>7, <1>8, <1>9, <1>10, <1>11, <1>12, <1>13,
     <1>14, <1>15, StepKinds DEF BusyStep

\* The invariant holds of the states the reactor starts in.
LEMMA CauseInit == Init => CauseInv
<1> SUFFICES ASSUME Init PROVE AnswersAreToProbes /\ MissesAreLast
  BY TypeInit DEF CauseInv
<1>1. /\ Len(wire) = 0 /\ Len(queue) = 0 /\ ~ping.waiting /\ ~shutdown.pending
      /\ consecutive_fails = 0 /\ answered = {}
  BY DEF Init, NoPing, NoShutdown
<1> QED BY <1>1 DEF AnswersAreToProbes, MissesAreLast, Settled, FirstMissed

\* What causes a shutdown is an invariant of the reactor.
LEMMA CauseInvariant == Spec => []CauseInv
  BY CauseInit, CauseStep, PTL DEF Spec

\* As many misses in a row as the threshold asks for are an outage.
LEMMA MissesMakeOutage ==
    ASSUME CauseInv, consecutive_fails >= config.fail_threshold
    PROVE  Outage
<1>1. Settled \in Nat /\ consecutive_fails \in Nat
      /\ config.fail_threshold \in Nat \ {0}
  BY SettledFacts
<1>2. Settled >= config.fail_threshold
  BY <1>1 DEF CauseInv, MissesAreLast
<1>3. ASSUME NEW p \in (Settled - config.fail_threshold + 1)..Settled
      PROVE  p \notin answered
  <2>1. p \in FirstMissed..Settled
    BY <1>1 DEF FirstMissed
  <2> QED BY <2>1 DEF CauseInv, MissesAreLast
<1> QED BY <1>2, <1>3 DEF Outage

\* A countdown never runs without an outage: for every configuration, every
\* schedule of late, duplicated or lost replies and every fault, the last
\* fail_threshold settled probes are unanswered while one is pending.
THEOREM CountdownCause == Spec => []CountdownHasCause
<1>1. CauseInv => CountdownHasCause
  BY MissesMakeOutage DEF CauseInv, MissesAreLast, CountdownHasCause
<1> QED BY <1>1, CauseInvariant, PTL

\* The steps that decide a shutdown, and what they find.
LEMMA DecisionSteps ==
    ASSUME CauseInv, [Next]_vars, decisions' # decisions
    PROVE  /\ TickElapsed \/ MissExecute
           /\ consecutive_fails' >= config'.fail_threshold
           /\ config' = config
           /\ config.shutdown_mode # "log-only"
<1>1. TickElapsed \/ MissExecute
  <2>1. ~QuietStep
    BY QuietFrame
  <2>2. BusyStep => TickElapsed \/ MissExecute
    BY DEF BusyStep, MissBelowThreshold, MissLogOnly, MissWhilePending,
           MissArmCountdown, SendProbe, ReplyAccepted, NothingAccepted,
           ReceiveFailed, PollWoken, ReplyArrives, ForeignArrives, Deliver,
           history
  <2> QED BY <2>1, <2>2, StepKinds
<1>2. CASE TickElapsed
  <2>1. shutdown.pending /\ UNCHANGED <<config, consecutive_fails>>
    BY <1>2 DEF TickElapsed, shutdown_deadline_elapsed, counters
  <2> QED BY <1>1, <2>1 DEF CauseInv, MissesAreLast
<1>3. CASE MissExecute
  BY <1>1, <1>3 DEF MissExecute, ProbeMissed
<1> QED BY <1>1, <1>2, <1>3

\* No shutdown is decided without an outage, nor ever in log-only mode.
THEOREM ShutdownCause == Spec => ShutdownHasCause
<1>1. CauseInv /\ [Next]_vars => [DecisionHasCause]_vars
  <2> SUFFICES ASSUME CauseInv, [Next]_vars, decisions' # decisions
               PROVE  Outage' /\ config.shutdown_mode # "log-only"
    BY DEF DecisionHasCause
  <2>1. CauseInv'
    BY CauseStep
  <2>2. consecutive_fails' >= config'.fail_threshold
    BY DecisionSteps
  <2>3. (CauseInv /\ consecutive_fails >= config.fail_threshold => Outage)'
    BY MissesMakeOutage, PTL
  <2> QED BY <2>1, <2>2, <2>3, DecisionSteps
<1> QED BY <1>1, CauseInvariant, PTL DEF Spec, ShutdownHasCause

\* A countdown, once started, is never moved: it ends with an accepted reply
\* or, once elapsed, with a decision.
THEOREM CountdownIsHonoured == Spec => CountdownHonoured
<1>1. CauseInv /\ [Next]_vars => [CountdownStep]_vars
  <2> SUFFICES ASSUME CauseInv, [Next]_vars PROVE CountdownStep
    OBVIOUS
  <2>a. metrics \in Metrics /\ decisions \in Nat
    BY DEF CauseInv, TypeOK
  <2>1. ASSUME UNCHANGED <<shutdown, metrics>> PROVE CountdownStep
    BY <2>1 DEF CountdownStep
  <2>2. CASE QuietStep
    BY <2>1, <2>2 DEF QuietStep, LoopHead, LoopStop, TickIdle, HandleWatchdog,
       TimeoutIdle, SchedulerIdle, SendFailed, PollEnter, PollFailed, ExitLoop,
       TimePasses, SignalRaised, vars, loop, timers, counters
  <2>3. CASE TickElapsed
    BY <2>3 DEF TickElapsed, shutdown_deadline_elapsed, monitor_shutdown_clear,
                NoShutdown, shutdown_fsm_execute, counters, CountdownStep
  <2>4. ASSUME ProbeMissed
        PROVE  metrics'.successful_pings = metrics.successful_pings
    BY <2>4, <2>a DEF ProbeMissed, Metrics
  <2>5. ASSUME ProbeMissed, shutdown' = shutdown \/ ~shutdown.pending
        PROVE  CountdownStep
    BY <2>4, <2>5 DEF CountdownStep
  <2>6. ASSUME NEW i \in 1..drain_limit, ReplyAccepted(i) PROVE CountdownStep
    <3>1. /\ ~shutdown'.pending
          /\ metrics'.successful_pings = metrics.successful_pings + 1
      BY <2>6, <2>a DEF ReplyAccepted, handle_ping_success, RecordSuccess,
                        monitor_shutdown_clear, NoShutdown, Metrics
    <3>2. metrics.successful_pings \in Nat
      BY <2>a DEF Metrics
    <3> QED BY <3>1, <3>2 DEF CountdownStep
  <2>7. CASE MissBelowThreshold \/ MissLogOnly \/ MissExecute
             \/ MissWhilePending \/ MissArmCountdown
    BY <2>5, <2>7 DEF MissBelowThreshold, MissLogOnly, MissExecute,
                      MissWhilePending, MissArmCountdown
  <2>8. CASE SendProbe \/ NothingAccepted \/ ReceiveFailed \/ ReplyArrives
             \/ ForeignArrives
    BY <2>1, <2>8 DEF SendProbe, NothingAccepted, ReceiveFailed, ReplyArrives,
                      ForeignArrives, Deliver, timers, counters
  <2> QED BY <2>2, <2>3, <2>6, <2>7, <2>8, StepKinds DEF BusyStep
<1> QED BY <1>1, CauseInvariant, PTL DEF Spec, CountdownHonoured

-----------------------------------------------------------------------------
(* A stop is final.                                                        *)

\* Only the head of the loop looks at the stop flag, and only a wake-up right
\* before it sets the flag.
LEMMA StopStaysNext == StopIsNext /\ [Next]_vars => StopIsNext'
  BY DEF StopIsNext, Next, Process, Environment, LoopHead, LoopStop, HandleTick,
         TickIdle, TickElapsed, HandleWatchdog, HandlePingTimeout, TimeoutIdle,
         MissBelowThreshold, MissLogOnly, MissExecute, MissWhilePending,
         MissArmCountdown, ProbeMissed, HandleScheduler, SchedulerIdle,
         SendFailed, SendProbe, PollEnter, HandlePollEvents, ReplyAccepted,
         NothingAccepted, ReceiveFailed, PollFailed, PollWoken, PollReturns,
         ExitLoop, TimePasses, ReplyArrives, ForeignArrives, Deliver,
         SignalRaised, vars, loop, ending

\* Once a stop was requested, nothing is probed, counted or decided any more,
\* whatever is due, pending or arrives.
THEOREM StoppedForGood == Spec => StopIsFinal
<1>1. Init => StopIsNext
  BY DEF Init, StopIsNext
<1>2. StopIsNext /\ [Next]_vars => [StopStep]_vars
  <2> SUFFICES ASSUME StopIsNext, [Next]_vars, stop_flag
               PROVE  UNCHANGED <<wire, answered, decisions, counters, timers>>
    BY DEF StopStep
  <2>1. pc \in {"head", "exiting", "exited"}
    BY DEF StopIsNext
  <2>2. LoopStop \/ ExitLoop \/ Environment \/ UNCHANGED vars
    BY <2>1
    DEF Next, Process, LoopHead, HandleTick, TickIdle, TickElapsed,
        HandleWatchdog, HandlePingTimeout, TimeoutIdle, MissBelowThreshold,
        MissLogOnly, MissExecute, MissWhilePending, MissArmCountdown,
        ProbeMissed, HandleScheduler, SchedulerIdle, SendFailed, SendProbe,
        PollEnter, HandlePollEvents, ReplyAccepted, NothingAccepted,
        ReceiveFailed, PollFailed, PollWoken, PollReturns
  <2> QED
    BY <2>2 DEF LoopStop, ExitLoop, Environment, TimePasses, ReplyArrives,
                ForeignArrives, Deliver, SignalRaised, vars, counters, timers,
                history
<1> QED BY <1>1, <1>2, StopStaysNext, PTL DEF Spec, StopIsFinal

-----------------------------------------------------------------------------
(* Only the reply to the outstanding probe is accepted.                    *)

\* A sequence number follows its predecessor, or starts again after the last.
LEMMA SequenceFollows ==
    ASSUME NEW s \in 0..SEQ_MAX
    PROVE  \/ next_sequence(s) = s + 1
           \/ s = SEQ_MAX /\ next_sequence(s) = 1
<1>1. CASE s = SEQ_MAX
  <2>1. (s + 1) % (SEQ_MAX + 1) = 0
    BY <1>1, WidthAssumption
  <2> QED BY <1>1, <2>1 DEF next_sequence
<1>2. CASE s < SEQ_MAX
  <2>1. (s + 1) % (SEQ_MAX + 1) = s + 1
    BY <1>2, WidthAssumption
  <2> QED BY <2>1, <1>2 DEF next_sequence
<1> QED BY <1>1, <1>2, WidthAssumption

\* Once the reactor leaves its loop it never enters it again.
LEMMA RunningBefore ==
    ASSUME [Next]_vars, Running'
    PROVE  Running
  BY DEF Running, Next, Process, Environment, LoopHead, LoopStop, HandleTick,
         TickIdle, TickElapsed, HandleWatchdog, HandlePingTimeout, TimeoutIdle,
         MissBelowThreshold, MissLogOnly, MissExecute, MissWhilePending,
         MissArmCountdown, ProbeMissed, HandleScheduler, SchedulerIdle,
         SendFailed, SendProbe, PollEnter, HandlePollEvents, ReplyAccepted,
         NothingAccepted, ReceiveFailed, PollFailed, PollWoken, PollReturns,
         ExitLoop, TimePasses, ReplyArrives, ForeignArrives, Deliver,
         SignalRaised, vars, loop

\* Only sending a probe spends a sequence number, and only a probe that was
\* sent becomes the outstanding one.
LEMMA SequenceSteps ==
    ASSUME [Next]_vars
    PROVE  \/ SendFailed \/ SendProbe
           \/ /\ UNCHANGED <<wire, sequence>>
              /\ ping' = ping \/ ~ping'.waiting
<1>1. NoPing.waiting = FALSE
  BY DEF NoPing
<1> QED
  BY <1>1
  DEF Next, Process, Environment, LoopHead, LoopStop, HandleTick, TickIdle,
      TickElapsed, HandleWatchdog, HandlePingTimeout, TimeoutIdle,
      MissBelowThreshold, MissLogOnly, MissExecute, MissWhilePending,
      MissArmCountdown, ProbeMissed, HandleScheduler, SchedulerIdle, PollEnter,
      HandlePollEvents, ReplyAccepted, NothingAccepted, ReceiveFailed,
      PollFailed, PollWoken, ExitLoop, TimePasses, ReplyArrives,
      ForeignArrives, Deliver, SignalRaised, monitor_ping_clear, vars, timers,
      history

\* The probe sent goes to the end of the wire and, if it becomes the outstanding
\* one, is expected under its own number.
LEMMA ProbeOnWire ==
    ASSUME TypeOK, SendProbe
    PROVE  /\ Len(wire') = Len(wire) + 1 /\ Len(wire) \in Nat
           /\ wire'[Len(wire) + 1].sequence = next_sequence(sequence)
           /\ \A k \in 1..Len(wire) : wire'[k] = wire[k]
           /\ sequence' = next_sequence(sequence)
           /\ ping'.waiting => ping'.expected_sequence = next_sequence(sequence)
           /\ UNCHANGED <<config, queue, answered, metrics>>
           /\ pc = "scheduler" /\ pc' \in {"poll", "exiting"} /\ ~ping.waiting
<1> DEFINE probe == [sequence |-> sequence', left_ms |-> clock]
<1>1. /\ wire' = Append(wire, probe) /\ probe.sequence = sequence'
      /\ sequence' = next_sequence(sequence) /\ ~ping.waiting
      /\ ping'.waiting => ping'.expected_sequence = sequence'
      /\ UNCHANGED <<config, queue, answered, metrics>>
      /\ pc = "scheduler" /\ pc' \in {"poll", "exiting"}
  BY DEF SendProbe, scheduler_due, counters, environment
<1>2. wire \in Seq(Probes)
  BY DEF TypeOK
<1> HIDE DEF probe
<1> QED BY <1>1, <1>2

\* The probes on the wire carry sequence numbers.
LEMMA WireSequence ==
    ASSUME TypeOK, NEW k \in 1..Len(wire)
    PROVE  wire[k].sequence \in 1..SEQ_MAX
<1>1. wire \in Seq(Probes)
  BY DEF TypeOK
<1>2. wire[k] \in Probes
  BY <1>1
<1> QED BY <1>2 DEF Probes

\* The sequence numbers on the wire keep counting.
LEMMA SequenceStep ==
    ASSUME TypeOK, SequencesCount, [Next]_vars
    PROVE  SequencesCount'
<1>a. (Running' => Running) /\ SEQ_MAX \in Nat \ {0} /\ sequence \in 0..SEQ_MAX
      /\ Len(wire) \in Nat
  BY RunningBefore, WidthAssumption DEF TypeOK
<1>1. ASSUME UNCHANGED wire, Running' => sequence' = sequence,
             ping' = ping \/ ~ping'.waiting
      PROVE  SequencesCount'
  BY <1>1, <1>a DEF SequencesCount
<1>2. CASE SendFailed
  BY <1>1, <1>2 DEF SendFailed, Running, timers, history
<1>3. CASE SendProbe
  <2>1. /\ Len(wire') = Len(wire) + 1
        /\ wire'[Len(wire) + 1].sequence = next_sequence(sequence)
        /\ \A k \in 1..Len(wire) : wire'[k] = wire[k]
        /\ sequence' = next_sequence(sequence)
        /\ ping'.waiting => ping'.expected_sequence = next_sequence(sequence)
        /\ Running
    BY <1>3, ProbeOnWire DEF Running
  <2>2. wire' # <<>>
    BY <2>1, <1>a
  <2>3. sequence = IF wire = <<>> THEN 0 ELSE wire[Len(wire)].sequence
    BY <2>1 DEF SequencesCount
  <2>4. ASSUME NEW j \in 1..Len(wire'), NEW k \in 1..Len(wire'),
               j < k, k - j < SEQ_MAX
        PROVE  \/ wire'[k].sequence = wire'[j].sequence + (k - j)
               \/ wire'[k].sequence = wire'[j].sequence + (k - j) - SEQ_MAX
    <3>1. j \in 1..Len(wire) /\ wire[j].sequence \in 1..SEQ_MAX
      <4>1. j \in 1..Len(wire)
        BY <2>1, <2>4, <1>a
      <4> QED BY <4>1, WireSequence
    <3>2. CASE k \in 1..Len(wire)
      BY <2>1, <2>4, <3>1, <3>2 DEF SequencesCount
    <3>3. CASE k = Len(wire) + 1
      <4> DEFINE last == Len(wire)
      <4>1. last \in 1..Len(wire) /\ wire # <<>>
        BY <3>1, <1>a
      <4>2. sequence = wire[last].sequence
        BY <2>3, <4>1
      <4>3. \/ sequence = wire[j].sequence + (last - j)
            \/ sequence = wire[j].sequence + (last - j) - SEQ_MAX
        <5>1. CASE j = last
          BY <3>1, <4>2, <5>1, <1>a
        <5>2. CASE j < last
          <6>1. last - j < SEQ_MAX
            BY <2>4, <3>1, <3>3, <1>a
          <6> QED BY <3>1, <4>1, <4>2, <5>2, <6>1 DEF SequencesCount
        <5> QED BY <3>1, <4>1, <5>1, <5>2
      <4>4. wire'[k].sequence = next_sequence(sequence)
        BY <2>1, <3>3
      <4>5. wire'[j] = wire[j]
        BY <2>1, <3>1
      <4>6. \/ next_sequence(sequence) = sequence + 1
            \/ sequence = SEQ_MAX /\ next_sequence(sequence) = 1
        BY <1>a, SequenceFollows
      <4> HIDE DEF last
      <4>7. k = last + 1 /\ last \in Nat
        BY <3>3, <1>a DEF last
      <4>8. ASSUME NEW M \in Nat, NEW a \in 1..M, NEW s \in 0..M, NEW n,
                   NEW l \in Int, l + 1 - j < M,
                   s = a + (l - j) \/ s = a + (l - j) - M,
                   n = s + 1 \/ (s = M /\ n = 1)
            PROVE  n = a + (l + 1 - j) \/ n = a + (l + 1 - j) - M
        BY <3>1, <4>8
      <4>9. j \in Int /\ last \in Int /\ last + 1 - j < SEQ_MAX
        BY <2>4, <3>1, <4>7
      <4> DEFINE next == next_sequence(sequence)
                 first == wire[j].sequence
      <4>10. first \in 1..SEQ_MAX /\ SEQ_MAX \in Nat
        BY <3>1, <1>a DEF first
      <4>11. sequence = first + (last - j) \/ sequence = first + (last - j) - SEQ_MAX
        BY <4>3 DEF first
      <4>12. next = sequence + 1 \/ (sequence = SEQ_MAX /\ next = 1)
        BY <4>6 DEF next
      <4>13. wire'[k].sequence = next /\ wire'[j].sequence = first
        BY <4>4, <4>5 DEF next, first
      <4> HIDE DEF next, first
      <4>14. \/ next = first + (last + 1 - j)
             \/ next = first + (last + 1 - j) - SEQ_MAX
        BY <4>8, <4>9, <4>10, <4>11, <4>12, <1>a
      <4> QED BY <4>7, <4>9, <4>13, <4>14
    <3> QED BY <2>1, <3>2, <3>3, <1>a
  <2> QED BY <2>1, <2>2, <2>4, <1>a DEF SequencesCount
<1> QED BY <1>1, <1>2, <1>3, SequenceSteps

\* How a step treats the receive buffer.
LEMMA QueueSteps ==
    ASSUME [Next]_vars
    PROVE  \/ /\ UNCHANGED <<queue, wire>>
              /\ Running' /\ pc \in {"poll", "polling"} =>
                     pc' \in {"poll", "polling"}
           \/ SendProbe
           \/ /\ pc = "polling" /\ pc' = "head" /\ wire' = wire
              /\ \/ queue' = SubSeq(queue, drain_limit + 1, Len(queue))
                 \/ \E i \in 1..drain_limit :
                        queue' = SubSeq(queue, i + 1, Len(queue))
           \/ ReplyArrives
           \/ ForeignArrives
  BY DEF Running, Next, Process, Environment, LoopHead, LoopStop, HandleTick,
         TickIdle, TickElapsed, HandleWatchdog, HandlePingTimeout, TimeoutIdle,
         MissBelowThreshold, MissLogOnly, MissExecute, MissWhilePending,
         MissArmCountdown, ProbeMissed, HandleScheduler, SchedulerIdle,
         SendFailed, PollEnter, HandlePollEvents, ReplyAccepted,
         NothingAccepted, ReceiveFailed, PollFailed, PollWoken, PollReturns,
         ExitLoop, TimePasses, SignalRaised, vars, loop, environment, history

\* A datagram that arrives joins the end of the buffer, which holds it.
LEMMA DeliverAppends ==
    ASSUME TypeOK, Len(queue) <= MaxQueue, NEW packet \in Packets,
           Deliver(packet)
    PROVE  /\ Len(queue') = Len(queue) + 1 /\ Len(queue) \in Nat
           /\ Len(queue') <= MaxQueue
           /\ queue'[Len(queue) + 1] = packet
           /\ \A i \in 1..Len(queue) : queue'[i] = queue[i]
           /\ UNCHANGED <<wire, pc>>
<1>1. /\ queue' = Append(queue, packet) /\ Len(queue) < MaxQueue
      /\ UNCHANGED <<wire, pc>>
  BY DEF Deliver, loop, history
<1>2. queue \in Seq(Packets) /\ MaxQueue \in Nat
  BY EnvironmentAssumption DEF TypeOK
<1> QED BY <1>1, <1>2

\* The datagrams of the buffer stay recent: each pass of the loop takes at least
\* one from the front for the one probe it may send.
LEMMA PacketStep ==
    ASSUME TypeOK, PacketsAreRecent, Len(queue) <= MaxQueue, [Next]_vars
    PROVE  PacketsAreRecent' /\ Len(queue') <= MaxQueue
<1> DEFINE s == IF pc \in {"poll", "polling"} THEN 1 ELSE 0
<1>a. /\ Len(wire) \in Nat /\ Len(queue) \in Nat /\ queue \in Seq(Packets)
      /\ MaxAge \in Nat /\ MaxQueue \in Nat /\ DRAIN_MAX \in Nat \ {0}
      /\ Running' => Running
  BY RunningBefore, EnvironmentAssumption DEF TypeOK
<1>b. ASSUME NEW i \in 1..Len(queue), queue[i].sequence # 0
      PROVE  /\ queue[i].probe \in 1..Len(wire)
             /\ queue[i].sequence = wire[queue[i].probe].sequence
             /\ Running => Len(wire) - queue[i].probe + i
                               <= MaxAge - 1 + MaxQueue + s
  BY <1>b DEF PacketsAreRecent
<1>1. CASE /\ UNCHANGED <<queue, wire>>
           /\ Running' /\ pc \in {"poll", "polling"} => pc' \in {"poll", "polling"}
  <2> SUFFICES ASSUME NEW i \in 1..Len(queue), queue[i].sequence # 0, Running'
               PROVE  Len(wire) - queue[i].probe + i
                          <= MaxAge - 1 + MaxQueue + s'
    BY <1>1, <1>b DEF PacketsAreRecent
  <2>1. s \in {0, 1} /\ s' \in {0, 1} /\ s <= s'
    BY <1>1
  <2>2. Len(wire) - queue[i].probe + i <= MaxAge - 1 + MaxQueue + s
        /\ queue[i].probe \in Nat
    BY <1>a, <1>b
  <2> HIDE DEF s
  <2> QED BY <1>a, <2>1, <2>2
<1>2. CASE SendProbe
  <2>1. /\ Len(wire') = Len(wire) + 1 /\ queue' = queue
        /\ \A k \in 1..Len(wire) : wire'[k] = wire[k]
        /\ pc = "scheduler" /\ pc' \in {"poll", "exiting"}
    BY <1>2, ProbeOnWire
  <2> SUFFICES ASSUME NEW i \in 1..Len(queue), queue[i].sequence # 0
               PROVE  /\ queue[i].probe \in 1..Len(wire')
                      /\ queue[i].sequence = wire'[queue[i].probe].sequence
                      /\ Running' => Len(wire') - queue[i].probe + i
                                         <= MaxAge - 1 + MaxQueue + s'
    BY <1>a, <2>1 DEF PacketsAreRecent
  <2>2. /\ queue[i].probe \in 1..Len(wire)
        /\ queue[i].sequence = wire'[queue[i].probe].sequence
    BY <1>b, <2>1
  <2>3. ASSUME Running'
        PROVE  Len(wire') - queue[i].probe + i <= MaxAge - 1 + MaxQueue + s'
    <3>1. s = 0 /\ s' = 1
      BY <2>1, <2>3 DEF Running
    <3>2. Len(wire) - queue[i].probe + i <= MaxAge - 1 + MaxQueue
      BY <1>a, <1>b, <2>3, <3>1
    <3> QED BY <1>a, <2>1, <2>2, <3>1, <3>2
  <2> QED BY <1>a, <2>1, <2>2, <2>3
<1>3. ASSUME NEW k \in Nat, queue # <<>> => k > 0,
             queue' = SubSeq(queue, k + 1, Len(queue)),
             pc = "polling", pc' = "head", wire' = wire
      PROVE  PacketsAreRecent' /\ Len(queue') <= MaxQueue
  <2>1. Len(queue') <= MaxQueue
    BY <1>a, <1>3
  <2> SUFFICES ASSUME NEW i \in 1..Len(queue'), queue'[i].sequence # 0
               PROVE  /\ queue'[i].probe \in 1..Len(wire)
                      /\ queue'[i].sequence = wire[queue'[i].probe].sequence
                      /\ Len(wire) - queue'[i].probe + i
                             <= MaxAge - 1 + MaxQueue + s'
    BY <1>3, <2>1 DEF PacketsAreRecent
  <2>2. queue'[i] = queue[k + i] /\ k + i \in 1..Len(queue)
    <3>1. queue'[i] = queue[(k + 1) + i - 1]
          /\ (k + 1) + i - 1 \in 1..Len(queue)
      BY <1>a, <1>3
    <3> QED BY <3>1
  <2>3. k > 0 /\ Running /\ s = 1 /\ s' = 0
    BY <1>a, <1>3, <2>2 DEF Running
  <2>4. /\ queue[k + i].probe \in 1..Len(wire)
        /\ queue[k + i].sequence = wire[queue[k + i].probe].sequence
        /\ Len(wire) - queue[k + i].probe + (k + i)
               <= MaxAge - 1 + MaxQueue + 1
    BY <1>b, <2>2, <2>3
  <2> QED BY <1>a, <2>2, <2>3, <2>4
<1>4. CASE /\ pc = "polling" /\ pc' = "head" /\ wire' = wire
           /\ \/ queue' = SubSeq(queue, drain_limit + 1, Len(queue))
              \/ \E i \in 1..drain_limit :
                     queue' = SubSeq(queue, i + 1, Len(queue))
  <2>1. drain_limit \in Nat /\ (queue # <<>> => drain_limit > 0)
    BY <1>a DEF drain_limit
  <2> QED BY <1>3, <1>4, <2>1
<1>5. ASSUME NEW packet \in Packets, Deliver(packet),
             packet.sequence # 0 =>
                 /\ packet.probe \in 1..Len(wire)
                 /\ packet.sequence = wire[packet.probe].sequence
                 /\ Len(wire) - packet.probe <= MaxAge - 1
      PROVE  PacketsAreRecent' /\ Len(queue') <= MaxQueue
  <2>1. /\ Len(queue') = Len(queue) + 1 /\ Len(queue') <= MaxQueue
        /\ queue'[Len(queue) + 1] = packet
        /\ \A i \in 1..Len(queue) : queue'[i] = queue[i]
        /\ UNCHANGED <<wire, pc>>
    BY <1>5, DeliverAppends
  <2>2. s' = s /\ s \in {0, 1} /\ Running' = Running
    BY <2>1 DEF Running
  <2> SUFFICES ASSUME NEW i \in 1..Len(queue'), queue'[i].sequence # 0
               PROVE  /\ queue'[i].probe \in 1..Len(wire)
                      /\ queue'[i].sequence = wire[queue'[i].probe].sequence
                      /\ Running => Len(wire) - queue'[i].probe + i
                                        <= MaxAge - 1 + MaxQueue + s
    BY <2>1, <2>2 DEF PacketsAreRecent
  <2> HIDE DEF s
  <2>3. CASE i = Len(queue) + 1
    <3>1. queue'[i] = packet /\ i <= MaxQueue
      BY <2>1, <2>3
    <3> QED BY <1>5, <1>a, <2>2, <3>1
  <2>4. CASE i \in 1..Len(queue)
    BY <1>b, <2>1, <2>4
  <2> QED BY <1>a, <2>1, <2>3, <2>4
<1>6. CASE ReplyArrives
  <2>1. PICK p \in 1..Len(wire) :
            /\ p > Len(wire) - MaxAge
            /\ Deliver([ours |-> TRUE, sequence |-> wire[p].sequence,
                        probe |-> p])
    BY <1>6 DEF ReplyArrives
  <2>2. [ours |-> TRUE, sequence |-> wire[p].sequence, probe |-> p] \in Packets
    BY ReplyIsPacket DEF TypeOK
  <2>3. Len(wire) - p <= MaxAge - 1
    BY <1>a, <2>1
  <2> QED BY <1>5, <2>1, <2>2, <2>3
<1>7. CASE ForeignArrives
  <2>1. PICK packet \in [ours : BOOLEAN, sequence : {0}, probe : {0}] :
            Deliver(packet)
    BY <1>7 DEF ForeignArrives
  <2>2. packet \in Packets /\ packet.sequence = 0
    BY WidthAssumption DEF Packets
  <2> QED BY <1>5, <2>1, <2>2
<1>8. PacketsAreRecent' /\ Len(queue') <= MaxQueue
  <2>1. CASE /\ UNCHANGED <<queue, wire>>
             /\ Running' /\ pc \in {"poll", "polling"} =>
                    pc' \in {"poll", "polling"}
    BY <1>1, <2>1
  <2> QED BY <1>2, <1>4, <1>6, <1>7, <2>1, QueueSteps
<1> QED BY <1>8

\* What the buffer holds when the reactor starts.
LEMMA ReplyInit == Init => ReplyInv
<1> SUFFICES ASSUME Init
             PROVE  SequencesCount /\ PacketsAreRecent /\ Len(queue) <= MaxQueue
  BY CauseInit DEF ReplyInv
<1>1. /\ wire = <<>> /\ queue = <<>> /\ sequence = 0 /\ ~ping.waiting
      /\ Len(wire) = 0 /\ Len(queue) = 0
  BY DEF Init, NoPing
<1> QED BY <1>1, EnvironmentAssumption DEF SequencesCount, PacketsAreRecent

\* Every step keeps it.
LEMMA ReplyStep == ReplyInv /\ [Next]_vars => ReplyInv'
<1> SUFFICES ASSUME ReplyInv, [Next]_vars PROVE ReplyInv'
  OBVIOUS
<1>1. /\ TypeOK /\ CauseInv /\ SequencesCount /\ PacketsAreRecent
      /\ Len(queue) <= MaxQueue
  BY DEF ReplyInv, CauseInv
<1> QED BY <1>1, CauseStep, SequenceStep, PacketStep DEF ReplyInv

\* What the buffer holds is an invariant of the reactor.
LEMMA ReplyInvariant == Spec => []ReplyInv
  BY ReplyInit, ReplyStep, PTL DEF Spec

\* No reply stays on its way, or in the buffer, while the sequence numbers go
\* all the way round: at one probe per second or less that takes 18 hours.
RepliesAreRecent == MaxAge + MaxQueue <= SEQ_MAX

\* A datagram that is accepted answers the last probe, which is outstanding and
\* has not been answered yet.
LEMMA AcceptedIsOwn ==
    ASSUME RepliesAreRecent, ReplyInv, NEW i \in 1..drain_limit,
           ReplyAccepted(i)
    PROVE  /\ ping.waiting /\ answered' = answered \cup {Len(wire)}
           /\ Len(wire) \notin answered
<1>1. /\ ping.waiting /\ queue[i].sequence = ping.expected_sequence
      /\ answered' = answered \cup {queue[i].probe}
      /\ pc = "polling"
  BY DEF ReplyAccepted, AcceptedAt, receive_matched, PollWoken, PollReturns
<1>2. /\ TypeOK /\ SequencesCount /\ PacketsAreRecent
      /\ Len(queue) \in Nat /\ Len(wire) \in Nat
      /\ MaxAge \in Nat /\ MaxQueue \in Nat /\ SEQ_MAX \in Nat
  BY EnvironmentAssumption, WidthAssumption DEF ReplyInv, CauseInv, TypeOK
<1>3. i \in 1..Len(queue)
  BY <1>2, EnvironmentAssumption DEF drain_limit
<1>4. /\ Len(wire) \in 1..Len(wire)
      /\ ping.expected_sequence = wire[Len(wire)].sequence
  BY <1>1, <1>2 DEF SequencesCount
<1>5. wire[Len(wire)].sequence \in 1..SEQ_MAX
  BY <1>2, <1>4, WireSequence
<1> DEFINE p == queue[i].probe
<1>6. /\ p \in 1..Len(wire)
      /\ wire[p].sequence = wire[Len(wire)].sequence
      /\ Len(wire) - p < SEQ_MAX
  <2>1. queue[i].sequence # 0
    BY <1>1, <1>4, <1>5
  <2>2. /\ p \in 1..Len(wire) /\ queue[i].sequence = wire[p].sequence
        /\ Len(wire) - p + i <= MaxAge - 1 + MaxQueue + 1
    BY <1>1, <1>2, <1>3, <2>1 DEF PacketsAreRecent, Running
  <2> HIDE DEF p
  <2> QED BY <1>1, <1>2, <1>3, <1>4, <2>2 DEF RepliesAreRecent
<1> HIDE DEF p
<1>7. p = Len(wire)
  <2> SUFFICES ASSUME p < Len(wire) PROVE FALSE
    BY <1>2, <1>6
  <2>1. \/ wire[Len(wire)].sequence = wire[p].sequence + (Len(wire) - p)
        \/ wire[Len(wire)].sequence =
               wire[p].sequence + (Len(wire) - p) - SEQ_MAX
    BY <1>2, <1>4, <1>6 DEF SequencesCount
  <2>2. wire[p].sequence \in Int
    BY <1>5, <1>6
  <2> QED BY <1>2, <1>6, <2>1, <2>2
<1>8. Len(wire) \notin answered
  <2>1. CauseInv
    BY DEF ReplyInv
  <2> QED BY <1>1, <2>1, SettledFacts DEF CauseInv, AnswersAreToProbes
<1> QED BY <1>1, <1>7, <1>8 DEF p

\* The steps that accept a reply.
LEMMA AnswerSteps ==
    ASSUME TypeOK, [Next]_vars,
           metrics'.successful_pings # metrics.successful_pings
    PROVE  \E i \in 1..drain_limit : ReplyAccepted(i)
<1>1. metrics \in Metrics /\ metrics' # metrics
  BY DEF TypeOK
<1>2. ~ProbeMissed
  <2> SUFFICES ASSUME ProbeMissed PROVE FALSE
    OBVIOUS
  <2>1. metrics' = [metrics EXCEPT !.total_pings = @ + 1,
                                   !.failed_pings = @ + 1]
    BY DEF ProbeMissed
  <2> QED BY <1>1, <2>1 DEF Metrics
<1> QED
  BY <1>1, <1>2
  DEF Next, Process, Environment, LoopHead, LoopStop, HandleTick, TickIdle,
      TickElapsed, HandleWatchdog, HandlePingTimeout, TimeoutIdle,
      MissBelowThreshold, MissLogOnly, MissExecute, MissWhilePending,
      MissArmCountdown, HandleScheduler, SchedulerIdle, SendFailed, SendProbe,
      PollEnter, HandlePollEvents, NothingAccepted, ReceiveFailed, PollFailed,
      ExitLoop, TimePasses, ReplyArrives, ForeignArrives, Deliver,
      SignalRaised, vars, counters

\* As long as no reply is later than a whole round of the sequence numbers, no
\* duplicate, late or foreign datagram is ever taken for the answer, however
\* the buffer fills and is drained.
THEOREM OwnReply ==
    ASSUME RepliesAreRecent
    PROVE  Spec => OnlyOwnReply
<1>1. ReplyInv /\ [Next]_vars => [AcceptsOwn]_vars
  BY AnswerSteps, AcceptedIsOwn DEF AcceptsOwn, ReplyInv, CauseInv
<1> QED BY <1>1, ReplyInvariant, PTL DEF Spec, OnlyOwnReply

-----------------------------------------------------------------------------
(* Every probe is counted once.                                            *)

\* A missed probe is counted as such.
LEMMA MissIsCounted ==
    ASSUME AccountInv, ProbeMissed
    PROVE  ProbeAccounting'
<1>1. CauseInv /\ ProbeAccounting /\ metrics \in Metrics
  BY DEF AccountInv, ReplyInv, CauseInv, TypeOK
<1>2. /\ Settled \in Nat /\ Settled' = Settled + 1
      /\ answered' = answered
  BY <1>1, MissExtends
<1>3. /\ metrics'.total_pings = metrics.total_pings + 1
      /\ metrics'.failed_pings = metrics.failed_pings + 1
      /\ metrics'.successful_pings = metrics.successful_pings
      /\ exit_code' = exit_code
  BY <1>1 DEF ProbeMissed, Metrics, ending
<1>4. /\ metrics.total_pings \in Nat /\ metrics.failed_pings \in Nat
      /\ metrics.successful_pings \in Nat
  BY <1>1 DEF Metrics
<1> QED BY <1>1, <1>2, <1>3, <1>4 DEF ProbeAccounting

\* An accepted reply is counted as such, and counts one more probe as answered.
LEMMA SuccessIsCounted ==
    ASSUME RepliesAreRecent, AccountInv, NEW i \in 1..drain_limit,
           ReplyAccepted(i)
    PROVE  ProbeAccounting' /\ IsFiniteSet(answered')
<1>1. /\ CauseInv /\ ProbeAccounting /\ metrics \in Metrics
      /\ IsFiniteSet(answered)
  BY DEF AccountInv, ReplyInv, CauseInv, TypeOK
<1>2. /\ ping.waiting /\ answered' = answered \cup {Len(wire)}
      /\ Len(wire) \notin answered
  BY AcceptedIsOwn DEF AccountInv
<1>3. /\ IsFiniteSet(answered')
      /\ Cardinality(answered') = Cardinality(answered) + 1
  BY <1>1, <1>2, FS_AddElement
<1>4. /\ metrics'.total_pings = metrics.total_pings + 1
      /\ metrics'.failed_pings = metrics.failed_pings
      /\ metrics'.successful_pings = metrics.successful_pings + 1
      /\ exit_code' = exit_code /\ ~ping'.waiting /\ wire' = wire
  BY <1>1 DEF ReplyAccepted, handle_ping_success, RecordSuccess, Metrics,
              monitor_ping_clear, NoPing, PollWoken
<1>5. Settled' = Settled + 1 /\ Settled \in Nat
  BY <1>1, <1>2, <1>4, SettledFacts DEF Settled
<1>6. /\ metrics.total_pings \in Nat /\ metrics.failed_pings \in Nat
      /\ metrics.successful_pings \in Nat
  BY <1>1 DEF Metrics
<1> QED BY <1>1, <1>3, <1>4, <1>5, <1>6 DEF ProbeAccounting

\* The steps that settle no probe, and leave the reactor counting.
LEMMA AccountSteps ==
    ASSUME [Next]_vars
    PROVE  \/ ProbeMissed
           \/ \E i \in 1..drain_limit : ReplyAccepted(i)
           \/ SendProbe
           \/ exit_code' = 1 /\ answered' = answered
           \/ UNCHANGED <<ping, wire, metrics, answered, exit_code>>
  BY DEF Next, Process, Environment, LoopHead, LoopStop, HandleTick, TickIdle,
         TickElapsed, HandleWatchdog, HandlePingTimeout, TimeoutIdle,
         MissBelowThreshold, MissLogOnly, MissExecute, MissWhilePending,
         MissArmCountdown, HandleScheduler, SchedulerIdle, SendFailed,
         PollEnter, HandlePollEvents, NothingAccepted, ReceiveFailed,
         PollFailed, PollWoken, ExitLoop, TimePasses, ReplyArrives,
         ForeignArrives, Deliver, SignalRaised, vars, timers, counters,
         ending, history

\* Every step keeps the account.
LEMMA AccountStep ==
    ASSUME RepliesAreRecent, AccountInv, [Next]_vars
    PROVE  ProbeAccounting' /\ IsFiniteSet(answered')
<1>a. IsFiniteSet(answered) /\ ProbeAccounting /\ TypeOK
  BY DEF AccountInv, ReplyInv, CauseInv
<1>1. CASE ProbeMissed
  BY <1>1, <1>a, MissIsCounted DEF ProbeMissed
<1>2. CASE \E i \in 1..drain_limit : ReplyAccepted(i)
  BY <1>2, SuccessIsCounted
<1>3. CASE SendProbe
  <2>1. /\ Len(wire') = Len(wire) + 1 /\ Len(wire) \in Nat /\ ~ping.waiting
        /\ UNCHANGED <<answered, metrics>>
    BY <1>3, <1>a, ProbeOnWire
  <2>2. exit_code' = 0 => exit_code = 0 /\ ping'.waiting
    BY <1>3 DEF SendProbe
  <2>3. exit_code' = 0 => Settled' = Settled
    BY <2>1, <2>2 DEF Settled
  <2> QED BY <1>a, <2>1, <2>2, <2>3 DEF ProbeAccounting
<1>4. CASE exit_code' = 1 /\ answered' = answered
  BY <1>4, <1>a DEF ProbeAccounting
<1>5. CASE UNCHANGED <<ping, wire, metrics, answered, exit_code>>
  BY <1>5, <1>a DEF ProbeAccounting, Settled
<1> QED BY <1>1, <1>2, <1>3, <1>4, <1>5, AccountSteps

\* As long as no reply is later than a whole round of the sequence numbers, the
\* counters of the final statistics add up: every probe was counted exactly
\* once, as answered or as missed, unless it is still outstanding.
THEOREM CountedOnce ==
    ASSUME RepliesAreRecent
    PROVE  Spec => []ProbeAccounting
<1>1. Init => AccountInv
  <2>1. Init => ReplyInv
    BY ReplyInit
  <2>2. ASSUME Init PROVE IsFiniteSet(answered) /\ ProbeAccounting
    <3>0. answered = {}
      BY <2>2 DEF Init
    <3>1. /\ Len(wire) = 0 /\ ~ping.waiting
          /\ metrics.total_pings = 0 /\ metrics.successful_pings = 0
          /\ metrics.failed_pings = 0
      BY <2>2 DEF Init, NoPing
    <3>2. IsFiniteSet(answered) /\ Cardinality(answered) = 0
      BY <3>0, FS_EmptySet
    <3>3. Settled = 0
      <4>1. Settled = Len(wire)
        BY <2>2, <3>1, CauseInit, SettledFacts
      <4> QED BY <3>1, <4>1
    <3> QED BY <3>1, <3>2, <3>3 DEF ProbeAccounting
  <2> QED BY <2>1, <2>2 DEF AccountInv
<1>2. AccountInv /\ [Next]_vars => AccountInv'
  BY AccountStep, ReplyStep DEF AccountInv
<1>3. AccountInv => ProbeAccounting
  BY DEF AccountInv
<1> QED BY <1>1, <1>2, <1>3, PTL DEF Spec

=============================================================================
