---------------------------- MODULE TimingProofs ----------------------------
(* Proofs about when the reactor acts: never in a loop that does not       *)
(* sleep, never late, and never too early.                                 *)
EXTENDS MonitorProofs

-----------------------------------------------------------------------------
(* The loop sleeps.                                                        *)

\* The handlers of a pass leave nothing due behind.
SleepInv == TypeOK /\ NothingLeftDue

\* Each handler serves its timer, and no later handler of the pass undoes it.
LEMMA SleepStep == SleepInv /\ [Next]_vars => SleepInv'
<1> SUFFICES ASSUME SleepInv, [Next]_vars PROVE NothingLeftDue'
  BY TypeStep DEF SleepInv
<1>a. /\ TypeOK /\ NothingLeftDue
      /\ now_ms \in Nat /\ config.delay_ms \in Nat
      /\ config.timeout_ms \in Nat \ {0}
      /\ ping.deadline_ms \in Int /\ shutdown.deadline_ms \in Int
      /\ next_ping_ms \in Int
  BY ConfigFacts, EnvironmentAssumption
  DEF SleepInv, TypeOK, Pings, Shutdowns
<1>1. ASSUME pc' \notin {"watchdog", "ping_timeout", "scheduler", "poll"}
      PROVE  NothingLeftDue'
  BY <1>1 DEF NothingLeftDue
<1>2. ASSUME UNCHANGED <<pc, now_ms, ping, shutdown, next_ping_ms>>
      PROVE  NothingLeftDue'
  BY <1>2, <1>a DEF NothingLeftDue
<1>3. CASE LoopHead \/ LoopStop \/ SendFailed \/ PollEnter \/ HandlePollEvents
           \/ ExitLoop
  BY <1>1, <1>3 DEF LoopHead, LoopStop, SendFailed, PollEnter,
     HandlePollEvents, ReplyAccepted, NothingAccepted, ReceiveFailed,
     PollFailed, ExitLoop
<1>4. CASE TickIdle
  BY <1>4, <1>a DEF TickIdle, shutdown_deadline_elapsed, timers,
                    NothingLeftDue
<1>5. CASE TickElapsed
  <2>1. ~shutdown'.pending /\ pc' \in {"watchdog", "exiting"}
    BY <1>5 DEF TickElapsed, monitor_shutdown_clear, NoShutdown,
                shutdown_fsm_execute
  <2> QED BY <2>1 DEF NothingLeftDue
<1>6. CASE HandleWatchdog
  BY <1>6, <1>a DEF HandleWatchdog, NothingLeftDue
<1>7. CASE TimeoutIdle
  BY <1>7, <1>a DEF TimeoutIdle, ping_deadline_elapsed, timers, NothingLeftDue
<1>8. ASSUME ProbeMissed, pc' \in {"scheduler", "exiting"},
             shutdown' = shutdown \/ shutdown'.deadline_ms > now_ms
      PROVE  NothingLeftDue'
  <2>1. pc = "ping_timeout" /\ now_ms' = now_ms /\ ~ping'.waiting
    BY <1>8 DEF ProbeMissed, monitor_ping_clear, NoPing
  <2> QED BY <1>8, <2>1, <1>a DEF NothingLeftDue
<1>9. CASE MissBelowThreshold \/ MissLogOnly \/ MissExecute
           \/ MissWhilePending
  BY <1>8, <1>9 DEF MissBelowThreshold, MissLogOnly, MissExecute,
                    MissWhilePending, shutdown_fsm_execute
<1>10. CASE MissArmCountdown
  <2>1. countdown_deadline_ms # U64MAX /\ config.delay_ms > 0 =>
            countdown_deadline_ms > now_ms
    BY <1>a DEF countdown_deadline_ms, monitor_deadline_add_ms
  <2>2. shutdown' = shutdown \/ shutdown'.deadline_ms > now_ms
    BY <1>10, <2>1 DEF MissArmCountdown
  <2> QED BY <1>8, <1>10, <2>2 DEF MissArmCountdown
<1>11. CASE SchedulerIdle
  BY <1>11, <1>a DEF SchedulerIdle, scheduler_due, timers, NothingLeftDue
<1>12. CASE SendProbe
  <2>1. CASE pc' = "poll"
    <3>1. /\ pc = "scheduler" /\ now_ms' = now_ms /\ shutdown' = shutdown
          /\ ping'.waiting /\ ping'.deadline_ms = now_ms + config.timeout_ms
      BY <1>12, <2>1 DEF SendProbe, monitor_deadline_add_ms
    <3> QED BY <2>1, <3>1, <1>a DEF NothingLeftDue
  <2>2. CASE pc' = "exiting"
    BY <1>1, <2>2
  <2> QED BY <1>12, <2>1, <2>2 DEF SendProbe
<1>13. CASE Environment \/ UNCHANGED vars
  BY <1>2, <1>13 DEF Environment, TimePasses, ReplyArrives, ForeignArrives,
     Deliver, SignalRaised, vars, loop, timers
<1> QED
  BY <1>3, <1>4, <1>5, <1>6, <1>7, <1>9, <1>10, <1>11, <1>12, <1>13
  DEF Next, Process, HandleTick, HandlePingTimeout, HandleScheduler

\* poll() is never given the timeout 0 for work the pass has left undone, the
\* watchdog notification that failed excepted, so the loop cannot spin.
THEOREM NoSpin == Spec => []NoBusySpin
<1>1. Init => SleepInv
  BY TypeInit DEF SleepInv, Init, NothingLeftDue
<1>2. SleepInv => NoBusySpin
  <2> SUFFICES ASSUME SleepInv, pc = "poll", ~(wait_timeout_ms > 0)
               PROVE  monitor_watchdog_due(now_ms, last_sent_ms,
                                           config.watchdog_interval_ms)
    BY DEF NoBusySpin
  <2>b. wait_timeout_ms = 0
    <3>1. wait_timeout_ms \in 0..INT_MAX
      BY WaitTimeout DEF SleepInv
    <3> QED BY <3>1, WidthAssumption
  <2>a. /\ now_ms \in Nat /\ next_ping_ms \in Nat /\ last_sent_ms \in 0..U64MAX
        /\ ping.deadline_ms \in Nat /\ shutdown.deadline_ms \in Nat
        /\ config.watchdog_interval_ms \in Nat
    BY ConfigFacts, EnvironmentAssumption, WidthAssumption
    DEF SleepInv, TypeOK, Pings, Shutdowns
  <2> DEFINE probe == monitor_deadline_timeout_ms(
                          now_ms,
                          IF ping.waiting THEN ping.deadline_ms
                          ELSE next_ping_ms)
             countdown == monitor_timeout_min(
                              probe, ShutdownTimeout(now_ms, shutdown, probe))
             watchdog == WatchdogTimeout(now_ms, last_sent_ms,
                                         config.watchdog_interval_ms,
                                         countdown)
  <2>1. probe # 0 /\ probe \in Int
    <3>1. CASE ping.waiting
      <4>1. ping.deadline_ms > now_ms
        BY <3>1 DEF SleepInv, NothingLeftDue
      <4> QED BY <2>a, <3>1, <4>1, WidthAssumption
              DEF monitor_deadline_timeout_ms
    <3>2. CASE ~ping.waiting
      <4>1. next_ping_ms > now_ms
        BY <3>2 DEF SleepInv, NothingLeftDue
      <4> QED BY <2>a, <3>2, <4>1, WidthAssumption
              DEF monitor_deadline_timeout_ms
    <3> QED BY <3>1, <3>2
  <2>2. countdown # 0 /\ countdown \in Int
    <3>1. shutdown.pending =>
              /\ monitor_deadline_timeout_ms(now_ms, shutdown.deadline_ms) # 0
              /\ monitor_deadline_timeout_ms(now_ms, shutdown.deadline_ms)
                     \in Int
      <4>1. shutdown.pending => shutdown.deadline_ms > now_ms
        BY DEF SleepInv, NothingLeftDue
      <4> QED BY <2>a, <4>1, WidthAssumption DEF monitor_deadline_timeout_ms
    <3> HIDE DEF probe
    <3> QED BY <2>1, <3>1 DEF monitor_timeout_min, ShutdownTimeout
  <2>3. wait_timeout_ms = monitor_timeout_min(countdown, watchdog)
    BY DEF wait_timeout_ms, monitor_state_wait_timeout
  <2> HIDE DEF countdown
  <2>4. watchdog = 0
    BY <2>b, <2>2, <2>3 DEF monitor_timeout_min
  <2>5. /\ config.watchdog_interval_ms # 0
        /\ monitor_deadline_add_ms(last_sent_ms, config.watchdog_interval_ms)
               # U64MAX
        /\ monitor_deadline_timeout_ms(
               now_ms,
               monitor_deadline_add_ms(last_sent_ms,
                                       config.watchdog_interval_ms)) = 0
    BY <2>2, <2>4, WidthAssumption DEF WatchdogTimeout
  <2>6. last_sent_ms + config.watchdog_interval_ms <= now_ms
    BY <2>a, <2>5, WidthAssumption
    DEF monitor_deadline_timeout_ms, monitor_deadline_add_ms
  <2> QED BY <2>a, <2>5, <2>6, WidthAssumption DEF monitor_watchdog_due
<1> QED BY <1>1, <1>2, SleepStep, PTL DEF Spec

-----------------------------------------------------------------------------
(* No timer is late.                                                       *)

\* The types the lateness argument needs.
LEMMA LatenessTypes ==
    ASSUME TypeOK
    PROVE  /\ clock \in Nat /\ now_ms \in Nat /\ wake_ms \in Nat /\ lag \in Nat
           /\ clock <= MaxClock /\ lag <= MaxLag
           /\ MaxClock \in Nat /\ MaxLag \in Nat /\ CommandMax \in Nat
           /\ Late = MaxLag + CommandMax /\ Late \in Nat
           /\ ping.deadline_ms \in Nat /\ shutdown.deadline_ms \in Nat
           /\ next_ping_ms \in Nat /\ last_sent_ms \in Nat
           /\ config.watchdog_interval_ms \in Nat
           /\ config.timeout_ms \in Nat /\ config.delay_ms \in Nat
           /\ MaxClock < U64MAX /\ U64MAX \in Nat
<1>1. /\ MaxClock \in Nat /\ MaxLag \in Nat /\ CommandMax \in Nat
      /\ MaxClock < U64MAX /\ U64MAX \in Nat
  BY EnvironmentAssumption, WidthAssumption
<1>2. /\ config.watchdog_interval_ms \in Nat /\ config.timeout_ms \in Nat
      /\ config.delay_ms \in Nat
  BY ConfigFacts DEF TypeOK
<1>3. /\ ping.deadline_ms \in Nat /\ shutdown.deadline_ms \in Nat
      /\ next_ping_ms \in Nat /\ last_sent_ms \in Nat
  BY <1>1 DEF TypeOK, Pings, Shutdowns
<1>4. /\ clock \in Nat /\ now_ms \in Nat /\ wake_ms \in Nat /\ lag \in Nat
      /\ clock <= MaxClock /\ lag <= MaxLag
  BY <1>1 DEF TypeOK
<1> QED BY <1>1, <1>2, <1>3, <1>4 DEF Late

\* poll() is given no more time than is left until each deadline that is armed
\* and not due, unless the watchdog's lies beyond the overflow mark.
LEMMA WaitIsShort ==
    ASSUME TypeOK
    PROVE  /\ ping.waiting /\ ping.deadline_ms > now_ms =>
                  wait_timeout_ms <= ping.deadline_ms - now_ms
           /\ shutdown.pending /\ shutdown.deadline_ms > now_ms =>
                  wait_timeout_ms <= shutdown.deadline_ms - now_ms
           /\ config.watchdog_interval_ms > 0
                  /\ last_sent_ms + config.watchdog_interval_ms > now_ms
                  /\ last_sent_ms + config.watchdog_interval_ms < U64MAX =>
                  wait_timeout_ms <=
                      (last_sent_ms + config.watchdog_interval_ms) - now_ms
<1> DEFINE probe == monitor_deadline_timeout_ms(
                        now_ms,
                        IF ping.waiting THEN ping.deadline_ms ELSE next_ping_ms)
           countdown == monitor_timeout_min(
                            probe, ShutdownTimeout(now_ms, shutdown, probe))
           watchdog == WatchdogTimeout(now_ms, last_sent_ms,
                                       config.watchdog_interval_ms, countdown)
<1>1. ASSUME NEW n \in Nat, NEW d \in Nat
      PROVE  /\ monitor_deadline_timeout_ms(n, d) \in 0..INT_MAX
             /\ d > n => monitor_deadline_timeout_ms(n, d) <= d - n
  BY WidthAssumption DEF monitor_deadline_timeout_ms
<1>2. ASSUME NEW a \in Int, NEW b \in Int
      PROVE  /\ monitor_timeout_min(a, b) <= a /\ monitor_timeout_min(a, b) <= b
             /\ monitor_timeout_min(a, b) \in Int
  BY DEF monitor_timeout_min
<1>3. /\ probe \in Int
      /\ ping.waiting /\ ping.deadline_ms > now_ms =>
             probe <= ping.deadline_ms - now_ms
  <2>1. CASE ping.waiting
    <3>1. probe = monitor_deadline_timeout_ms(now_ms, ping.deadline_ms)
      BY <2>1
    <3> HIDE DEF probe
    <3>2. /\ probe \in 0..INT_MAX
          /\ ping.deadline_ms > now_ms => probe <= ping.deadline_ms - now_ms
      BY <1>1, <3>1, LatenessTypes
    <3> QED BY <3>2, WidthAssumption
  <2>2. CASE ~ping.waiting
    <3>1. probe = monitor_deadline_timeout_ms(now_ms, next_ping_ms)
      BY <2>2
    <3> HIDE DEF probe
    <3>2. probe \in 0..INT_MAX
      BY <1>1, <3>1, LatenessTypes
    <3> QED BY <2>2, <3>2, WidthAssumption
  <2> QED BY <2>1, <2>2
<1> HIDE DEF probe
<1>4. /\ countdown \in Int /\ countdown <= probe
      /\ shutdown.pending /\ shutdown.deadline_ms > now_ms =>
             countdown <= shutdown.deadline_ms - now_ms
  <2> DEFINE limit == ShutdownTimeout(now_ms, shutdown, probe)
  <2>1. CASE shutdown.pending
    <3>1. limit = monitor_deadline_timeout_ms(now_ms, shutdown.deadline_ms)
      BY <2>1 DEF ShutdownTimeout
    <3>2. /\ limit \in Int
          /\ shutdown.deadline_ms > now_ms =>
                 limit <= shutdown.deadline_ms - now_ms
      <4> HIDE DEF limit
      <4>1. /\ limit \in 0..INT_MAX
            /\ shutdown.deadline_ms > now_ms =>
                   limit <= shutdown.deadline_ms - now_ms
        BY <1>1, <3>1, LatenessTypes
      <4> QED BY <4>1, WidthAssumption
    <3> HIDE DEF limit
    <3>3. /\ monitor_timeout_min(probe, limit) \in Int
          /\ monitor_timeout_min(probe, limit) <= probe
          /\ monitor_timeout_min(probe, limit) <= limit
      BY <1>2, <1>3, <3>2
    <3>4. countdown = monitor_timeout_min(probe, limit)
      BY DEF limit
    <3> HIDE DEF countdown
    <3> QED BY <1>3, <3>2, <3>3, <3>4, LatenessTypes
  <2>2. CASE ~shutdown.pending
    <3>1. limit = probe
      BY <2>2 DEF ShutdownTimeout
    <3> HIDE DEF limit
    <3>2. countdown = monitor_timeout_min(probe, limit)
      BY DEF limit
    <3> HIDE DEF countdown
    <3> QED BY <1>2, <1>3, <2>2, <3>1, <3>2
  <2> QED BY <2>1, <2>2
<1> HIDE DEF countdown
<1>5. /\ watchdog \in Int
      /\ config.watchdog_interval_ms > 0
         /\ last_sent_ms + config.watchdog_interval_ms > now_ms
         /\ last_sent_ms + config.watchdog_interval_ms < U64MAX
         => watchdog <= last_sent_ms + config.watchdog_interval_ms - now_ms
  <2> DEFINE deadline == monitor_deadline_add_ms(
                             last_sent_ms, config.watchdog_interval_ms)
  <2>1. /\ deadline \in Nat
        /\ last_sent_ms + config.watchdog_interval_ms < U64MAX =>
               deadline = last_sent_ms + config.watchdog_interval_ms
    BY LatenessTypes DEF monitor_deadline_add_ms
  <2>2. watchdog = IF config.watchdog_interval_ms = 0 THEN countdown
                   ELSE IF deadline = U64MAX THEN INT_MAX
                   ELSE monitor_deadline_timeout_ms(now_ms, deadline)
    BY DEF WatchdogTimeout
  <2> HIDE DEF deadline, watchdog
  <2>3. /\ monitor_deadline_timeout_ms(now_ms, deadline) \in Int
        /\ deadline > now_ms =>
               monitor_deadline_timeout_ms(now_ms, deadline) <= deadline - now_ms
    <3>1. /\ monitor_deadline_timeout_ms(now_ms, deadline) \in 0..INT_MAX
          /\ deadline > now_ms =>
                 monitor_deadline_timeout_ms(now_ms, deadline)
                     <= deadline - now_ms
      BY <1>1, <2>1, LatenessTypes
    <3> QED BY <3>1, WidthAssumption
  <2> QED BY <1>4, <2>1, <2>2, <2>3, LatenessTypes, WidthAssumption
<1> HIDE DEF watchdog
<1>6. wait_timeout_ms = monitor_timeout_min(countdown, watchdog)
  BY DEF wait_timeout_ms, monitor_state_wait_timeout, countdown, probe, watchdog
<1>7. /\ wait_timeout_ms \in Int /\ wait_timeout_ms <= countdown
      /\ wait_timeout_ms <= watchdog
  BY <1>2, <1>4, <1>5, <1>6
<1> QED BY <1>3, <1>4, <1>5, <1>7, LatenessTypes

\* A command takes no longer than CommandMax.
LEMMA CommandTime ==
    ASSUME TypeOK, NEW resume, shutdown_fsm_execute(resume)
    PROVE  clock' \in Nat /\ clock' <= clock + CommandMax
           /\ clock <= clock' /\ pc' \in {"exiting", resume}
<1>1. clock \in Nat /\ CommandMax \in Nat
  BY LatenessTypes
<1>2. clock' = clock \/ \E d \in 0..CommandMax : clock' = clock + d
  BY DEF shutdown_fsm_execute
<1>3. pc' \in {"exiting", resume}
  BY DEF shutdown_fsm_execute
<1> QED BY <1>1, <1>2, <1>3

\* Most handlers only pass the turn on.
LEMMA HandedOn ==
    ASSUME ClockIsFresh, TypeOK,
           UNCHANGED <<config, clock, now_ms, lag, wake_ms>>,
           \/ pc' = pc
           \/ pc = "tick" /\ pc' = "watchdog"
           \/ pc = "watchdog" /\ pc' = "ping_timeout"
           \/ /\ pc \in {"ping_timeout", "scheduler"}
              /\ pc' \in {"scheduler", "poll"}
           \/ pc' \in {"head", "exiting", "exited"}
    PROVE  ClockIsFresh'
<1>1. /\ clock \in Nat /\ now_ms \in Nat /\ lag \in Nat /\ CommandMax \in Nat
      /\ now_ms + lag <= now_ms + lag + CommandMax
  BY LatenessTypes
<1>2. pc = "tick" => clock <= now_ms + lag + CommandMax
  BY <1>1 DEF ClockIsFresh
<1> QED BY <1>1, <1>2 DEF ClockIsFresh

\* No handler works with a clock older than its pass may make it.
LEMMA ClockStep ==
    ASSUME "clock" \notin Faults, CauseInv, ClockIsFresh, [Next]_vars
    PROVE  ClockIsFresh'
<1>a. /\ TypeOK
      /\ clock \in Nat /\ now_ms \in Nat /\ wake_ms \in Nat /\ lag \in Nat
      /\ clock <= MaxClock /\ lag <= MaxLag
      /\ MaxLag \in Nat /\ CommandMax \in Nat
      /\ now_ms <= clock
  BY LatenessTypes DEF CauseInv, ClockIsFresh
<1>1. CASE LoopHead
  <2>1. /\ now_ms' = clock /\ pc' = "tick"
        /\ UNCHANGED <<config, clock, lag>>
    BY <1>1 DEF LoopHead, monitor_refresh_time, timers, environment, history
  <2> QED BY <1>a, <2>1 DEF ClockIsFresh
<1>2. CASE TickElapsed
  <2>1. /\ clock' \in Nat /\ clock' <= clock + CommandMax /\ clock <= clock'
        /\ pc' \in {"exiting", "watchdog"}
    BY <1>2, <1>a, CommandTime DEF TickElapsed
  <2>2. /\ pc = "tick" /\ UNCHANGED <<config, now_ms, lag>>
        /\ shutdown.pending
    BY <1>2 DEF TickElapsed, shutdown_deadline_elapsed
  <2>3. config.delay_ms # 0
    BY <2>2, SettledFacts DEF CauseInv, MissesAreLast
  <2>4. clock <= now_ms + lag
    BY <2>2 DEF ClockIsFresh
  <2> QED BY <1>a, <2>1, <2>2, <2>3, <2>4 DEF ClockIsFresh
<1>3. CASE MissExecute
  <2>1. /\ clock' \in Nat /\ clock' <= clock + CommandMax /\ clock <= clock'
        /\ pc' \in {"exiting", "scheduler"}
    BY <1>3, <1>a, CommandTime DEF MissExecute
  <2>2. /\ pc = "ping_timeout" /\ UNCHANGED <<config, now_ms, lag>>
        /\ config.delay_ms = 0
    BY <1>3 DEF MissExecute, ProbeMissed
  <2>3. clock <= now_ms + lag
    BY <2>2 DEF ClockIsFresh
  <2> QED BY <1>a, <2>1, <2>2, <2>3 DEF ClockIsFresh
<1>4. CASE SendProbe
  <2>1. /\ UNCHANGED <<config, clock, now_ms, lag>>
        /\ pc = "scheduler" /\ pc' \in {"poll", "exiting"}
    BY <1>4 DEF SendProbe, environment
  <2>2. clock <= now_ms + lag + CommandMax
    BY <2>1 DEF ClockIsFresh
  <2> QED BY <1>a, <2>1, <2>2 DEF ClockIsFresh
<1>5. CASE PollEnter
  <2>1. /\ UNCHANGED <<config, clock, now_ms>> /\ lag' = 0
        /\ pc' = "polling" /\ wake_ms' = clock + wait_timeout_ms
    BY <1>5 DEF PollEnter, timers, history
  <2>2. wait_timeout_ms \in Nat
    BY <1>a, WaitTimeout
  <2> QED BY <1>a, <2>1, <2>2 DEF ClockIsFresh
<1>6. CASE HandlePollEvents
  <2>1. CASE PollFailed
    <3>1. /\ UNCHANGED <<config, clock, lag>>
          /\ now_ms' \in {clock, now_ms} /\ pc' = "exiting"
      BY <2>1 DEF PollFailed, monitor_refresh_time, timers, environment, history
    <3> QED BY <1>a, <3>1 DEF ClockIsFresh
  <2>2. CASE ~PollFailed
    <3>1. PollWoken /\ pc' \in {"head", "exiting"}
      BY <1>6, <2>2
      DEF HandlePollEvents, ReplyAccepted, NothingAccepted, ReceiveFailed
    <3>2. UNCHANGED <<config, clock, lag>> /\ now_ms' = clock
      BY <3>1 DEF PollWoken, monitor_refresh_time
    <3> QED BY <1>a, <3>1, <3>2 DEF ClockIsFresh
  <2> QED BY <2>1, <2>2
<1>7. CASE TimePasses
  <2>1. /\ UNCHANGED <<config, now_ms, wake_ms, pc>>
        /\ clock' = clock + 1
        /\ \/ pc = "polling" /\ clock < wake_ms /\ lag' = lag
           \/ lag' = lag + 1
    BY <1>7 DEF TimePasses, Blocked, loop, timers, history
  <2> QED BY <1>a, <2>1 DEF ClockIsFresh
<1>8. CASE LoopStop \/ ExitLoop
  BY <1>8, <1>a, HandedOn DEF LoopStop, ExitLoop, timers, environment, history
<1>9. CASE TickIdle \/ HandleWatchdog \/ TimeoutIdle \/ SchedulerIdle
           \/ SendFailed
  BY <1>9, <1>a, HandedOn
  DEF TickIdle, HandleWatchdog, TimeoutIdle, SchedulerIdle, SendFailed, timers,
      environment, history
<1>10. CASE MissBelowThreshold \/ MissLogOnly \/ MissWhilePending
            \/ MissArmCountdown
  <2>1. /\ ProbeMissed /\ pc' = "scheduler" /\ clock' = clock
    BY <1>10 DEF MissBelowThreshold, MissLogOnly, MissWhilePending,
                 MissArmCountdown
  <2>2. pc = "ping_timeout" /\ UNCHANGED <<config, now_ms, lag, wake_ms>>
    BY <2>1 DEF ProbeMissed
  <2> QED BY <1>a, <2>1, <2>2, HandedOn
<1>11. CASE ReplyArrives \/ ForeignArrives \/ SignalRaised \/ UNCHANGED vars
  BY <1>11, <1>a, HandedOn
  DEF ReplyArrives, ForeignArrives, Deliver, SignalRaised, vars, loop, timers,
      environment, history
<1> QED
  BY <1>1, <1>2, <1>3, <1>4, <1>5, <1>6, <1>7, <1>8, <1>9, <1>10, <1>11
  DEF Next, Process, Environment, HandleTick, HandlePingTimeout,
      HandleScheduler

\* How a step moves the clock, the sleep and the turn: what a deadline that is
\* on its way depends on.
LEMMA WaySteps ==
    ASSUME "clock" \notin Faults, TypeOK, [Next]_vars
    PROVE  \/ UNCHANGED <<clock, lag, wake_ms, pc>>
           \/ /\ UNCHANGED <<clock, lag>>
              /\ \/ pc = "head" /\ pc' = "tick"
                 \/ pc = "tick" /\ pc' = "watchdog"
                 \/ pc = "watchdog" /\ pc' = "ping_timeout"
                 \/ pc = "polling" /\ pc' = "head"
                 \/ pc' \in {"scheduler", "poll", "exiting", "exited"}
           \/ /\ clock' \in Nat /\ clock' <= clock + CommandMax /\ lag' = lag
              /\ \/ pc = "tick" /\ pc' = "watchdog"
                 \/ pc' \in {"scheduler", "exiting"}
           \/ /\ pc = "poll" /\ pc' = "polling"
              /\ wake_ms' = clock + wait_timeout_ms
           \/ /\ UNCHANGED <<wake_ms, pc>> /\ clock' = clock + 1
              /\ pc # "polling" => lag' = lag + 1
<1>1. CASE HandleTick \/ HandlePingTimeout
  <2>1. CASE TickElapsed
    <3>1. /\ clock' \in Nat /\ clock' <= clock + CommandMax
          /\ pc' \in {"exiting", "watchdog"}
      BY <2>1, CommandTime DEF TickElapsed
    <3> QED BY <2>1, <3>1 DEF TickElapsed
  <2>2. CASE MissExecute
    <3>1. /\ clock' \in Nat /\ clock' <= clock + CommandMax
          /\ pc' \in {"exiting", "scheduler"}
      BY <2>2, CommandTime DEF MissExecute
    <3> QED BY <2>2, <3>1 DEF MissExecute, ProbeMissed
  <2>3. CASE ~TickElapsed /\ ~MissExecute
    BY <1>1, <2>3
    DEF HandleTick, TickIdle, HandlePingTimeout, TimeoutIdle,
        MissBelowThreshold, MissLogOnly, MissWhilePending, MissArmCountdown,
        ProbeMissed, environment
  <2> QED BY <2>1, <2>2, <2>3
<1>2. CASE LoopHead \/ LoopStop \/ HandleWatchdog \/ HandleScheduler
           \/ PollEnter \/ ExitLoop
  BY <1>2 DEF LoopHead, LoopStop, HandleWatchdog, HandleScheduler,
     SchedulerIdle, SendFailed, SendProbe, PollEnter, ExitLoop, environment
<1>3. CASE HandlePollEvents
  BY <1>3 DEF HandlePollEvents, ReplyAccepted, NothingAccepted, ReceiveFailed,
     PollFailed, PollWoken, PollReturns, environment
<1>4. CASE Environment \/ UNCHANGED vars
  BY <1>4 DEF Environment, TimePasses, Blocked, ReplyArrives, ForeignArrives,
     Deliver, SignalRaised, vars, loop, environment
<1> QED BY <1>1, <1>2, <1>3, <1>4 DEF Next, Process

\* poll() is left in time for a deadline that its timeout respects, and nothing
\* but a command delays what comes before its handler.
LEMMA WayStep ==
    ASSUME "clock" \notin Faults, TypeOK, ClockIsFresh, [Next]_vars,
           NEW deadline \in Nat, NEW before,
           before \subseteq {"watchdog", "ping_timeout"},
           "ping_timeout" \in before => "watchdog" \in before,
           OnItsWay(deadline, before),
           pc = "poll" => \/ wait_timeout_ms <= deadline - now_ms
                          \/ deadline >= MaxClock
    PROVE  OnItsWay(deadline, before)'
<1>a. /\ clock \in Nat /\ now_ms \in Nat /\ wake_ms \in Nat /\ lag \in Nat
      /\ clock <= MaxClock /\ lag <= MaxLag /\ MaxClock \in Nat
      /\ MaxLag \in Nat /\ CommandMax \in Nat
      /\ Late = MaxLag + CommandMax /\ Late \in Nat
      /\ lag' \in Nat /\ clock' \in Nat
  <2>1. TypeOK'
    BY TypeStep
  <2>2. lag' \in Nat /\ clock' \in Nat
    BY <2>1, EnvironmentAssumption DEF TypeOK
  <2> QED BY <2>2, LatenessTypes
<1>b. /\ pc \in {"head", "tick"} => clock <= deadline + Late + lag
      /\ pc \in before => clock <= deadline + Late + lag + CommandMax
      /\ pc = "polling" => wake_ms <= deadline + Late \/ deadline >= MaxClock
      /\ pc = "polling" => clock <= wake_ms + lag
      /\ pc = "poll" => clock <= now_ms + lag + CommandMax
  BY DEF OnItsWay, ClockIsFresh
<1>c. Late' = Late
  BY DEF Late
<1> SUFFICES
        /\ pc' \in {"head", "tick"} => clock' <= deadline + Late + lag'
        /\ pc' \in before => clock' <= deadline + Late + lag' + CommandMax
        /\ pc' = "polling" =>
               wake_ms' <= deadline + Late \/ deadline >= MaxClock
  BY <1>c DEF OnItsWay
<1>1. CASE UNCHANGED <<clock, lag, wake_ms, pc>>
  BY <1>1, <1>b
<1>2. CASE /\ UNCHANGED <<clock, lag>>
           /\ \/ pc = "head" /\ pc' = "tick"
              \/ pc = "tick" /\ pc' = "watchdog"
              \/ pc = "watchdog" /\ pc' = "ping_timeout"
              \/ pc = "polling" /\ pc' = "head"
              \/ pc' \in {"scheduler", "poll", "exiting", "exited"}
  <2>1. CASE pc = "polling" /\ pc' = "head"
    BY <1>2, <1>a, <1>b, <2>1
  <2>2. CASE ~(pc = "polling" /\ pc' = "head")
    BY <1>2, <1>a, <1>b, <2>2
  <2> QED BY <2>1, <2>2
<1>3. CASE /\ clock' \in Nat /\ clock' <= clock + CommandMax /\ lag' = lag
           /\ \/ pc = "tick" /\ pc' = "watchdog"
              \/ pc' \in {"scheduler", "exiting"}
  BY <1>3, <1>a, <1>b
<1>4. CASE /\ pc = "poll" /\ pc' = "polling"
           /\ wake_ms' = clock + wait_timeout_ms
  <2>1. wait_timeout_ms \in Int
    <3>1. wait_timeout_ms \in 0..INT_MAX
      BY WaitTimeout
    <3> QED BY <3>1, WidthAssumption
  <2>2. pc' \notin before
    BY <1>4
  <2>3. ASSUME wait_timeout_ms <= deadline - now_ms
        PROVE  clock + wait_timeout_ms <= deadline + Late
    <3>1. ASSUME NEW w \in Int, NEW c \in Int, NEW n \in Int, NEW l \in Int,
                 NEW d \in Int, NEW m \in Int, NEW k \in Int,
                 w <= d - n, c <= n + l + k, l <= m
          PROVE  c + w <= d + (m + k)
      BY <3>1
    <3>2. clock <= now_ms + lag + CommandMax
      BY <1>4, <1>b
    <3> QED BY <1>a, <2>1, <2>3, <3>1, <3>2
  <2>4. \/ wake_ms' <= deadline + Late
        \/ deadline >= MaxClock
    BY <1>4, <2>3
  <2> QED BY <1>4, <2>2, <2>4
<1>5. CASE /\ UNCHANGED <<wake_ms, pc>> /\ clock' = clock + 1
           /\ pc # "polling" => lag' = lag + 1
  <2>1. CASE pc = "polling"
    BY <1>5, <1>b, <2>1
  <2>2. CASE pc # "polling"
    <3>1. lag' = lag + 1 /\ clock' = clock + 1 /\ pc' = pc
      BY <1>5, <2>2
    <3>2. pc \in {"head", "tick"} => clock + 1 <= deadline + Late + (lag + 1)
      BY <1>a, <1>b
    <3>3. pc \in before =>
              clock + 1 <= deadline + Late + (lag + 1) + CommandMax
      BY <1>a, <1>b
    <3> QED BY <2>2, <3>1, <3>2, <3>3
  <2> QED BY <2>1, <2>2
<1> QED BY <1>1, <1>2, <1>3, <1>4, <1>5, WaySteps

\* Where a deadline is set it is on its way: poll() comes next.
LEMMA WayStarts ==
    ASSUME NEW deadline, NEW before,
           pc \notin {"head", "tick", "polling"} \cup before
    PROVE  OnItsWay(deadline, before)
  BY DEF OnItsWay

\* The steps that move a timer.
LEMMA TimerSteps ==
    ASSUME [Next]_vars
    PROVE  /\ ping'.waiting => ping' = ping \/ SendProbe
           /\ shutdown'.pending => shutdown' = shutdown \/ MissArmCountdown
           /\ last_sent_ms' = last_sent_ms \/ HandleWatchdog
           /\ config' = config
<1>1. NoPing.waiting = FALSE /\ NoShutdown.pending = FALSE
  BY DEF NoPing, NoShutdown
<1>2. CASE Process
  BY <1>1, <1>2
  DEF Process, LoopHead, LoopStop, HandleTick, TickIdle, TickElapsed,
      HandlePingTimeout, TimeoutIdle, MissBelowThreshold, MissLogOnly,
      MissExecute, MissWhilePending, ProbeMissed, HandleWatchdog,
      MissArmCountdown, HandleScheduler, SchedulerIdle, SendFailed, SendProbe,
      PollEnter, HandlePollEvents, ReplyAccepted, NothingAccepted,
      ReceiveFailed, PollFailed, PollWoken, ExitLoop, monitor_ping_clear,
      monitor_shutdown_clear, handle_ping_success, timers
<1>3. CASE Environment \/ UNCHANGED vars
  BY <1>3 DEF Environment, TimePasses, ReplyArrives, ForeignArrives, Deliver,
     SignalRaised, vars, timers
<1> QED BY <1>2, <1>3 DEF Next

\* poll() respects the watchdog's deadline, unless it lies beyond the horizon.
LEMMA WatchdogWait ==
    ASSUME TypeOK, config.watchdog_interval_ms > 0,
           last_sent_ms + config.watchdog_interval_ms > now_ms
    PROVE  \/ wait_timeout_ms <=
                  (last_sent_ms + config.watchdog_interval_ms) - now_ms
           \/ last_sent_ms + config.watchdog_interval_ms >= MaxClock
<1>1. \/ last_sent_ms + config.watchdog_interval_ms < U64MAX
      \/ last_sent_ms + config.watchdog_interval_ms >= MaxClock
  BY LatenessTypes
<1> QED BY <1>1, WaitIsShort

\* In poll() the watchdog's deadline lies ahead, so that poll() respects it.
LEMMA WatchdogPoll ==
    ASSUME TypeOK, TimersAreOnTheirWay, pc = "poll",
           config.watchdog_interval_ms > 0, "notify" \notin Faults
    PROVE  \/ wait_timeout_ms <=
                  (last_sent_ms + config.watchdog_interval_ms) - now_ms
           \/ last_sent_ms + config.watchdog_interval_ms >= MaxClock
<1>1. last_sent_ms + config.watchdog_interval_ms > now_ms
  BY DEF TimersAreOnTheirWay
<1> QED BY <1>1, WatchdogWait

\* Every armed timer stays on its way until it is served.
LEMMA TimersStep ==
    ASSUME "clock" \notin Faults, LatenessInv, [Next]_vars
    PROVE  TimersAreOnTheirWay'
<1>a. /\ TypeOK /\ NothingLeftDue /\ ClockIsFresh /\ TimersAreOnTheirWay
      /\ config' = config
  BY TimerSteps DEF LatenessInv, CauseInv
<1>b. /\ ping.deadline_ms \in Nat /\ shutdown.deadline_ms \in Nat
      /\ last_sent_ms \in Nat /\ config.watchdog_interval_ms \in Nat
      /\ now_ms \in Nat /\ MaxClock \in Nat /\ MaxClock < U64MAX
      /\ U64MAX \in Nat /\ last_sent_ms' \in Nat
  <2>1. last_sent_ms' \in Nat
    <3>1. TypeOK'
      BY <1>a, TypeStep
    <3> QED BY <3>1, EnvironmentAssumption DEF TypeOK
  <2> QED BY <1>a, <2>1, LatenessTypes
<1>1. ASSUME ping'.waiting
      PROVE  OnItsWay(ping.deadline_ms, {"watchdog", "ping_timeout"})'
  <2>1. CASE ping' = ping
    <3>1. OnItsWay(ping.deadline_ms, {"watchdog", "ping_timeout"})
      BY <1>1, <1>a, <2>1 DEF TimersAreOnTheirWay
    <3>2. pc = "poll" => wait_timeout_ms <= ping.deadline_ms - now_ms
      BY <1>1, <1>a, <2>1, WaitIsShort DEF NothingLeftDue
    <3>3. ASSUME NEW d \in Nat, d = ping.deadline_ms
          PROVE  OnItsWay(d, {"watchdog", "ping_timeout"})'
      BY <1>a, <3>1, <3>2, <3>3, WayStep
    <3>4. \A d \in Nat : d = ping.deadline_ms =>
              OnItsWay(d, {"watchdog", "ping_timeout"})'
      BY <3>3
    <3> QED BY <1>b, <2>1, <3>4 DEF OnItsWay
  <2>2. CASE SendProbe
    BY <2>2, WayStarts DEF SendProbe, OnItsWay
  <2> QED BY <1>1, <2>1, <2>2, TimerSteps
<1>2. ASSUME shutdown'.pending
      PROVE  OnItsWay(shutdown.deadline_ms, {})'
  <2>1. CASE shutdown' = shutdown
    <3>1. OnItsWay(shutdown.deadline_ms, {})
      BY <1>2, <1>a, <2>1 DEF TimersAreOnTheirWay
    <3>2. pc = "poll" => wait_timeout_ms <= shutdown.deadline_ms - now_ms
      BY <1>2, <1>a, <2>1, WaitIsShort DEF NothingLeftDue
    <3>3. ASSUME NEW d \in Nat, d = shutdown.deadline_ms
          PROVE  OnItsWay(d, {})'
      BY <1>a, <3>1, <3>2, <3>3, WayStep
    <3>4. \A d \in Nat : d = shutdown.deadline_ms => OnItsWay(d, {})'
      BY <3>3
    <3> QED BY <1>b, <2>1, <3>4 DEF OnItsWay
  <2>2. CASE MissArmCountdown
    BY <2>2 DEF MissArmCountdown, OnItsWay
  <2> QED BY <1>2, <2>1, <2>2, TimerSteps
<1> DEFINE due_ms == last_sent_ms + config.watchdog_interval_ms
<1>3. ASSUME config.watchdog_interval_ms > 0, "notify" \notin Faults
      PROVE  OnItsWay(due_ms, {"watchdog"})'
  <2>1. CASE last_sent_ms' = last_sent_ms
    <3>1. OnItsWay(due_ms, {"watchdog"})
      BY <1>3, <1>a DEF TimersAreOnTheirWay
    <3>2. pc = "poll" => wait_timeout_ms <= due_ms - now_ms \/ due_ms >= MaxClock
      BY <1>3, <1>a, WatchdogPoll
    <3>3. due_ms \in Nat /\ due_ms' = due_ms
      BY <1>a, <1>b, <2>1
    <3>4. ASSUME NEW d \in Nat, d = due_ms
          PROVE  OnItsWay(d, {"watchdog"})'
      BY <1>a, <3>1, <3>2, <3>4, WayStep
    <3>5. \A d \in Nat : d = due_ms => OnItsWay(d, {"watchdog"})'
      BY <3>4
    <3> HIDE DEF due_ms
    <3> QED BY <3>3, <3>5 DEF OnItsWay
  <2>2. CASE HandleWatchdog
    BY <2>2 DEF HandleWatchdog, OnItsWay
  <2> QED BY <2>1, <2>2, TimerSteps
<1>4. ASSUME config.watchdog_interval_ms > 0, "notify" \notin Faults,
             pc' \in {"ping_timeout", "scheduler", "poll"}
      PROVE  due_ms' > now_ms'
  <2>1. CASE HandleWatchdog
    BY <2>1, <1>4, <1>b DEF HandleWatchdog, monitor_watchdog_due
  <2>2. CASE ~HandleWatchdog
    <3>1. last_sent_ms' = last_sent_ms
      BY <2>2, TimerSteps
    <3>2. now_ms' = now_ms /\ pc \in {"ping_timeout", "scheduler", "poll"}
      BY <2>2, <1>4
      DEF Next, Process, Environment, LoopHead, LoopStop, HandleTick, TickIdle,
          TickElapsed, HandlePingTimeout, TimeoutIdle, MissBelowThreshold,
          MissLogOnly, MissExecute, MissWhilePending, MissArmCountdown,
          ProbeMissed, shutdown_fsm_execute, HandleScheduler, SchedulerIdle,
          SendFailed, SendProbe, PollEnter, HandlePollEvents, ReplyAccepted,
          NothingAccepted, ReceiveFailed, PollFailed, ExitLoop, TimePasses,
          ReplyArrives, ForeignArrives, Deliver, SignalRaised, vars, loop
    <3>3. due_ms > now_ms
      BY <1>4, <1>a, <3>2 DEF TimersAreOnTheirWay
    <3> QED BY <1>a, <3>1, <3>2, <3>3
  <2> QED BY <2>1, <2>2
<1> QED BY <1>1, <1>2, <1>3, <1>4, <1>a DEF TimersAreOnTheirWay

\* While the clock can be read, everything the reactor knows of the time is an
\* invariant.
LEMMA LatenessInvariant ==
    ASSUME "clock" \notin Faults
    PROVE  Spec => []LatenessInv
<1>1. Init => LatenessInv
  <2> SUFFICES ASSUME Init
               PROVE  NothingLeftDue /\ ClockIsFresh /\ TimersAreOnTheirWay
    BY CauseInit DEF LatenessInv
  <2>1. /\ pc = "head" /\ clock = 0 /\ now_ms = 0 /\ lag = 0 /\ last_sent_ms = 0
        /\ ping.waiting = FALSE /\ shutdown.pending = FALSE
    BY DEF Init, NoPing, NoShutdown
  <2>2. Late \in Nat /\ config.watchdog_interval_ms \in Nat
    BY TypeInit, LatenessTypes
  <2> QED BY <2>1, <2>2
          DEF NothingLeftDue, ClockIsFresh, TimersAreOnTheirWay, OnItsWay
<1>2. LatenessInv /\ [Next]_vars => LatenessInv'
  <2> SUFFICES ASSUME LatenessInv, [Next]_vars PROVE LatenessInv'
    OBVIOUS
  <2>1. CauseInv /\ ClockIsFresh /\ SleepInv
    BY DEF LatenessInv, SleepInv, CauseInv
  <2>2. CauseInv' /\ ClockIsFresh' /\ SleepInv' /\ TimersAreOnTheirWay'
    BY <2>1, CauseStep, ClockStep, SleepStep, TimersStep
  <2> QED BY <2>2 DEF LatenessInv, SleepInv
<1> QED BY <1>1, <1>2, PTL DEF Spec

\* What is on its way is not yet late.
LEMMA OnItsWayInTime ==
    ASSUME LatenessInv, Running, NEW deadline \in Nat, NEW before,
           OnItsWay(deadline, before),
           pc \in {"watchdog", "ping_timeout", "scheduler", "poll"} \ before =>
               deadline > now_ms
    PROVE  clock <= deadline + Slack
<1>1. TypeOK /\ ClockIsFresh
  BY DEF LatenessInv, CauseInv
<1>2. /\ clock \in Nat /\ now_ms \in Nat /\ wake_ms \in Nat /\ lag \in Nat
      /\ clock <= MaxClock /\ lag <= MaxLag /\ MaxClock \in Nat
      /\ MaxLag \in Nat /\ CommandMax \in Nat
      /\ Late = MaxLag + CommandMax /\ Slack = 2 * Late
  BY <1>1, LatenessTypes DEF Slack
<1>3. CASE pc \in {"head", "tick"} \cup before
  BY <1>2, <1>3 DEF OnItsWay
<1>4. CASE pc = "polling"
  <2>1. clock <= wake_ms + lag
    BY <1>1, <1>4 DEF ClockIsFresh
  <2>2. wake_ms <= deadline + Late \/ deadline >= MaxClock
    BY <1>4 DEF OnItsWay
  <2> QED BY <1>2, <2>1, <2>2
<1>5. CASE pc \in {"watchdog", "ping_timeout", "scheduler", "poll"} \ before
  <2>1. clock <= now_ms + lag + CommandMax /\ deadline > now_ms
    BY <1>1, <1>5 DEF ClockIsFresh
  <2> QED BY <1>2, <2>1
<1> QED BY <1>1, <1>3, <1>4, <1>5 DEF Running, TypeOK, Stages

\* While the clock can be read no armed timer is slept through: each is served
\* within two passes of the loop, whatever else is due or goes wrong.
THEOREM InTime == Spec => []TimersServed
<1>1. CASE "clock" \in Faults
  <2>1. TimersServed
    BY <1>1 DEF TimersServed
  <2> QED BY <2>1, PTL
<1>2. CASE "clock" \notin Faults
  <2>1. LatenessInv => TimersServed
    <3> SUFFICES ASSUME LatenessInv, Running PROVE TimersServed
      BY DEF TimersServed
    <3>a. TypeOK /\ TimersAreOnTheirWay /\ NothingLeftDue
      BY DEF LatenessInv, CauseInv
    <3>b. /\ ping.deadline_ms \in Nat /\ shutdown.deadline_ms \in Nat
          /\ last_sent_ms + config.watchdog_interval_ms \in Nat
      BY <3>a, LatenessTypes
    <3>1. ping.waiting => clock <= ping.deadline_ms + Slack
      BY <3>a, <3>b, OnItsWayInTime DEF TimersAreOnTheirWay, NothingLeftDue
    <3>2. shutdown.pending => clock <= shutdown.deadline_ms + Slack
      BY <3>a, <3>b, OnItsWayInTime DEF TimersAreOnTheirWay, NothingLeftDue
    <3>3. config.watchdog_interval_ms > 0 /\ "notify" \notin Faults =>
              clock <= last_sent_ms + config.watchdog_interval_ms + Slack
      BY <3>a, <3>b, OnItsWayInTime DEF TimersAreOnTheirWay
    <3> QED BY <3>1, <3>2, <3>3 DEF TimersServed
  <2>2. Spec => []LatenessInv
    BY <1>2, LatenessInvariant
  <2> QED BY <2>1, <2>2, PTL
<1> QED BY <1>1, <1>2

-----------------------------------------------------------------------------
(* Neither a shutdown nor the loss of a probe is early.                    *)

\* More intervals last longer.
LEMMA Intervals ==
    ASSUME NEW a \in Nat, NEW b \in Nat, NEW i \in Nat, a >= b
    PROVE  a * i \in Nat /\ b * i \in Nat /\ a * i >= b * i
<1>1. a * i \in Nat /\ b * i \in Nat /\ (a - b) * i \in Nat
  OBVIOUS
<1>2. a * i = b * i + (a - b) * i
  OBVIOUS
<1> QED BY <1>1, <1>2

\* One interval more than n of them.
LEMMA OneMore ==
    ASSUME NEW a \in Nat, NEW i \in Nat
    PROVE  (a + 1) * i = a * i + i /\ a * i \in Nat
  OBVIOUS

\* The types the timing argument needs.
LEMMA TimingTypes ==
    ASSUME TimingInv
    PROVE  /\ Len(wire) \in Nat /\ wire \in Seq(Probes)
           /\ \A k \in 1..Len(wire) : SentAfter(k) \in Int
           /\ now_ms \in Nat /\ next_ping_ms \in Nat
           /\ ping.send_time_ms \in Nat
           /\ ping.deadline_ms \in Nat /\ shutdown.deadline_ms \in Nat
           /\ config.interval_ms \in Nat /\ config.timeout_ms \in Nat
           /\ ObservedOutage \in Nat /\ Late \in Nat /\ clock \in Nat
<1>1. TypeOK
  BY DEF TimingInv, CauseInv
<1>2. /\ config.interval_ms \in Nat /\ config.timeout_ms \in Nat
      /\ config.fail_threshold \in Nat \ {0}
  BY <1>1, ConfigFacts DEF TypeOK
<1>3. ObservedOutage \in Nat
  BY <1>2 DEF ObservedOutage
<1>4. /\ now_ms \in Nat /\ next_ping_ms \in Nat /\ Late \in Nat /\ clock \in Nat
      /\ ping.deadline_ms \in Nat /\ shutdown.deadline_ms \in Nat
  BY <1>1, LatenessTypes
<1>5. ping.send_time_ms \in Nat
  BY <1>1, EnvironmentAssumption DEF TypeOK, Pings
<1>6. wire \in Seq(Probes) /\ Len(wire) \in Nat
  BY <1>1 DEF TypeOK
<1>7. ASSUME NEW k \in 1..Len(wire) PROVE SentAfter(k) \in Int
  <2>1. wire[k] \in Probes
    BY <1>6
  <2>2. wire[k].left_ms \in Nat
    BY <2>1, EnvironmentAssumption DEF Probes
  <2> QED BY <1>4, <2>2 DEF SentAfter
<1> QED BY <1>2, <1>3, <1>4, <1>5, <1>6, <1>7

\* When a miss reaches the threshold, the observed outage has passed since the
\* pass that sent the first probe of the run.
LEMMA OutageObserved ==
    ASSUME TimingInv, Running, ProbeMissed, missed >= config.fail_threshold
    PROVE  /\ Len(wire) - missed + 1 \in 1..Len(wire)
           /\ now_ms >= SentAfter(Len(wire) - missed + 1) + ObservedOutage
<1> DEFINE first == Len(wire) - missed + 1
           last == Len(wire)
<1>a. CauseInv
  BY DEF TimingInv
<1>1. /\ missed \in Nat /\ missed = consecutive_fails + 1
      /\ consecutive_fails \in Nat /\ missed <= last
      /\ config.fail_threshold \in Nat \ {0}
  BY <1>a, MissExtends, SettledFacts
<1>2. first \in 1..last /\ last \in 1..last
  BY <1>1, TimingTypes
<1>3. ping.waiting /\ now_ms >= ping.send_time_ms + config.timeout_ms
  <2>1. ping.waiting /\ now_ms >= ping.deadline_ms
    BY DEF ProbeMissed, ping_deadline_elapsed
  <2> QED BY <2>1 DEF TimingInv, DeadlinesAreDerived
<1> DEFINE whole == IF config.fail_threshold > 2
                    THEN config.fail_threshold - 2 ELSE 0
<1>4. whole \in Nat /\ ObservedOutage = whole * config.interval_ms
                                            + config.timeout_ms
  BY <1>1 DEF ObservedOutage
<1>5. ping.send_time_ms >= SentAfter(first) + whole * config.interval_ms
  <2>1. CASE first < last
    <3>1. ping.send_time_ms >=
              SentAfter(first) + (last - 1 - first) * config.interval_ms
      <4>1. first \in 1..(last - 1)
        BY <1>2, <2>1, TimingTypes
      <4> QED BY <1>3, <4>1 DEF TimingInv, ProbesAreSpaced
    <3>2. last - 1 - first \in Nat /\ last - 1 - first >= whole
      BY <1>1, <2>1, TimingTypes
    <3>3. SentAfter(first) \in Int /\ ping.send_time_ms \in Nat
      BY <1>2, TimingTypes
    <3> HIDE DEF first, last, whole
    <3>4. /\ (last - 1 - first) * config.interval_ms
                 >= whole * config.interval_ms
          /\ (last - 1 - first) * config.interval_ms \in Nat
          /\ whole * config.interval_ms \in Nat
      BY <3>2, <1>4, TimingTypes, Intervals
    <3> QED BY <3>1, <3>3, <3>4
  <2>2. CASE first = last
    <3>1. whole = 0
      BY <1>1, <2>2, TimingTypes
    <3>2. SentAfter(last) \in Int
      BY <1>2, TimingTypes
    <3>3. ping.send_time_ms >= SentAfter(last)
      BY <1>3 DEF TimingInv, ProbesAreSpaced
    <3> QED BY <2>2, <3>1, <3>2, <3>3, TimingTypes
  <2> QED BY <1>2, <2>1, <2>2
<1>6. SentAfter(first) \in Int
  BY <1>2, TimingTypes
<1> HIDE DEF first, last, whole
<1>7. whole * config.interval_ms \in Nat
  BY <1>4, TimingTypes
<1>8. now_ms >= SentAfter(first) + ObservedOutage
  <2>1. /\ now_ms \in Nat /\ config.timeout_ms \in Nat
        /\ ping.send_time_ms \in Nat
    BY TimingTypes
  <2>2. ASSUME NEW n \in Nat, NEW l \in Nat, NEW f \in Int, NEW t \in Nat,
               NEW w \in Nat, n >= l + t, l >= f + w
        PROVE  n >= f + (w + t)
    BY <2>2
  <2> QED BY <1>3, <1>4, <1>5, <1>6, <1>7, <2>1, <2>2
<1> QED BY <1>2, <1>8 DEF first, last

\* The reading a probe is scheduled from is no older than the pass that sends
\* the probe.
LEMMA ReadingIsRecent ==
    ASSUME TypeOK, ClockIsFresh, pc = "scheduler"
    PROVE  now_ms >= clock - Late
<1>1. clock <= now_ms + lag + CommandMax
  BY DEF ClockIsFresh
<1> QED BY <1>1, LatenessTypes

\* A probe sent keeps the distance to those before it.
LEMMA SendIsSpaced ==
    ASSUME ClockIsFresh, TimingInv, SendProbe
    PROVE  ProbesAreSpaced'
<1> DEFINE slot_ms == monitor_scheduler_advance(
                          next_ping_ms, config.interval_ms, now_ms)
           probe == [sequence |-> sequence', left_ms |-> clock]
<1>a. TypeOK /\ ProbesAreSpaced
  BY DEF TimingInv, CauseInv
<1>1. /\ wire' = Append(wire, probe) /\ probe.left_ms = clock
      /\ ~ping.waiting /\ next_ping_ms <= now_ms /\ Running
      /\ UNCHANGED <<config, now_ms>> /\ pc = "scheduler"
  BY TimingTypes DEF SendProbe, scheduler_due, Running
<1>2. ping'.waiting => ping'.send_time_ms = now_ms
  BY <1>1 DEF SendProbe
<1>3. Running' => slot_ms # U64MAX /\ next_ping_ms' = slot_ms
  BY DEF SendProbe, Running
<1> HIDE DEF probe
<1>4. /\ Len(wire') = Len(wire) + 1
      /\ wire'[Len(wire) + 1].left_ms = clock
      /\ \A k \in 1..Len(wire) : wire'[k] = wire[k]
  BY <1>1, TimingTypes
<1>5. /\ SentAfter(Len(wire))' = clock - Late
      /\ \A k \in 1..Len(wire) : SentAfter(k)' = SentAfter(k)
  BY <1>4 DEF SentAfter, Late
<1>6. now_ms >= clock - Late /\ clock - Late \in Int
  BY <1>a, <1>1, ReadingIsRecent, TimingTypes
<1>7. ASSUME NEW k \in 1..Len(wire)
      PROVE  next_ping_ms >= SentAfter(k)
                                 + (Len(wire) - k) * config.interval_ms
  BY <1>1, <1>a DEF ProbesAreSpaced
<1>8. ASSUME ping'.waiting
      PROVE  /\ ping'.send_time_ms >= SentAfter(Len(wire))'
             /\ \A k \in 1..(Len(wire') - 1) :
                    ping'.send_time_ms >= SentAfter(k)'
                        + (Len(wire') - 1 - k) * config'.interval_ms
  <2>1. ping'.send_time_ms >= SentAfter(Len(wire))'
    <3>1. SentAfter(Len(wire))' = clock - Late
      BY <1>4 DEF SentAfter, Late
    <3> QED BY <1>2, <1>6, <1>8, <3>1
  <2>2. ASSUME NEW k \in 1..(Len(wire') - 1)
        PROVE  ping'.send_time_ms >= SentAfter(k)'
                   + (Len(wire') - 1 - k) * config'.interval_ms
    <3>1. k \in 1..Len(wire) /\ Len(wire') - 1 - k = Len(wire) - k
          /\ Len(wire) - k \in Nat
      BY <1>4, TimingTypes
    <3>2. (Len(wire) - k) * config.interval_ms \in Nat
      BY <3>1, TimingTypes
    <3>3. /\ ping'.send_time_ms = now_ms /\ SentAfter(k)' = SentAfter(k)
          /\ SentAfter(k) \in Int /\ now_ms \in Nat /\ next_ping_ms \in Nat
          /\ config' = config
      BY <1>1, <1>2, <1>5, <1>8, <3>1, TimingTypes
    <3>4. next_ping_ms >= SentAfter(k) + (Len(wire) - k) * config.interval_ms
      BY <1>7, <3>1
    <3>5. ASSUME NEW n \in Nat, NEW o \in Nat, NEW f \in Int, NEW d \in Nat,
                 o <= n, o >= f + d
          PROVE  n >= f + d
      BY <3>5
    <3> QED BY <1>1, <3>1, <3>2, <3>3, <3>4, <3>5
  <2> QED BY <2>1, <2>2
<1>9. ASSUME Running', NEW k \in 1..Len(wire')
      PROVE  next_ping_ms' >= SentAfter(k)'
                 + (Len(wire') - k) * config'.interval_ms
  <2>1. /\ next_ping_ms' \in Nat
        /\ next_ping_ms' >= now_ms
        /\ next_ping_ms' >= next_ping_ms + config.interval_ms
    <3>1. next_ping_ms \in 0..U64MAX /\ now_ms \in 0..U64MAX
      BY <1>a, EnvironmentAssumption, WidthAssumption DEF TypeOK
    <3>2. slot_ms # U64MAX /\ next_ping_ms' = slot_ms
      BY <1>3, <1>9
    <3> QED BY <1>1, <3>1, <3>2, TimingTypes, SchedulerAdvance
  <2>2. CASE k = Len(wire) + 1
    <3>1. (Len(wire') - k) * config'.interval_ms = 0
      BY <1>1, <1>4, <2>2, TimingTypes
    <3>2. SentAfter(k)' = clock - Late
      BY <1>5, <2>2, <1>4 DEF SentAfter, Late
    <3> QED BY <1>6, <2>1, <3>1, <3>2, TimingTypes
  <2>3. CASE k # Len(wire) + 1
    <3>1. k \in 1..Len(wire)
      BY <1>4, <2>3, TimingTypes
    <3>2. next_ping_ms >= SentAfter(k)
                              + (Len(wire) - k) * config.interval_ms
      BY <1>7, <3>1
    <3>3. /\ Len(wire) - k \in Nat
          /\ Len(wire') - k = (Len(wire) - k) + 1
      BY <1>4, <3>1, TimingTypes
    <3>4. /\ (Len(wire') - k) * config.interval_ms =
                 (Len(wire) - k) * config.interval_ms + config.interval_ms
          /\ (Len(wire) - k) * config.interval_ms \in Nat
      BY <3>3, TimingTypes, OneMore
    <3>5. /\ SentAfter(k)' = SentAfter(k) /\ SentAfter(k) \in Int
          /\ next_ping_ms \in Nat /\ config.interval_ms \in Nat
      BY <1>5, <3>1, TimingTypes
    <3>6. ASSUME NEW n \in Nat, NEW o \in Nat, NEW f \in Int, NEW i \in Nat,
                 NEW d \in Nat, n >= o + i, o >= f + d
          PROVE  n >= f + (d + i)
      BY <3>6
    <3> QED BY <1>1, <2>1, <3>2, <3>4, <3>5, <3>6
  <2> QED BY <2>2, <2>3
<1> QED BY <1>8, <1>9 DEF ProbesAreSpaced

\* The timing of probes and deadlines is kept by every step.
LEMMA TimingStep == ClockIsFresh /\ TimingInv /\ [Next]_vars => TimingInv'
<1> SUFFICES ASSUME ClockIsFresh, TimingInv, [Next]_vars
             PROVE  ProbesAreSpaced' /\ DeadlinesAreDerived'
  BY CauseStep DEF TimingInv
<1>a. CauseInv /\ ProbesAreSpaced /\ DeadlinesAreDerived
  BY DEF TimingInv
<1>b. Running' => Running
  BY RunningBefore
<1>1. ASSUME UNCHANGED <<config, wire, next_ping_ms>>,
             ping' = ping \/ ~ping'.waiting
      PROVE  ProbesAreSpaced'
  <2>1. \A k : SentAfter(k)' = SentAfter(k)
    BY <1>1 DEF SentAfter, Late
  <2> QED BY <1>1, <1>a, <1>b, <2>1 DEF ProbesAreSpaced
<1>2. ASSUME UNCHANGED <<config, ping, shutdown, consecutive_fails, wire,
                         next_ping_ms>>
      PROVE  ProbesAreSpaced' /\ DeadlinesAreDerived'
  <2>1. /\ FirstMissed' = FirstMissed /\ ObservedOutage' = ObservedOutage
        /\ SentAfter(FirstMissed)' = SentAfter(FirstMissed)
    BY <1>2 DEF FirstMissed, Settled, ObservedOutage, SentAfter, Late
  <2> QED BY <2>1, <1>1, <1>2, <1>a, <1>b DEF DeadlinesAreDerived
<1>3. CASE QuietStep
  <2>1. UNCHANGED next_ping_ms
    BY <1>3 DEF QuietStep, LoopHead, LoopStop, TickIdle, HandleWatchdog,
       TimeoutIdle, SchedulerIdle, SendFailed, PollEnter, PollFailed, ExitLoop,
       TimePasses, SignalRaised, vars, loop, timers
  <2> QED BY <1>2, <1>3, <2>1, QuietFrame DEF outage
<1>4. CASE TickElapsed
  <2>1. /\ UNCHANGED <<config, wire, next_ping_ms, ping>>
        /\ ~shutdown'.pending
    BY <1>4 DEF TickElapsed, monitor_shutdown_clear, NoShutdown
  <2> QED BY <1>1, <2>1, <1>a, <1>b DEF DeadlinesAreDerived
<1>5. ASSUME ProbeMissed,
             \/ ~shutdown'.pending
             \/ shutdown' = shutdown /\ consecutive_fails' = missed
             \/ /\ missed >= config.fail_threshold
                /\ consecutive_fails' = missed
                /\ shutdown'.deadline_ms = now_ms + config.delay_ms
      PROVE  ProbesAreSpaced' /\ DeadlinesAreDerived'
  <2>1. /\ UNCHANGED <<config, wire, next_ping_ms>> /\ ~ping'.waiting /\ Running
    BY <1>5 DEF ProbeMissed, monitor_ping_clear, NoPing, Running
  <2>2. ProbesAreSpaced' /\ ObservedOutage' = ObservedOutage
    BY <1>1, <2>1 DEF ObservedOutage
  <2>3. /\ missed = consecutive_fails + 1 /\ Settled' = Settled + 1
        /\ Settled \in Nat /\ Len(wire) = Settled + 1
        /\ consecutive_fails \in Nat /\ config.delay_ms \in Nat
    BY <1>5, <1>a, MissExtends, SettledFacts
  <2>4. ASSUME shutdown'.pending
        PROVE  shutdown'.deadline_ms >= SentAfter(FirstMissed)'
                                            + ObservedOutage + config.delay_ms
    <3>1. CASE shutdown' = shutdown /\ consecutive_fails' = missed
      <4>1. FirstMissed' = FirstMissed
        BY <2>3, <3>1 DEF FirstMissed
      <4>2. SentAfter(FirstMissed)' = SentAfter(FirstMissed)
        BY <2>1, <4>1 DEF SentAfter, Late
      <4> QED BY <2>1, <2>4, <3>1, <4>2, <1>a DEF DeadlinesAreDerived
    <3>2. CASE /\ missed >= config.fail_threshold
               /\ consecutive_fails' = missed
               /\ shutdown'.deadline_ms = now_ms + config.delay_ms
      <4> DEFINE first == Len(wire) - missed + 1
      <4>1. FirstMissed' = first
        BY <2>3, <3>2 DEF FirstMissed
      <4>2. first \in 1..Len(wire) /\ now_ms >= SentAfter(first) + ObservedOutage
        BY <1>5, <2>1, <3>2, OutageObserved
      <4>3. SentAfter(FirstMissed)' = SentAfter(first)
        BY <2>1, <4>1 DEF SentAfter, Late
      <4>4. SentAfter(first) \in Int /\ now_ms \in Nat /\ ObservedOutage \in Nat
        BY <4>2, TimingTypes
      <4> HIDE DEF first
      <4> QED BY <2>1, <2>3, <3>2, <4>2, <4>3, <4>4
    <3> QED BY <1>5, <2>4, <3>1, <3>2
  <2> QED BY <2>1, <2>2, <2>4 DEF DeadlinesAreDerived
<1>6. CASE MissBelowThreshold
  BY <1>5, <1>6 DEF MissBelowThreshold
<1>7. CASE MissLogOnly
  BY <1>5, <1>7, <1>a DEF MissLogOnly, CauseInv, MissesAreLast
<1>8. CASE MissExecute
  BY <1>5, <1>8 DEF MissExecute
<1>9. CASE MissWhilePending
  BY <1>5, <1>9 DEF MissWhilePending
<1>10. CASE MissArmCountdown
  <2>1. CASE countdown_deadline_ms = U64MAX
    BY <1>5, <1>10, <2>1 DEF MissArmCountdown
  <2>2. CASE countdown_deadline_ms # U64MAX
    <3>1. countdown_deadline_ms = now_ms + config.delay_ms
      BY <2>2 DEF countdown_deadline_ms, monitor_deadline_add_ms
    <3>2. /\ ProbeMissed /\ missed >= config.fail_threshold
          /\ consecutive_fails' = missed
          /\ shutdown'.deadline_ms = now_ms + config.delay_ms
      BY <1>10, <2>2, <3>1 DEF MissArmCountdown
    <3> QED BY <1>5, <3>2
  <2> QED BY <2>1, <2>2
<1>11. CASE SendProbe
  <2>1. /\ ~ping.waiting /\ Running
        /\ UNCHANGED <<config, shutdown, consecutive_fails>>
        /\ Running' => /\ ping'.waiting
                       /\ ping'.deadline_ms =
                              ping'.send_time_ms + config.timeout_ms
    <3>1. /\ ~ping.waiting /\ Running
          /\ UNCHANGED <<config, shutdown, consecutive_fails>>
      BY <1>11 DEF SendProbe, scheduler_due, Running, counters
    <3>2. ASSUME Running'
          PROVE  /\ ping'.waiting
                 /\ ping'.deadline_ms = ping'.send_time_ms + config.timeout_ms
      BY <1>11, <3>2 DEF SendProbe, Running, monitor_deadline_add_ms
    <3> QED BY <3>1, <3>2
  <2>2. /\ Len(wire') = Len(wire) + 1
        /\ \A k \in 1..Len(wire) : wire'[k] = wire[k]
    BY <1>11, <1>a, ProbeOnWire DEF CauseInv
  <2>3. ASSUME Running', shutdown'.pending
        PROVE  shutdown'.deadline_ms >= SentAfter(FirstMissed)'
                                            + ObservedOutage' + config'.delay_ms
    <3>1. Settled' = Settled /\ Settled = Len(wire)
      BY <2>1, <2>2, <2>3, TimingTypes DEF Settled
    <3>2. FirstMissed' = FirstMissed /\ ObservedOutage' = ObservedOutage
      BY <2>1, <3>1 DEF FirstMissed, ObservedOutage
    <3>3. FirstMissed \in 1..Len(wire)
      BY <2>1, <2>3, <3>1, <1>a, SettledFacts
      DEF FirstMissed, CauseInv, MissesAreLast
    <3>4. SentAfter(FirstMissed)' = SentAfter(FirstMissed)
      BY <2>2, <3>2, <3>3 DEF SentAfter, Late
    <3> QED BY <2>1, <2>3, <3>2, <3>4, <1>a DEF DeadlinesAreDerived
  <2>4. wire' # <<>>
    BY <2>2, TimingTypes
  <2>5. DeadlinesAreDerived'
    BY <2>1, <2>3, <2>4 DEF DeadlinesAreDerived
  <2> QED BY <1>11, <2>5, SendIsSpaced
<1>12. ASSUME NEW i \in 1..drain_limit, ReplyAccepted(i)
       PROVE  ProbesAreSpaced' /\ DeadlinesAreDerived'
  <2>1. /\ UNCHANGED <<config, wire, next_ping_ms>>
        /\ ~ping'.waiting /\ ~shutdown'.pending
    BY <1>12 DEF ReplyAccepted, PollWoken, handle_ping_success,
                 monitor_ping_clear, monitor_shutdown_clear, NoPing, NoShutdown
  <2> QED BY <1>1, <2>1 DEF DeadlinesAreDerived
<1>13. CASE ReceiveFailed
  <2>1. UNCHANGED <<config, wire, next_ping_ms>> /\ ~ping'.waiting /\ ~Running'
    BY <1>13 DEF ReceiveFailed, PollWoken, monitor_ping_clear, NoPing, Running
  <2> QED BY <1>1, <2>1 DEF DeadlinesAreDerived
<1>14. CASE NothingAccepted \/ ReplyArrives \/ ForeignArrives
  BY <1>2, <1>14 DEF NothingAccepted, PollWoken, ReplyArrives, ForeignArrives,
                      Deliver, timers, counters, history
<1> QED
  BY <1>3, <1>4, <1>6, <1>7, <1>8, <1>9, <1>10, <1>11, <1>12, <1>13, <1>14,
     StepKinds DEF BusyStep

\* The timing argument holds before the first probe.
LEMMA TimingInit == Init => TimingInv
<1> SUFFICES ASSUME Init PROVE ProbesAreSpaced /\ DeadlinesAreDerived
  BY CauseInit DEF TimingInv
<1>1. Len(wire) = 0 /\ ~ping.waiting /\ ~shutdown.pending
  BY DEF Init, NoPing, NoShutdown
<1> QED BY <1>1 DEF ProbesAreSpaced, DeadlinesAreDerived

\* While the clock can be read, the spacing of probes and the place of
\* deadlines are invariants.
LEMMA TimingInvariant ==
    ASSUME "clock" \notin Faults
    PROVE  Spec => [](TimingInv /\ ClockIsFresh)
<1>1. Spec => []LatenessInv
  BY LatenessInvariant
<1>2. LatenessInv => ClockIsFresh
  BY DEF LatenessInv
<1> QED BY <1>1, <1>2, TimingInit, TimingStep, PTL DEF Spec

\* While the clock can be read, the machine is never shut down before the misses
\* the threshold asks for can have been observed and the configured delay has
\* passed, counted by the clock from the first missed probe's departure and less
\* what the pass that sent it had lost before.
THEOREM NotEarly == Spec => NoEarlyShutdown
<1>1. CASE "clock" \in Faults
  <2>1. [DecisionIsNotEarly]_vars
    BY <1>1 DEF DecisionIsNotEarly
  <2> QED BY <2>1, PTL DEF NoEarlyShutdown
<1>2. CASE "clock" \notin Faults
  <2>1. TimingInv /\ ClockIsFresh /\ [Next]_vars => [DecisionIsNotEarly]_vars
    <3> SUFFICES ASSUME TimingInv, ClockIsFresh, [Next]_vars,
                        decisions' # decisions
                 PROVE  clock + Late >= wire[FirstMissed'].left_ms
                                            + ObservedOutage + config.delay_ms
      BY DEF DecisionIsNotEarly
    <3>a. CauseInv /\ DeadlinesAreDerived /\ now_ms <= clock
      BY DEF TimingInv, ClockIsFresh
    <3>b. /\ Settled \in Nat /\ consecutive_fails \in Nat
          /\ config.fail_threshold \in Nat \ {0} /\ config.delay_ms \in Nat
          /\ Len(wire) = Settled + 1 \/ Len(wire) = Settled
      BY <3>a, SettledFacts DEF CauseInv, TypeOK, Pings
    <3>c. ASSUME FirstMissed' \in 1..Len(wire),
                 now_ms >= SentAfter(FirstMissed') + ObservedOutage
                               + config.delay_ms
          PROVE  clock + Late >= wire[FirstMissed'].left_ms
                                     + ObservedOutage + config.delay_ms
      <4>1. wire[FirstMissed'] \in Probes
        BY <3>c, TimingTypes
      <4>2. wire[FirstMissed'].left_ms \in Nat
        BY <4>1, EnvironmentAssumption DEF Probes
      <4>3. SentAfter(FirstMissed') = wire[FirstMissed'].left_ms - Late
        BY DEF SentAfter
      <4>4. /\ clock \in Nat /\ now_ms \in Nat /\ Late \in Nat
            /\ ObservedOutage \in Nat
        BY TimingTypes
      <4> QED BY <3>a, <3>b, <3>c, <4>2, <4>3, <4>4
    <3>1. CASE TickElapsed
      <4>1. /\ shutdown.pending /\ now_ms >= shutdown.deadline_ms /\ Running
            /\ UNCHANGED <<wire, ping, consecutive_fails>>
        BY <3>1 DEF TickElapsed, shutdown_deadline_elapsed, Running, counters
      <4>2. FirstMissed' = FirstMissed
        BY <4>1 DEF FirstMissed, Settled
      <4>3. shutdown.deadline_ms >= SentAfter(FirstMissed) + ObservedOutage
                                        + config.delay_ms
        BY <4>1, <3>a DEF DeadlinesAreDerived
      <4>4. FirstMissed \in 1..Len(wire)
        BY <4>1, <3>a, <3>b DEF FirstMissed, CauseInv, MissesAreLast
      <4>5. /\ SentAfter(FirstMissed) \in Int /\ ObservedOutage \in Nat
            /\ now_ms \in Nat /\ shutdown.deadline_ms \in Nat
        BY <4>4, TimingTypes
      <4>6. now_ms >= SentAfter(FirstMissed) + ObservedOutage + config.delay_ms
        BY <4>1, <4>3, <4>5, <3>b
      <4> QED BY <3>c, <4>2, <4>4, <4>6
    <3>2. CASE MissExecute
      <4>1. /\ ProbeMissed /\ missed >= config.fail_threshold
            /\ consecutive_fails' = missed /\ config.delay_ms = 0 /\ Running
        BY <3>2 DEF MissExecute, ProbeMissed, Running
      <4>2. Settled' = Settled + 1 /\ Len(wire) = Settled + 1
        BY <3>a, <4>1, MissExtends
      <4>3. FirstMissed' = Len(wire) - missed + 1
        BY <4>1, <4>2 DEF FirstMissed
      <4>4. /\ Len(wire) - missed + 1 \in 1..Len(wire)
            /\ now_ms >= SentAfter(Len(wire) - missed + 1) + ObservedOutage
        BY <4>1, OutageObserved
      <4>5. SentAfter(FirstMissed') \in Int /\ ObservedOutage \in Nat
        BY <4>3, <4>4, TimingTypes
      <4>6. now_ms >= SentAfter(FirstMissed') + ObservedOutage + config.delay_ms
        BY <4>1, <4>3, <4>4, <4>5
      <4> QED BY <3>c, <4>3, <4>4, <4>6
    <3> QED BY <3>a, <3>1, <3>2, DecisionSteps
  <2>2. Spec => [](TimingInv /\ ClockIsFresh)
    BY <1>2, TimingInvariant
  <2> QED BY <2>1, <2>2, PTL DEF Spec, NoEarlyShutdown
<1> QED BY <1>1, <1>2

\* While the clock can be read, a probe is declared missed no sooner after it
\* left than its timeout, less what the pass that sent it had lost before.
THEOREM PatientProbes == Spec => FairTimeout
<1>1. CASE "clock" \in Faults
  <2>1. [MissAfterShortenedTimeout]_vars
    BY <1>1 DEF MissAfterShortenedTimeout
  <2> QED BY <2>1, PTL DEF FairTimeout
<1>2. CASE "clock" \notin Faults
  <2>1. TimingInv /\ ClockIsFresh /\ [Next]_vars => [MissAfterShortenedTimeout]_vars
    <3> SUFFICES ASSUME TimingInv, ClockIsFresh, [Next]_vars,
                        metrics'.failed_pings # metrics.failed_pings
                 PROVE  clock >= LastLeft + config.timeout_ms - Late
      BY DEF MissAfterShortenedTimeout
    <3>1. metrics \in Metrics /\ TypeOK /\ now_ms <= clock
      BY DEF TimingInv, ClockIsFresh, CauseInv, TypeOK
    <3>2. ProbeMissed
      <4>1. ASSUME NEW i \in 1..drain_limit, ReplyAccepted(i)
            PROVE  metrics'.failed_pings = metrics.failed_pings
        BY <3>1, <4>1 DEF ReplyAccepted, handle_ping_success, RecordSuccess,
                          Metrics
      <4>2. metrics' # metrics
        OBVIOUS
      <4> QED
        BY <4>1, <4>2
        DEF Next, Process, Environment, LoopHead, LoopStop, HandleTick,
            TickIdle, TickElapsed, HandleWatchdog, HandlePingTimeout,
            TimeoutIdle, MissBelowThreshold, MissLogOnly, MissExecute,
            MissWhilePending, MissArmCountdown, HandleScheduler,
            SchedulerIdle, SendFailed, SendProbe, PollEnter, HandlePollEvents,
            NothingAccepted, ReceiveFailed, PollFailed, ExitLoop, TimePasses,
            ReplyArrives, ForeignArrives, Deliver, SignalRaised, vars, counters
    <3>3. ping.waiting /\ now_ms >= ping.deadline_ms /\ Running
      BY <3>2 DEF ProbeMissed, ping_deadline_elapsed, Running
    <3>4. /\ wire # <<>> /\ ping.deadline_ms = ping.send_time_ms + config.timeout_ms
          /\ ping.send_time_ms >= LastLeft - Late
      BY <3>3 DEF TimingInv, ProbesAreSpaced, DeadlinesAreDerived, SentAfter,
                  LastLeft
    <3>5. LastLeft \in Nat
      <4>1. wire[Len(wire)] \in Probes
        BY <3>4, TimingTypes
      <4> QED BY <4>1, EnvironmentAssumption DEF Probes, LastLeft
    <3> QED BY <3>1, <3>3, <3>4, <3>5, TimingTypes
  <2>2. Spec => [](TimingInv /\ ClockIsFresh)
    BY <1>2, TimingInvariant
  <2> QED BY <2>1, <2>2, PTL DEF Spec, FairTimeout
<1> QED BY <1>1, <1>2

=============================================================================
