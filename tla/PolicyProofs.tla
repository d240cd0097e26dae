---------------------------- MODULE PolicyProofs ----------------------------
(* The reactor implements the operator's policy.                           *)
EXTENDS MonitorProofs

\* What the policy sees of the reactor.
policy_vars == <<config, consecutive_fails, shutdown.pending, decisions, Running>>

\* Every step of the reactor is a step of the policy or invisible to it.
LEMMA PolicyStep == TypeOK /\ [Next]_vars => [Policy!Next]_(Policy!vars)
<1> SUFFICES ASSUME TypeOK, [Next]_vars
             PROVE  Policy!Next \/ UNCHANGED policy_vars
  BY DEF Policy!vars, policy_vars
<1> USE DEF Running
<1>a. Running \in BOOLEAN /\ Running' \in BOOLEAN
  OBVIOUS
<1>1. ASSUME UNCHANGED <<config, consecutive_fails, shutdown, decisions>>,
             Running' => Running
      PROVE  Policy!Stopped \/ UNCHANGED policy_vars
  BY <1>1 DEF Policy!Stopped, policy_vars
<1>2. CASE QuietStep
  <2>1. UNCHANGED <<config, consecutive_fails, shutdown, decisions>>
    BY <1>2, QuietFrame DEF outage
  <2>2. Running' => Running
    BY <1>2
    DEF QuietStep, LoopHead, LoopStop, TickIdle, HandleWatchdog, TimeoutIdle,
        SchedulerIdle, SendFailed, PollEnter, PollFailed, ExitLoop, TimePasses,
        SignalRaised, vars, loop
  <2> QED BY <1>1, <2>1, <2>2 DEF Policy!Next
<1>3. ASSUME NEW stage \in {"watchdog", "scheduler"},
             shutdown_fsm_execute(stage), UNCHANGED config, Running
      PROVE  Policy!Decide
  BY <1>3 DEF shutdown_fsm_execute, Policy!Decide
<1>4. CASE TickElapsed
  <2>1. /\ Running /\ shutdown.pending = TRUE /\ shutdown'.pending = FALSE
        /\ UNCHANGED <<config, consecutive_fails>>
        /\ shutdown_fsm_execute("watchdog")
    BY <1>4 DEF TickElapsed, shutdown_deadline_elapsed, monitor_shutdown_clear,
                NoShutdown, counters, TypeOK, Shutdowns
  <2> QED BY <1>3, <2>1 DEF Policy!Next, Policy!Expired
<1>5. ProbeMissed => Running /\ UNCHANGED config
  BY DEF ProbeMissed
<1>6. CASE MissBelowThreshold
  BY <1>5, <1>6 DEF MissBelowThreshold, missed, Policy!Next, Policy!Tolerated
<1>7. CASE MissLogOnly
  BY <1>5, <1>7 DEF MissLogOnly, missed, Policy!Next, Policy!Logged,
                    Policy!ThresholdReached
<1>8. CASE MissExecute
  <2>1. /\ Running /\ missed >= config.fail_threshold
        /\ config.shutdown_mode # "log-only" /\ config.delay_ms = 0
        /\ consecutive_fails' = missed
        /\ UNCHANGED <<config, shutdown>>
        /\ shutdown_fsm_execute("scheduler")
    BY <1>5, <1>8 DEF MissExecute
  <2> QED BY <1>3, <2>1 DEF missed, Policy!Next, Policy!DecideNow,
                            Policy!ThresholdReached
<1>9. CASE MissWhilePending
  <2>1. shutdown.pending = TRUE
    BY <1>9 DEF MissWhilePending, TypeOK, Shutdowns
  <2> QED BY <1>5, <1>9, <2>1
          DEF MissWhilePending, missed, Policy!Next, Policy!DecideLater,
              Policy!ThresholdReached
<1>10. CASE MissArmCountdown
  <2>1. \/ shutdown'.pending = TRUE /\ consecutive_fails' = missed
        \/ /\ ~shutdown.pending /\ shutdown'.pending = FALSE
           /\ consecutive_fails' = 0
    BY <1>10 DEF MissArmCountdown, TypeOK, Shutdowns
  <2> QED BY <1>5, <1>10, <2>1
          DEF MissArmCountdown, missed, Policy!Next, Policy!DecideLater,
              Policy!ThresholdReached
<1>11. ASSUME NEW i \in 1..drain_limit, ReplyAccepted(i) PROVE Policy!Answered
  BY <1>11 DEF ReplyAccepted, PollWoken, PollReturns, handle_ping_success,
               monitor_shutdown_clear, NoShutdown, Policy!Answered
<1>12. CASE SendProbe \/ NothingAccepted \/ ReceiveFailed \/ ReplyArrives
            \/ ForeignArrives
  <2>1. UNCHANGED <<config, consecutive_fails, shutdown, decisions>>
    BY <1>12 DEF SendProbe, NothingAccepted, ReceiveFailed, PollWoken,
                 ReplyArrives, ForeignArrives, Deliver, timers, counters,
                 history
  <2>2. Running' => Running
    BY <1>12 DEF SendProbe, NothingAccepted, ReceiveFailed, PollWoken,
                 PollReturns, ReplyArrives, ForeignArrives, Deliver, loop
  <2> QED BY <1>1, <2>1, <2>2 DEF Policy!Next
<1> QED
  BY <1>2, <1>4, <1>6, <1>7, <1>8, <1>9, <1>10, <1>11, <1>12, StepKinds
  DEF BusyStep, Policy!Next

\* The reactor implements the policy: whatever the network, the clock, the
\* signals and the failing calls do, the misses it counts, the countdown it
\* runs and the shutdowns it decides are those of OutagePolicy.
THEOREM ImplementsPolicy == Spec => PolicySpec
<1>1. Init => Policy!Init
  BY DEF Init, NoShutdown, Running, Policy!Init
<1> QED BY <1>1, PolicyStep, TypeCorrect, PTL
        DEF Spec, PolicySpec, Policy!Spec
=============================================================================
