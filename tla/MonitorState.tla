---------------------------- MODULE MonitorState ----------------------------
(***************************************************************************)
(* The arithmetic of the monitor's timers (monitor.c, "Monitor state") and *)
(* of the echo sequence numbers (icmp.c).  Times are unsigned 64-bit       *)
(* milliseconds; the all-ones value doubles as "overflow".  The widths are *)
(* parameters so that a small instance can reach them.                     *)
(***************************************************************************)
EXTENDS Integers

CONSTANTS
    U64MAX,     \* UINT64_MAX: the largest time, and the overflow mark
    INT_MAX,    \* the largest timeout poll() can be given
    SEQ_MAX     \* UINT16_MAX: the largest echo sequence number

ASSUME WidthAssumption ==
    /\ U64MAX \in Nat
    /\ INT_MAX \in Nat \ {0}
    /\ SEQ_MAX \in Nat \ {0}

Modes == {"dry-run", "true-off", "log-only"}

\* What config_validate guarantees of the values the reactor uses, with
\* seconds and minutes already turned into milliseconds.
ValidConfig(c) ==
    /\ c.interval_ms \in Nat /\ c.timeout_ms \in Nat \ {0}
    /\ c.timeout_ms < c.interval_ms
    /\ c.fail_threshold \in Nat \ {0}
    /\ c.shutdown_mode \in Modes
    /\ c.delay_ms \in Nat
    /\ c.shutdown_mode = "log-only" => c.delay_ms = 0
    /\ c.watchdog_interval_ms \in Nat

\* Seeded fault: the sum is not checked for overflow.
UncheckedAdd(base_ms, delta_ms) == base_ms + delta_ms

\* base + delta, or the overflow mark when the sum does not fit.
monitor_deadline_add_ms(base_ms, delta_ms) ==
    IF base_ms + delta_ms > U64MAX THEN U64MAX ELSE base_ms + delta_ms

\* How long poll() may sleep for one deadline, clamped to an int.
monitor_deadline_timeout_ms(now_ms, deadline_ms) ==
    IF deadline_ms <= now_ms THEN 0
    ELSE IF deadline_ms - now_ms > INT_MAX THEN INT_MAX
    ELSE deadline_ms - now_ms

monitor_timeout_min(lhs, rhs) == IF rhs < lhs THEN rhs ELSE lhs

\* Seeded fault: poll() is not told of the countdown.
CountdownIgnored(now_ms, shutdown, otherwise) == otherwise

\* The sleep the shutdown countdown allows, no limit when none is pending.
ShutdownTimeout(now_ms, shutdown, otherwise) ==
    IF shutdown.pending
    THEN monitor_deadline_timeout_ms(now_ms, shutdown.deadline_ms)
    ELSE otherwise

\* The sleep the watchdog allows, no limit when it is off.
WatchdogTimeout(now_ms, last_sent_ms, interval_ms, otherwise) ==
    LET deadline_ms == monitor_deadline_add_ms(last_sent_ms, interval_ms)
    IN  IF interval_ms = 0 THEN otherwise
        ELSE IF deadline_ms = U64MAX THEN INT_MAX
        ELSE monitor_deadline_timeout_ms(now_ms, deadline_ms)

\* The timeout handed to poll(): the nearest of the armed deadlines.
monitor_state_wait_timeout(now_ms, ping, shutdown, slot_ms, sent_ms, watchdog_ms) ==
    LET probe == monitor_deadline_timeout_ms(
                     now_ms,
                     IF ping.waiting THEN ping.deadline_ms ELSE slot_ms)
        countdown == monitor_timeout_min(
                         probe, ShutdownTimeout(now_ms, shutdown, probe))
    IN  monitor_timeout_min(
            countdown,
            WatchdogTimeout(now_ms, sent_ms, watchdog_ms, countdown))

\* The next slot of the probe schedule after a probe sent at now_ms; U64MAX
\* stands for the failure return.  A slot already in the past is skipped.
monitor_scheduler_advance(next_ping_ms, interval_ms, now_ms) ==
    LET candidate_ms == monitor_deadline_add_ms(next_ping_ms, interval_ms)
    IN  IF candidate_ms = U64MAX \/ candidate_ms < now_ms
        THEN monitor_deadline_add_ms(now_ms, interval_ms)
        ELSE candidate_ms

monitor_watchdog_due(now_ms, last_sent_ms, interval_ms) ==
    interval_ms > 0 /\ now_ms - last_sent_ms >= interval_ms

\* Seeded fault: the numbers end at the greatest.
SaturatedSequence(sequence) == IF sequence = SEQ_MAX THEN SEQ_MAX ELSE sequence + 1

\* A uint16_t increment that skips 0, the "not waiting" sentinel.
next_sequence(sequence) ==
    LET incremented == (sequence + 1) % (SEQ_MAX + 1)
    IN  IF incremented = 0 THEN 1 ELSE incremented

=============================================================================
