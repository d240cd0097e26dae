----------------------------- MODULE MCMonitor -----------------------------
(* Instances of the reactor for TLC.  A millisecond of the code is one unit *)
(* of the model, and the configurations are scaled down to a few units.     *)
EXTENDS Monitor

Config(interval_ms, timeout_ms, fail_threshold, shutdown_mode, delay_ms, watchdog_interval_ms) ==
    [interval_ms |-> interval_ms, timeout_ms |-> timeout_ms,
     fail_threshold |-> fail_threshold, shutdown_mode |-> shutdown_mode,
     delay_ms |-> delay_ms, watchdog_interval_ms |-> watchdog_interval_ms]

\* At once and after a countdown, in every mode, after one, two or three misses;
\* the shortest probes, so that sequence numbers wrap within the horizon; and
\* values next to the widths of the instance.
OutageConfigs ==
    {Config(3, 1, 2, "true-off", 4, 0), Config(3, 2, 2, "true-off", 0, 0),
     Config(3, 2, 1, "true-off", 2, 0), Config(2, 1, 3, "true-off", 1, 0),
     Config(3, 1, 2, "dry-run", 2, 0), Config(3, 1, 2, "log-only", 0, 0),
     Config(2, 1, 2, "log-only", 0, 0),
     Config(4, 2, 1, "true-off", 3, 2), Config(3, 2, 1, "true-off", 5, 1),
     Config(4, 3, 2, "dry-run", 0, 9)}

\* Timers longer than the slack, so that sleeping through one of them shows,
\* and short ones, so that several misses fit in.
TimerConfigs ==
    {Config(9, 3, 1, "true-off", 2, 0), Config(9, 7, 1, "true-off", 2, 3),
     Config(8, 5, 1, "true-off", 0, 0), Config(8, 5, 1, "dry-run", 3, 4),
     Config(3, 1, 2, "true-off", 2, 0), Config(3, 2, 2, "true-off", 0, 0),
     Config(3, 1, 1, "dry-run", 2, 0), Config(3, 1, 3, "true-off", 1, 0)}

SignalConfigs == {Config(3, 1, 1, "true-off", 2, 2)}

=============================================================================
