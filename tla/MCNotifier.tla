----------------------------- MODULE MCNotifier -----------------------------
(* Instances of the notifier for TLC.                                      *)
EXTENDS Notifier

\* WATCHDOG_USEC around the steps of the interval.
WatchdogEdges == {0, 1, 3999, 4000}
=============================================================================
