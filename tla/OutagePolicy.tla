---------------------------- MODULE OutagePolicy ----------------------------
(***************************************************************************)
(* What the monitor promises its operator, with time, probes, packets and  *)
(* signals left out: misses are counted, an answer forgives them, and once *)
(* fail_threshold misses came in a row the configured action is taken, at  *)
(* once or when a countdown that no answer interrupted expires.            *)
(***************************************************************************)
EXTENDS Naturals

CONSTANT Configs    \* records with fail_threshold, shutdown_mode, delay_ms

VARIABLES
    config,
    misses,         \* misses in a row
    countdown,      \* a delayed shutdown is under way
    decisions,      \* how often a shutdown was decided
    running

vars == <<config, misses, countdown, decisions, running>>

Init ==
    /\ config \in Configs
    /\ misses = 0 /\ countdown = FALSE /\ decisions = 0 /\ running = TRUE

Answered ==
    /\ running
    /\ misses' = 0 /\ countdown' = FALSE
    /\ UNCHANGED <<config, decisions, running>>

\* A real shutdown command may fail, and the policy then lives on; a dry run
\* always ends it.
Decide ==
    /\ decisions' = decisions + 1
    /\ running' \in (IF config.shutdown_mode = "dry-run" THEN {FALSE}
                     ELSE BOOLEAN)

Tolerated ==
    /\ running /\ misses + 1 < config.fail_threshold
    /\ misses' = misses + 1
    /\ UNCHANGED <<config, countdown, decisions, running>>

ThresholdReached == running /\ misses + 1 >= config.fail_threshold

Logged ==
    /\ ThresholdReached /\ config.shutdown_mode = "log-only"
    /\ misses' = 0
    /\ UNCHANGED <<config, countdown, decisions, running>>

DecideNow ==
    /\ ThresholdReached /\ config.shutdown_mode # "log-only"
    /\ config.delay_ms = 0
    /\ misses' = misses + 1
    /\ Decide
    /\ UNCHANGED <<config, countdown>>

\* The countdown starts or goes on; when its end is not representable the
\* misses are forgotten instead.
DecideLater ==
    /\ ThresholdReached /\ config.shutdown_mode # "log-only"
    /\ config.delay_ms > 0
    /\ \/ misses' = misses + 1 /\ countdown' = TRUE
       \/ ~countdown /\ misses' = 0 /\ countdown' = FALSE
    /\ UNCHANGED <<config, decisions, running>>

Expired ==
    /\ running /\ countdown
    /\ countdown' = FALSE
    /\ Decide
    /\ UNCHANGED <<config, misses>>

\* A signal, or a system call that fails for good.
Stopped ==
    /\ running /\ running' = FALSE
    /\ UNCHANGED <<config, misses, countdown, decisions>>

Next ==
    \/ Answered \/ Tolerated \/ Logged \/ DecideNow \/ DecideLater
    \/ Expired \/ Stopped

Spec == Init /\ [][Next]_vars
=============================================================================
