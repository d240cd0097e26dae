------------------------------ MODULE Service -------------------------------
(***************************************************************************)
(* The life of the process and of its systemd unit: what main,             *)
(* openups_ctx_init and monitor_loop_init acquire and release on every     *)
(* path, what systemd is told, and what the unit file makes of an exit.    *)
(* The reactor is reduced to one step per probe, which takes one unit of   *)
(* time (an interval); Monitor has the rest.                               *)
(***************************************************************************)
EXTENDS Naturals, Sequences

CONSTANTS
    FAIL_THRESHOLD,     \* misses in a row that decide a shutdown
    RESTART_DELAY,      \* RestartSec, in intervals
    START_TIMEOUT,      \* TimeoutStartSec, in intervals
    START_BURST,        \* StartLimitBurst
    START_WINDOW,       \* StartLimitIntervalSec, in intervals
    Faults,             \* the calls that may fail
    MaxFaults,          \* how many calls fail at most
    OperatorStops       \* whether the operator may stop the unit

ASSUME ServiceAssumption ==
    /\ FAIL_THRESHOLD \in Nat \ {0} /\ START_BURST \in Nat \ {0}
    /\ RESTART_DELAY \in Nat /\ START_TIMEOUT \in Nat /\ START_WINDOW \in Nat
    /\ MaxFaults \in Nat /\ OperatorStops \in BOOLEAN

VARIABLES
    unit,           \* the state of the unit
    age,            \* how long the unit has been in it, as far as it matters
    starts,         \* starts counted against the limit
    window_age,     \* the time since the first of them
    inbox,          \* notifications systemd has not read
    stop_wanted,    \* the operator has stopped the unit
    pc,             \* where the process is
    exit_code,      \* "success", "failure", or "signal" if SIGTERM killed it
    held,           \* what the process has acquired
    stop_flag,      \* ctx->stop_flag
    pending,        \* SIGTERM is pending
    consecutive_fails,
    decided,        \* a shutdown has been decided
    link,           \* "up", "silent" (no replies), "down" (sendto fails)
    faults          \* calls that have failed

manager == <<unit, age, starts, window_age, inbox, stop_wanted>>
process == <<pc, exit_code, held, stop_flag, pending, consecutive_fails, decided>>
vars == <<manager, process, link, faults>>

Resources == {"icmp", "notify", "mask", "signalfd"}

TypeOK ==
    /\ unit \in {"inactive", "activating", "active", "deactivating", "overdue",
                 "auto-restart", "failed"}
    /\ age \in Nat /\ starts \in 0..START_BURST /\ window_age \in 0..START_WINDOW
    /\ inbox \in Seq({"READY", "STOPPING"})
    /\ pc \in {"none", "main", "context", "loop", "signalfd", "timing", "startup",
               "reactor", "leaving", "destroy", "exited"}
    /\ exit_code \in {"success", "failure", "signal"}
    /\ held \subseteq Resources
    /\ {stop_flag, pending, decided, stop_wanted} \subseteq BOOLEAN
    /\ consecutive_fails \in 0..FAIL_THRESHOLD
    /\ link \in {"up", "silent", "down"} /\ faults \in 0..MaxFaults

Fail(call) == call \in Faults /\ faults < MaxFaults /\ faults' = faults + 1

-----------------------------------------------------------------------------
(* The unit: systemd/openups.service, as systemd carries it out.           *)

AtMost(a, b) == IF a < b THEN a ELSE b
Ages == RESTART_DELAY + START_TIMEOUT

\* One interval passes for systemd.
TimePasses ==
    /\ age' = AtMost(age + 1, Ages)
    /\ window_age' = AtMost(window_age + 1, START_WINDOW)

Init ==
    /\ unit = "auto-restart" /\ age = RESTART_DELAY
    /\ starts = 0 /\ window_age = 0 /\ inbox = <<>> /\ stop_wanted = FALSE
    /\ pc = "none" /\ exit_code = "success" /\ held = {}
    /\ stop_flag = FALSE /\ pending = FALSE /\ consecutive_fails = 0 /\ decided = FALSE
    /\ link \in {"up", "silent", "down"} /\ faults = 0

\* Seeded fault: a window so short that no two starts fall into it.
EveryStartFresh == TRUE

\* A start within the window counts against the limit; one after it begins a
\* new window.
Fresh == window_age >= START_WINDOW \/ starts = 0
Counted == starts' = IF Fresh THEN 1 ELSE starts + 1

\* Seeded fault: the limit is reached only after one start more.
BurstExceeded == ~Fresh /\ starts > START_BURST

BurstReached == ~Fresh /\ starts >= START_BURST

\* A start, or its refusal when there have been too many of late.
Start ==
    /\ unit = "auto-restart" /\ age >= RESTART_DELAY /\ age' = 0
    /\ \/ /\ ~BurstReached /\ unit' = "activating" /\ pc' = "main" /\ Counted
          /\ window_age' = IF Fresh THEN 0 ELSE window_age
          /\ exit_code' = "success" /\ stop_flag' = FALSE /\ pending' = FALSE
          /\ consecutive_fails' = 0
       \/ /\ BurstReached /\ unit' = "failed"
          /\ UNCHANGED <<pc, starts, window_age, exit_code, stop_flag,
                         pending, consecutive_fails>>
    /\ UNCHANGED <<inbox, stop_wanted, held, decided, link, faults>>

Wait ==
    /\ unit = "auto-restart" /\ age < RESTART_DELAY /\ TimePasses
    /\ UNCHANGED <<unit, starts, inbox, stop_wanted, process, link, faults>>

Notified ==
    /\ inbox # <<>> /\ inbox' = Tail(inbox) /\ age' = 0
    /\ unit' = CASE Head(inbox) = "READY" /\ unit = "activating" -> "active"
                 [] Head(inbox) = "STOPPING" /\ unit = "active" -> "deactivating"
                 [] OTHER -> unit
    /\ UNCHANGED <<starts, window_age, stop_wanted, process, link, faults>>

\* READY has not come in time.
StartOverdue ==
    /\ unit = "activating" /\ age >= START_TIMEOUT /\ inbox = <<>>
    /\ pc \notin {"none", "exited"}
    /\ unit' = "overdue" /\ pending' = TRUE
    /\ UNCHANGED <<age, starts, window_age, inbox, stop_wanted, pc, exit_code,
                   held, stop_flag, consecutive_fails, decided, link, faults>>

OperatorStop ==
    /\ OperatorStops /\ ~stop_wanted /\ unit # "failed" /\ stop_wanted' = TRUE
    /\ IF pc = "none" THEN unit' = "inactive" /\ UNCHANGED pending
       ELSE unit' = "deactivating" /\ pending' = TRUE
    /\ UNCHANGED <<age, starts, window_age, inbox, pc, exit_code, held,
                   stop_flag, consecutive_fails, decided, link, faults>>

\* Restart=on-failure: an exit before READY or after a timeout is a failure too.
Reap ==
    /\ pc = "exited" /\ inbox = <<>> /\ pc' = "none" /\ age' = 0 /\ held' = {}
    /\ unit' = IF stop_wanted THEN "inactive"
               ELSE IF unit \in {"activating", "overdue"} \/ exit_code = "failure"
                    THEN "auto-restart"
               ELSE "inactive"
    /\ UNCHANGED <<starts, window_age, inbox, stop_wanted, exit_code, stop_flag,
                   pending, consecutive_fails, decided, link, faults>>

-----------------------------------------------------------------------------
(* main: acquire, run, release.                                            *)

Exit(code) == pc' = "exited" /\ exit_code' = code

config_resolve ==
    /\ pc = "main"
    /\ \/ pc' = "context" /\ UNCHANGED <<exit_code, faults>>
       \/ Fail("config") /\ Exit("failure")
    /\ UNCHANGED <<manager, held, stop_flag, pending, consecutive_fails, decided, link>>

\* Without a notification socket the program runs on, unnoticed by systemd.
openups_ctx_init ==
    /\ pc = "context"
    /\ \/ held' = {"icmp", "notify"} /\ pc' = "loop" /\ UNCHANGED <<exit_code, faults>>
       \/ Fail("notify") /\ held' = {"icmp"} /\ pc' = "loop" /\ UNCHANGED exit_code
       \/ Fail("socket") /\ Exit("failure") /\ UNCHANGED held
    /\ UNCHANGED <<manager, stop_flag, pending, consecutive_fails, decided, link>>


Announced(message) == IF "notify" \in held THEN Append(inbox, message) ELSE inbox

\* The way out of a monitor_loop_init that failed.
LoopRefused == pc' = "destroy" /\ exit_code' = "failure"

\* Seeded fault: READY is announced before the loop has been set up.
ReadyFirst ==
    /\ pc = "loop" /\ pc' = "signalfd"
    /\ held' = held \cup {"mask"} /\ inbox' = Announced("READY")
    /\ UNCHANGED <<unit, age, starts, window_age, stop_wanted, exit_code,
                   stop_flag, pending, consecutive_fails, decided, link, faults>>

\* The first half of signal_channel_init.
BlockSignals ==
    /\ pc = "loop"
    /\ \/ /\ held' = held \cup {"mask"} /\ pc' = "signalfd"
          /\ UNCHANGED <<exit_code, faults>>
       \/ Fail("mask") /\ LoopRefused /\ UNCHANGED held
    /\ UNCHANGED <<manager, stop_flag, pending, consecutive_fails, decided, link>>

\* The second half: without a signalfd the mask is restored.
OpenSignalfd ==
    /\ pc = "signalfd"
    /\ \/ /\ held' = held \cup {"signalfd"} /\ pc' = "timing"
          /\ UNCHANGED <<exit_code, faults>>
       \/ Fail("signalfd") /\ LoopRefused /\ held' = held \ {"mask"}
    /\ UNCHANGED <<manager, stop_flag, pending, consecutive_fails, decided, link>>

signal_channel_destroy == held' = held \ {"mask", "signalfd"}

\* Seeded fault: the signal channel is kept when the clock cannot be read.
ChannelKept ==
    /\ pc = "timing"
    /\ \/ pc' = "startup" /\ UNCHANGED <<exit_code, held, faults>>
       \/ Fail("clock") /\ LoopRefused /\ UNCHANGED held
    /\ UNCHANGED <<manager, stop_flag, pending, consecutive_fails, decided, link>>

\* The rest of monitor_loop_init: the clock is read, or the channel is undone.
monitor_loop_init ==
    /\ pc = "timing"
    /\ \/ pc' = "startup" /\ UNCHANGED <<exit_code, held, faults>>
       \/ Fail("clock") /\ LoopRefused /\ signal_channel_destroy
    /\ UNCHANGED <<manager, stop_flag, pending, consecutive_fails, decided, link>>

monitor_log_startup ==
    /\ pc = "startup" /\ pc' = "reactor"
    /\ \/ inbox' = Announced("READY") /\ UNCHANGED faults
       \/ Fail("ready") /\ UNCHANGED inbox
    /\ UNCHANGED <<unit, age, starts, window_age, stop_wanted, exit_code, held,
                   stop_flag, pending, consecutive_fails, decided, link>>

-----------------------------------------------------------------------------
(* The reactor, a probe at a time.                                         *)

InReactor == pc = "reactor" /\ TimePasses
Leave(code) == pc' = "leaving" /\ exit_code' = code

ProbeAnswered ==
    /\ InReactor /\ link = "up" /\ consecutive_fails' = 0
    /\ UNCHANGED <<unit, starts, inbox, stop_wanted, pc, exit_code, held,
                   stop_flag, pending, decided, link, faults>>

\* At the threshold the shutdown is carried out, at once and again at each
\* further miss while its command fails.
ProbeMissed ==
    /\ InReactor /\ link = "silent"
    /\ consecutive_fails' = AtMost(consecutive_fails + 1, FAIL_THRESHOLD)
    /\ \/ /\ consecutive_fails' < FAIL_THRESHOLD
          /\ UNCHANGED <<pc, exit_code, decided, faults>>
       \/ /\ consecutive_fails' = FAIL_THRESHOLD
          /\ Leave("success") /\ decided' = TRUE /\ UNCHANGED faults
       \/ /\ consecutive_fails' = FAIL_THRESHOLD /\ Fail("command")
          /\ UNCHANGED <<pc, exit_code, decided>>
    /\ UNCHANGED <<unit, starts, inbox, stop_wanted, held, stop_flag, pending, link>>

\* Seeded fault: the loop is left without the exit code of a failure.
LeaveUnmarked == InReactor /\ link = "down" /\ Leave("success")
    /\ UNCHANGED <<unit, starts, inbox, stop_wanted, held, stop_flag, pending,
                   consecutive_fails, decided, link, faults>>

\* sendto fails: no probe has left, none is missed, and the program gives up.
SendFailed == InReactor /\ link = "down" /\ Leave("failure")
    /\ UNCHANGED <<unit, starts, inbox, stop_wanted, held, stop_flag, pending,
                   consecutive_fails, decided, link, faults>>

\* Seeded fault: the signal is read and forgotten.
SignalForgotten ==
    /\ pc = "reactor" /\ pending /\ pending' = FALSE
    /\ UNCHANGED <<manager, pc, exit_code, held, stop_flag, consecutive_fails,
                   decided, link, faults>>

\* The receive that follows in the same pass may still fail.
monitor_handle_signal ==
    /\ pc = "reactor" /\ pending /\ pending' = FALSE /\ stop_flag' = TRUE
    /\ \/ Leave("success") /\ UNCHANGED faults
       \/ Fail("receive") /\ Leave("failure")
    /\ UNCHANGED <<manager, held, consecutive_fails, decided, link>>

-----------------------------------------------------------------------------
(* The way out.                                                            *)

monitor_loop_destroy ==
    /\ pc = "leaving" /\ pc' = "destroy"
    /\ inbox' = IF stop_flag THEN Announced("STOPPING") ELSE inbox
    /\ signal_channel_destroy
    /\ UNCHANGED <<unit, age, starts, window_age, stop_wanted, exit_code, stop_flag,
                   pending, consecutive_fails, decided, link, faults>>

openups_ctx_destroy ==
    /\ pc = "destroy" /\ held' = held \ {"icmp", "notify"} /\ pc' = "exited"
    /\ UNCHANGED <<manager, exit_code, stop_flag, pending, consecutive_fails,
                   decided, link, faults>>

\* Where it is not blocked, SIGTERM ends the process on the spot.
Killed ==
    /\ pending /\ "mask" \notin held /\ pc \notin {"none", "exited"}
    /\ Exit("signal") /\ pending' = FALSE
    /\ UNCHANGED <<manager, held, stop_flag, consecutive_fails, decided, link, faults>>

LinkChanges ==
    /\ link' \in {"up", "silent", "down"} \ {link}
    /\ UNCHANGED <<manager, process, faults>>

Systemd == Start \/ Wait \/ Notified \/ StartOverdue \/ Reap
Reactor == ProbeAnswered \/ ProbeMissed \/ SendFailed
Program ==
    \/ config_resolve \/ openups_ctx_init
    \/ BlockSignals \/ OpenSignalfd \/ monitor_loop_init \/ monitor_log_startup
    \/ Reactor \/ monitor_loop_destroy \/ openups_ctx_destroy

Next == Systemd \/ OperatorStop \/ Program \/ monitor_handle_signal \/ Killed \/ LinkChanges

Spec == Init /\ [][Next]_vars

\* systemd and the one thread of the program are scheduled; a pending signal is
\* seen in the next pass of the loop, or when it is no longer blocked.
FairSpec ==
    /\ Spec
    /\ WF_vars(Start \/ Wait) /\ WF_vars(Notified) /\ WF_vars(StartOverdue)
    /\ WF_vars(Reap) /\ WF_vars(Program)
    /\ WF_vars(monitor_handle_signal) /\ WF_vars(Killed)

-----------------------------------------------------------------------------
(* Properties.                                                             *)

\* systemd takes the unit for started only once the signals are blocked and
\* the loop is set up: no start that failed in main.c or monitor_loop_init has
\* been reported as done.
ActiveIsMonitoring == unit = "active" => pc \in {"reactor", "leaving", "destroy", "exited"}

\* Every way out of main has undone what was acquired: a start that failed
\* halfway through signal_channel_init or monitor_loop_init, a loop that failed
\* and one that was stopped have closed both sockets and the signalfd and
\* restored the signal mask before main returns.
EverythingReleased == pc = "exited" /\ exit_code # "signal" => held = {}

\* The unit is never left inactive, as if all were well, unless the operator
\* stopped it or a shutdown was decided: exit codes and Restart= fit together.
NotSilentlyGone == unit = "inactive" => stop_wanted \/ decided

\* An outage that lasts ends in a shutdown or in a unit that has visibly
\* failed, whatever mixture of silence and failing sends it consists of and
\* although each restart begins to count anew: the program cannot be restarted
\* for ever.  (At most MaxFaults calls fail, so that the shutdown command succeeds
\* in the end: one that fails at every miss is retried as long as it does.)
OutageEndsVisibly == <>[](link # "up") => <>(decided \/ stop_wanted \/ unit = "failed")

\* systemctl stop ends the unit wherever the process is at that moment.
StopHonoured == stop_wanted ~> unit \in {"inactive", "failed"}

\* src/README.md:7: after enough failures in a row the program shuts the
\* machine down.
OutageIsActedOn == <>[](link # "up") => <>decided
=============================================================================
