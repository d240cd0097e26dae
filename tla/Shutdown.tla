------------------------------ MODULE Shutdown ------------------------------
(***************************************************************************)
(* The shutdown command (shutdown.c): shutdown_trigger spawns systemctl or *)
(* shutdown and watches the child for a grace period, to tell a command    *)
(* that failed at once from one that is bringing the machine down.  The    *)
(* caller, shutdown_fsm_execute, blocks meanwhile; it calls again, at some *)
(* later miss, for as long as the result is a failure.                     *)
(***************************************************************************)
EXTENDS Integers, Sequences, FiniteSets

CONSTANTS
    CallModes,      \* the shutdown modes the reactor may call with
    GRACE_MS,       \* OPENUPS_SHUTDOWN_STARTUP_GRACE_MS
    POLL_MS,        \* OPENUPS_SHUTDOWN_POLL_INTERVAL_NS, in milliseconds
    CommandFaults,  \* the sets of calls that may fail together
    MaxClock,       \* bound: horizon of real time
    MaxLag,         \* bound: time lost between two readings of the clock
    MaxCalls        \* bound: how often the reactor tries

\* The calls that may fail.  "sigchld" is none: the process was started with
\* SIGCHLD ignored, so the kernel reaps the child and waitpid() answers ECHILD.
CommandFaultKinds == {"spawn", "clock", "sleep", "eintr", "sigchld"}

ASSUME CommandAssumption ==
    /\ CallModes \subseteq {"dry-run", "true-off", "log-only"}
    /\ GRACE_MS \in Nat \ {0} /\ POLL_MS \in Nat \ {0}
    /\ CommandFaults \subseteq SUBSET CommandFaultKinds
    /\ MaxClock \in Nat /\ MaxLag \in Nat /\ MaxCalls \in Nat

VARIABLES
    mode,           \* config->shutdown_mode
    faults,         \* the calls that may fail
    pc,             \* where shutdown_trigger is
    result,         \* what its last call returned
    deadline_ms,    \* end of the grace period
    wake_ms,        \* end of the nanosleep() under way
    children,       \* every command ever spawned
    clock,          \* CLOCK_MONOTONIC
    lag,            \* time lost since the last sleep began
    calls,          \* history: how many calls were made
    called_ms,      \* history: when the last one was made
    spawned_ms      \* history: when the last command was spawned

vars == <<mode, faults, pc, result, deadline_ms, wake_ms, children, clock, lag,
          calls, called_ms, spawned_ms>>

Init ==
    /\ mode \in CallModes /\ faults \in CommandFaults
    /\ pc = "idle" /\ result = "none"
    /\ deadline_ms = 0 /\ wake_ms = 0
    /\ children = <<>>
    /\ clock = 0 /\ lag = 0
    /\ calls = 0 /\ called_ms = 0 /\ spawned_ms = 0

\* How long shutdown_trigger may block its caller, the CommandMax of Monitor.
CommandTime == GRACE_MS + POLL_MS + 2 * MaxLag

child == children[Len(children)]

Return(r) ==
    /\ pc' = "returned" /\ result' = r
    /\ UNCHANGED <<mode, faults, deadline_ms, wake_ms, clock, lag, calls,
                   called_ms, spawned_ms>>

\* Seeded fault: a command that cannot be confirmed counts as failed.
UnconfirmedFailed == "FAILED"

shutdown_assume_started == "TRIGGERED"

-----------------------------------------------------------------------------
(* The caller.                                                             *)

\* shutdown_fsm_execute goes on after a failure, and ends the reactor after a
\* success or a dry run.  Bound: the horizon leaves room for the whole call.
Call ==
    /\ \/ pc = "idle"
       \/ pc = "returned" /\ mode # "dry-run" /\ result # "TRIGGERED"
    /\ calls < MaxCalls /\ clock + CommandTime <= MaxClock
    /\ calls' = calls + 1 /\ called_ms' = clock /\ lag' = 0
    /\ pc' = "trigger"
    /\ UNCHANGED <<mode, faults, result, deadline_ms, wake_ms, children, clock,
                   spawned_ms>>

-----------------------------------------------------------------------------
(* shutdown_trigger and shutdown_execute_command.                          *)

NoCommand ==
    /\ pc = "trigger" /\ mode # "true-off"
    /\ Return("NO_ACTION")
    /\ UNCHANGED children

\* Seeded fault: the error of posix_spawn() is not looked at.
SpawnErrorIgnored ==
    /\ pc = "trigger" /\ mode = "true-off" /\ "spawn" \in faults
    /\ pc' = "start"
    /\ UNCHANGED <<mode, faults, result, deadline_ms, wake_ms, children, clock,
                   lag, calls, called_ms, spawned_ms>>

SpawnFailed ==
    /\ pc = "trigger" /\ mode = "true-off" /\ "spawn" \in faults
    /\ Return("FAILED")
    /\ UNCHANGED children

Spawn ==
    /\ pc = "trigger" /\ mode = "true-off"
    /\ children' = Append(children, [state |-> "running", ended_ms |-> 0,
                                     code |-> "none"])
    /\ spawned_ms' = clock
    /\ pc' = "start"
    /\ UNCHANGED <<mode, faults, result, deadline_ms, wake_ms, clock, lag,
                   calls, called_ms>>

-----------------------------------------------------------------------------
(* shutdown_observe_startup.                                               *)

\* The deadline cannot overflow: the clock counts milliseconds since boot.
StartObserving ==
    /\ pc = "start"
    /\ deadline_ms' = clock + GRACE_MS
    /\ pc' = "wait"
    /\ UNCHANGED <<mode, faults, result, wake_ms, children, clock, lag, calls,
                   called_ms, spawned_ms>>

\* Seeded fault: the exit code is tested the wrong way round.
StatusInverted ==
    /\ child.state = "zombie"
    /\ children' = [children EXCEPT ![Len(children)].state = "reaped"]
    /\ Return(IF child.code = "bad" THEN "TRIGGERED" ELSE "FAILED")

\* shutdown_consume_child_status: what waitpid() reaped tells the result.
shutdown_consume_child_status ==
    /\ child.state = "zombie"
    /\ children' = [children EXCEPT ![Len(children)].state = "reaped"]
    /\ Return(IF child.code = "ok" THEN "TRIGGERED" ELSE "FAILED")

\* waitpid() fails with ECHILD: the kernel has reaped the child already.
ChildGone ==
    /\ child.state = "reaped"
    /\ Return("FAILED")
    /\ UNCHANGED children

\* Without a clock there is a single look at the child.
StartWithoutClock ==
    /\ pc = "start" /\ "clock" \in faults
    /\ \/ shutdown_consume_child_status
       \/ ChildGone
       \/ /\ child.state = "running" \/ "eintr" \in faults
          /\ Return(shutdown_assume_started)
          /\ UNCHANGED children

\* An interrupted waitpid() is repeated at once, which changes nothing.
WaitAnswered ==
    /\ pc = "wait"
    /\ \/ shutdown_consume_child_status
       \/ ChildGone
       \/ /\ child.state = "running"
          /\ pc' = "check"
          /\ UNCHANGED <<mode, faults, result, deadline_ms, wake_ms, children,
                         clock, lag, calls, called_ms, spawned_ms>>

\* Seeded fault: the command is waited for until it ends.
GraceNeverElapses == FALSE

grace_elapsed == clock >= deadline_ms

\* Seeded fault: the deadline, a point in time, is slept for as a duration.
DeadlineAsDuration == clock + deadline_ms

retry_ms == clock + POLL_MS

CheckDeadline ==
    /\ pc = "check"
    /\ IF grace_elapsed
       THEN Return("TRIGGERED") /\ UNCHANGED children
       ELSE /\ wake_ms' = retry_ms
            /\ pc' = "sleep" /\ lag' = 0
            /\ UNCHANGED <<mode, faults, result, deadline_ms, children, clock,
                           calls, called_ms, spawned_ms>>

CheckWithoutClock ==
    /\ pc = "check" /\ "clock" \in faults
    /\ Return(shutdown_assume_started)
    /\ UNCHANGED children

\* Seeded fault: the clock is read again without another look at the child.
SleepThenCheck ==
    /\ pc = "sleep" /\ clock >= wake_ms
    /\ pc' = "check"
    /\ UNCHANGED <<mode, faults, result, deadline_ms, wake_ms, children, clock,
                   lag, calls, called_ms, spawned_ms>>

\* shutdown_sleep_retry_window, which sleeps on when it is interrupted.
SleepOver ==
    /\ pc = "sleep" /\ clock >= wake_ms
    /\ pc' = "wait"
    /\ UNCHANGED <<mode, faults, result, deadline_ms, wake_ms, children, clock,
                   lag, calls, called_ms, spawned_ms>>

SleepFailed ==
    /\ pc = "sleep" /\ "sleep" \in faults
    /\ Return(shutdown_assume_started)
    /\ UNCHANGED children

-----------------------------------------------------------------------------
(* The environment.                                                        *)

TimePasses ==
    /\ clock < MaxClock
    /\ clock' = clock + 1
    /\ IF pc \in {"idle", "returned"} \/ (pc = "sleep" /\ clock < wake_ms)
       THEN lag' = lag
       ELSE lag < MaxLag /\ lag' = lag + 1
    /\ UNCHANGED <<mode, faults, pc, result, deadline_ms, wake_ms, children,
                   calls, called_ms, spawned_ms>>

\* The command ends, by itself or by a signal.
CommandEnds ==
    \E i \in 1..Len(children), code \in {"ok", "bad"} :
        /\ children[i].state = "running"
        /\ children' = [children EXCEPT ![i] =
               [state |-> IF "sigchld" \in faults THEN "reaped"
                          ELSE "zombie",
                ended_ms |-> clock, code |-> code]]
        /\ UNCHANGED <<mode, faults, pc, result, deadline_ms, wake_ms, clock,
                       lag, calls, called_ms, spawned_ms>>

-----------------------------------------------------------------------------
Progress ==
    \/ NoCommand \/ Spawn
    \/ StartObserving \/ WaitAnswered \/ CheckDeadline \/ SleepOver

Failure ==
    \/ SpawnFailed \/ StartWithoutClock \/ CheckWithoutClock \/ SleepFailed

Next == Call \/ Progress \/ Failure \/ TimePasses \/ CommandEnds

Spec == Init /\ [][Next]_vars

\* The thread runs, is not interrupted for ever, and the clock advances;
\* nothing is assumed of the command, and no failure is relied upon.
FairSpec == Spec /\ WF_vars(Progress) /\ SF_vars(TimePasses)

-----------------------------------------------------------------------------
(* Properties.                                                             *)

Children == [state : {"running", "zombie", "reaped"}, ended_ms : 0..MaxClock,
             code : {"none", "ok", "bad"}]

\* Every variable holds a value of its type, and a command has been spawned
\* wherever shutdown_observe_startup looks at one.
TypeOK ==
    /\ mode \in CallModes /\ faults \in CommandFaults
    /\ pc \in {"idle", "trigger", "start", "wait", "check", "sleep", "returned"}
    /\ result \in {"none", "NO_ACTION", "TRIGGERED", "FAILED"}
    /\ deadline_ms \in Nat /\ wake_ms \in Nat
    /\ children \in Seq(Children)
    /\ clock \in 0..MaxClock /\ lag \in 0..MaxLag
    /\ calls \in 0..MaxCalls
    /\ called_ms \in 0..MaxClock /\ spawned_ms \in 0..MaxClock
    /\ pc \in {"start", "wait", "check", "sleep"} => children # <<>>

\* However often the reactor retries, it never starts a command while an
\* earlier one still runs: a failure is reported only of a command that is over.
OneCommand ==
    \A i \in 1..Len(children), j \in 1..Len(children) :
        children[i].state = "running" /\ children[j].state = "running" => i = j

\* A command that reported success is never started again: the retry after a
\* failure cannot follow a shutdown that is already under way.  The kernel's
\* reaping hides the success, so a process that ignores SIGCHLD is excepted.
SuccessNotRetried ==
    "sigchld" \notin faults =>
        \A i \in 1..(Len(children) - 1) : children[i].code = "bad"

\* A command that fails within the grace period is never taken for a shutdown
\* under way, up to the time lost between the last look at it and the clock.
EarlyFailureSeen ==
    /\ pc = "returned" /\ result = "TRIGGERED"
    /\ faults \cap {"clock", "sleep"} = {}
    /\ child.code = "bad"
    => child.ended_ms + MaxLag >= spawned_ms + GRACE_MS

\* What the reactor relies on: the call blocks it for a bounded time, whatever
\* the command does, and only a command can have triggered a shutdown.
CallContract ==
    /\ pc \notin {"idle", "returned"} => clock <= called_ms + CommandTime
    /\ result = "TRIGGERED" => mode = "true-off" /\ children # <<>>

\* Every call returns, though the command may never end.
CallReturns == pc = "trigger" ~> pc = "returned"

-----------------------------------------------------------------------------
(* The inductive invariants.                                               *)

Observing == pc \in {"start", "wait", "check", "sleep"}

\* The reactor is free to start a command.
Retryable ==
    pc \in {"idle", "trigger"} \/ (pc = "returned" /\ result # "TRIGGERED")

\* The commands that a retry leaves behind.
Earlier == {i \in 1..Len(children) : i < Len(children) \/ Retryable}

\* Such a command is over, and has failed unless nobody can tell.
EarlierAreOver ==
    /\ \A i \in Earlier :
           /\ children[i].state # "running"
           /\ "sigchld" \notin faults => children[i].code = "bad"
    /\ \A i \in 1..Len(children) :
           children[i].state = "running" <=> children[i].code = "none"
    /\ Observing /\ "sigchld" \notin faults => child.state # "reaped"

\* A shutdown is reported once, and of a command.
ReportedOnce ==
    /\ Observing => mode = "true-off"
    /\ result = "TRIGGERED" =>
           mode = "true-off" /\ children # <<>> /\ pc = "returned"

\* Every stage of the observation has its place between call and deadline.
ObservationIsTimed ==
    /\ called_ms <= clock /\ spawned_ms <= clock
    /\ pc = "trigger" => clock <= called_ms + lag
    /\ pc = "start" => called_ms <= spawned_ms /\ clock <= called_ms + lag
    /\ pc \in {"wait", "check", "sleep"} =>
           /\ spawned_ms + GRACE_MS <= deadline_ms
           /\ deadline_ms <= called_ms + GRACE_MS + MaxLag
           /\ clock <= deadline_ms + POLL_MS + lag
    /\ pc = "sleep" =>
           wake_ms <= deadline_ms + POLL_MS /\ clock <= wake_ms + lag

\* A failure after the last look at the child is recent, and one after the
\* call returned comes after the grace period.
FailureIsRecent ==
    /\ pc = "check" /\ child.code = "bad" => clock <= child.ended_ms + lag
    /\ /\ pc = "returned" /\ result = "TRIGGERED"
       /\ faults \cap {"clock", "sleep"} = {} /\ child.code = "none"
       => clock >= spawned_ms + GRACE_MS

CommandInv ==
    /\ TypeOK /\ EarlierAreOver /\ ReportedOnce /\ ObservationIsTimed
    /\ FailureIsRecent /\ EarlyFailureSeen

=============================================================================
