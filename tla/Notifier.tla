------------------------------ MODULE Notifier ------------------------------
(***************************************************************************)
(* The systemd notifier (systemd.c) behind the runtime services: datagrams *)
(* to NOTIFY_SOCKET that are retried when the socket is short of buffers,  *)
(* and status texts that are not repeated within a window.  The socket     *)
(* blocks while systemd has not read what it holds.                        *)
(***************************************************************************)
EXTENDS Integers, Sequences

CONSTANTS
    Statuses,           \* the status texts
    WatchdogSettings,   \* WATCHDOG_USEC, 0 for absent, malformed or foreign
    RETRY_COUNT,        \* OPENUPS_NOTIFY_RETRY_COUNT
    RETRY_MS,           \* OPENUPS_NOTIFY_RETRY_NS, in milliseconds
    DEDUP_MS,           \* OPENUPS_STATUS_DEDUP_WINDOW_MS
    Backlog,            \* datagrams the socket holds for systemd
    NotifyFaults,       \* the calls that may fail, a subset of NotifyFaultKinds
    MaxClock,           \* bound: horizon of real time
    MaxCalls            \* bound: notifications asked for

NotifyFaultKinds == {"socket", "connect", "eintr", "nobufs", "refused", "clock"}

ASSUME NotifierAssumption ==
    /\ WatchdogSettings \subseteq Nat
    /\ RETRY_COUNT \in Nat \ {0} /\ RETRY_MS \in Nat /\ DEDUP_MS \in Nat
    /\ Backlog \in Nat \ {0}
    /\ NotifyFaults \subseteq NotifyFaultKinds
    /\ MaxClock \in Nat \ {0} /\ MaxCalls \in Nat

VARIABLES
    phase,      \* where the process is in the notifier's life
    notifier,   \* ctx->systemd
    descriptor, \* whether the process has the socket open, as the kernel knows it
    call,       \* the notification being sent: its attempts, whether in send()
    returned,   \* the notification that returned last, and its result
    wake_ms,    \* end of the sleep before the next attempt
    clock,      \* CLOCK_MONOTONIC, which has started before the process
    told,       \* every datagram the socket has accepted, in order
    taken,      \* how many of them systemd has read
    calls       \* history: notifications asked for

socket == <<notifier, descriptor>>
vars == <<phase, socket, call, returned, wake_ms, clock, told, taken, calls>>

NoTime == -1
NoStatus == "none"

\* Nothing is being sent, or nothing has been.
NoCall == [op |-> "none", status |-> NoStatus, now_ms |-> 0, attempt |-> 0,
           sending |-> FALSE, before |-> 0, ok |-> FALSE]

\* The fields systemd_notifier_init sets first of all.
Init ==
    /\ phase = "new"
    /\ notifier = [enabled |-> FALSE, sockfd |-> -1, watchdog_usec |-> 0,
                   last_status |-> NoStatus, last_status_ms |-> 0]
    /\ descriptor = "closed"
    /\ call = NoCall /\ returned = NoCall
    /\ wake_ms = 0 /\ clock = 1
    /\ told = <<>> /\ taken = 0 /\ calls = 0

-----------------------------------------------------------------------------
(* systemd_notifier_init and systemd_notifier_destroy.                     *)

\* The number of the descriptor, if there is one.
Sockfd == 3

\* No NOTIFY_SOCKET, or socket() fails.
NoSocket ==
    /\ phase = "new" /\ "socket" \in NotifyFaults
    /\ phase' = "starting"
    /\ UNCHANGED <<socket, call, returned, wake_ms, clock, told, taken, calls>>

SocketOpened ==
    /\ phase = "new"
    /\ descriptor' = "open" /\ notifier' = [notifier EXCEPT !.sockfd = Sockfd]
    /\ phase' = "connecting"
    /\ UNCHANGED <<call, returned, wake_ms, clock, told, taken, calls>>

Connected ==
    /\ phase = "connecting"
    /\ \E usec \in WatchdogSettings :
           notifier' = [notifier EXCEPT !.enabled = TRUE, !.watchdog_usec = usec]
    /\ phase' = "starting"
    /\ UNCHANGED <<descriptor, call, returned, wake_ms, clock, told, taken, calls>>

\* Seeded fault: the number is forgotten and the socket left open.
ConnectLeaks ==
    /\ phase = "connecting" /\ "connect" \in NotifyFaults
    /\ notifier' = [notifier EXCEPT !.sockfd = -1]
    /\ phase' = "starting"
    /\ UNCHANGED <<descriptor, call, returned, wake_ms, clock, told, taken, calls>>

\* An address that does not fit, or a connect() that fails, other than by EINTR.
NotConnected ==
    /\ phase = "connecting" /\ "connect" \in NotifyFaults
    /\ descriptor' = "closed" /\ notifier' = [notifier EXCEPT !.sockfd = -1]
    /\ phase' = "starting"
    /\ UNCHANGED <<call, returned, wake_ms, clock, told, taken, calls>>

\* From openups_ctx_destroy, also when the loop could not be set up.
systemd_notifier_destroy ==
    /\ phase \in {"starting", "running", "stopping"} /\ call = NoCall
    /\ descriptor' = IF notifier.sockfd >= 0 THEN "closed" ELSE descriptor
    /\ notifier' = [notifier EXCEPT !.enabled = FALSE, !.sockfd = -1]
    /\ phase' = "destroyed"
    /\ UNCHANGED <<call, returned, wake_ms, clock, told, taken, calls>>

-----------------------------------------------------------------------------
(* The notifications.                                                      *)

\* send_notify is entered; the others of runtime_services do nothing unless the
\* notifier is enabled.
Begin(op, status, now_ms) ==
    /\ call' = [op |-> op, status |-> status, now_ms |-> now_ms, attempt |-> 1,
                sending |-> FALSE, before |-> Len(told), ok |-> FALSE]
    /\ UNCHANGED <<socket, returned, wake_ms, clock, told, taken>>

Free == notifier.enabled /\ call = NoCall /\ calls < MaxCalls

systemd_notifier_ready ==
    /\ phase = "starting"
    /\ phase' = "running"
    /\ IF Free
       THEN calls' = calls + 1 /\ Begin("READY", NoStatus, 0)
       ELSE UNCHANGED <<socket, call, returned, wake_ms, clock, told, taken,
                        calls>>

\* Seeded fault: the window is not looked at.
DuplicateForEver(status, now_ms) ==
    notifier.last_status = status /\ notifier.last_status_ms # 0

\* Sent before, and less than the window ago.
duplicate(status, now_ms) ==
    /\ notifier.last_status = status /\ notifier.last_status_ms # 0
    /\ now_ms # NoTime
    /\ now_ms - notifier.last_status_ms < DEDUP_MS

systemd_notifier_status ==
    /\ phase = "running" /\ Free
    /\ calls' = calls + 1 /\ phase' = phase
    /\ \E status \in Statuses,
          now_ms \in {clock} \cup (IF "clock" \in NotifyFaults THEN {NoTime}
                                   ELSE {}) :
           IF duplicate(status, now_ms)
           THEN /\ returned' = [op |-> "STATUS", status |-> status,
                                now_ms |-> now_ms, attempt |-> 0,
                                sending |-> FALSE, before |-> Len(told),
                                ok |-> TRUE]
                /\ UNCHANGED <<socket, call, wake_ms, clock, told, taken>>
           ELSE Begin("STATUS", status, now_ms)

systemd_notifier_watchdog ==
    /\ phase = "running" /\ Free /\ notifier.watchdog_usec > 0
    /\ calls' = calls + 1 /\ phase' = phase
    /\ Begin("WATCHDOG", NoStatus, 0)

systemd_notifier_stopping ==
    /\ phase = "running" /\ Free
    /\ calls' = calls + 1 /\ phase' = "stopping"
    /\ Begin("STOPPING", NoStatus, 0)

\* Seeded fault: the interval is the whole watchdog time.
WholeInterval == notifier.watchdog_usec \div 1000

\* Half the watchdog time, in milliseconds.
half_interval_ms == notifier.watchdog_usec \div 2000

systemd_notifier_watchdog_interval_ms ==
    IF ~notifier.enabled \/ notifier.watchdog_usec = 0 THEN 0
    ELSE IF half_interval_ms = 0 THEN 1 ELSE half_interval_ms

-----------------------------------------------------------------------------
(* send_notify: the test of its loop, and the send() in it.               *)

Return(ok) ==
    /\ returned' = [call EXCEPT !.ok = ok, !.sending = FALSE]
    /\ call' = NoCall

\* Seeded fault: the attempts are not limited.
UnlimitedAttempts == TRUE

attempt_left == call.attempt <= RETRY_COUNT

\* The loop is at its test, after the sleep if the last attempt asked for one.
AtTest == call # NoCall /\ ~call.sending /\ clock >= wake_ms

NextAttempt ==
    /\ AtTest /\ attempt_left
    /\ call' = [call EXCEPT !.sending = TRUE]
    /\ UNCHANGED <<phase, socket, returned, wake_ms, clock, told, taken, calls>>

\* Seeded fault: the text counts as sent whether it was or not.
RecordedUnsent(ok) ==
    IF call.op = "STATUS"
    THEN [notifier EXCEPT !.last_status = call.status,
                          !.last_status_ms = IF call.now_ms = NoTime THEN 0
                                             ELSE call.now_ms]
    ELSE notifier

\* systemd_notifier_status remembers a text that was sent, with the time read
\* before it was.
record_status(ok) ==
    IF ok /\ call.op = "STATUS"
    THEN [notifier EXCEPT !.last_status = call.status,
                          !.last_status_ms = IF call.now_ms = NoTime THEN 0
                                             ELSE call.now_ms]
    ELSE notifier

\* The socket has room for a datagram; without it send() blocks.
Room == Len(told) - taken < Backlog

Tell == told' = Append(told, [op |-> call.op, status |-> call.status,
                              at_ms |-> clock])

\* The attempt is over and the loop goes on.
AttemptOver == call' = [call EXCEPT !.sending = FALSE, !.attempt = @ + 1]

\* Seeded fault: a datagram that was accepted is sent once more.
SentTwice ==
    /\ call.sending /\ Room /\ Tell
    /\ IF call.attempt < RETRY_COUNT
       THEN AttemptOver /\ UNCHANGED <<notifier, returned>>
       ELSE Return(TRUE) /\ notifier' = record_status(TRUE)
    /\ UNCHANGED <<phase, descriptor, wake_ms, clock, taken, calls>>

Sent ==
    /\ call.sending /\ Room /\ Tell
    /\ Return(TRUE)
    /\ notifier' = record_status(TRUE)
    /\ UNCHANGED <<phase, descriptor, wake_ms, clock, taken, calls>>

\* Seeded fault: an interrupted attempt is made again without being counted.
InterruptedUncounted ==
    /\ call.sending /\ "eintr" \in NotifyFaults
    /\ call' = [call EXCEPT !.sending = FALSE]
    /\ UNCHANGED <<phase, socket, returned, wake_ms, clock, told, taken, calls>>

Interrupted ==
    /\ call.sending /\ "eintr" \in NotifyFaults
    /\ AttemptOver
    /\ UNCHANGED <<phase, socket, returned, wake_ms, clock, told, taken, calls>>

\* EAGAIN or ENOBUFS: the next attempt, or the end, comes after a sleep.
\* Bound: the sleep ends within the horizon.
BackedOff ==
    /\ call.sending /\ "nobufs" \in NotifyFaults
    /\ clock + RETRY_MS <= MaxClock
    /\ AttemptOver
    /\ wake_ms' = clock + RETRY_MS
    /\ UNCHANGED <<phase, socket, returned, clock, told, taken, calls>>

Refused ==
    /\ call.sending /\ "refused" \in NotifyFaults
    /\ Return(FALSE)
    /\ notifier' = record_status(FALSE)
    /\ UNCHANGED <<phase, descriptor, wake_ms, clock, told, taken, calls>>

\* The loop ends and send_notify returns false.
GivenUp ==
    /\ AtTest /\ ~attempt_left
    /\ Return(FALSE)
    /\ notifier' = record_status(FALSE)
    /\ UNCHANGED <<phase, descriptor, wake_ms, clock, told, taken, calls>>

-----------------------------------------------------------------------------
(* The environment.                                                        *)

SystemdReads ==
    /\ taken < Len(told)
    /\ taken' = taken + 1
    /\ UNCHANGED <<phase, socket, call, returned, wake_ms, clock, told, calls>>

TimePasses ==
    /\ clock < MaxClock /\ phase # "destroyed"
    /\ clock' = clock + 1
    /\ UNCHANGED <<phase, socket, call, returned, wake_ms, told, taken, calls>>

-----------------------------------------------------------------------------
Lifecycle ==
    \/ NoSocket \/ SocketOpened \/ Connected \/ NotConnected
    \/ systemd_notifier_destroy

Notify ==
    \/ systemd_notifier_ready \/ systemd_notifier_status
    \/ systemd_notifier_watchdog \/ systemd_notifier_stopping

LoopTest == NextAttempt \/ GivenUp
SendReturns == Sent \/ Interrupted \/ BackedOff \/ Refused

Next ==
    \/ Lifecycle \/ Notify \/ LoopTest \/ SendReturns
    \/ SystemdReads \/ TimePasses

Spec == Init /\ [][Next]_vars

\* The thread runs, and a send() that finds room returns, with whatever result;
\* the clock advances, and systemd keeps reading its socket.
FairSpec ==
    /\ Spec
    /\ WF_vars(LoopTest \/ (Room /\ SendReturns))
    /\ WF_vars(SystemdReads) /\ WF_vars(TimePasses)

-----------------------------------------------------------------------------
(* Properties.                                                             *)

Ops == {"READY", "STATUS", "WATCHDOG", "STOPPING"}

Calls == [op : Ops \cup {"none"}, status : Statuses \cup {NoStatus},
          now_ms : -1..MaxClock, attempt : 0..(RETRY_COUNT + 1),
          sending : BOOLEAN, before : 0..MaxCalls, ok : BOOLEAN]

Phases == {"new", "connecting", "starting", "running", "stopping", "destroyed"}

Notifiers == [enabled : BOOLEAN, sockfd : {-1, Sockfd},
              watchdog_usec : WatchdogSettings \cup {0},
              last_status : Statuses \cup {NoStatus},
              last_status_ms : 0..MaxClock]

\* Every variable holds a value of its type, and no call makes more than
\* RETRY_COUNT attempts.
TypeOK ==
    /\ phase \in Phases /\ notifier \in Notifiers
    /\ descriptor \in {"open", "closed"}
    /\ call \in Calls /\ returned \in Calls
    /\ wake_ms \in Nat /\ clock \in 1..MaxClock
    /\ told \in Seq([op : Ops, status : Statuses \cup {NoStatus},
                     at_ms : 1..MaxClock])
    /\ taken \in 0..Len(told) /\ calls \in 0..MaxCalls

\* The status datagrams among those sent, and the last of them.
StatusesTold == {i \in 1..Len(told) : told[i].op = "STATUS"}
LatestStatus == CHOOSE i \in StatusesTold : \A j \in StatusesTold : j <= i

\* When a status call reports success, the last status systemd was told is the
\* text of that call, whether it was sent, retried or suppressed.
StatusIsCurrent ==
    returned.op = "STATUS" /\ returned.ok =>
        /\ StatusesTold # {}
        /\ told[LatestStatus].status = returned.status

\* A text is suppressed only while systemd was told it less than the window ago.
SuppressionIsBrief ==
    returned.op = "STATUS" /\ returned.attempt = 0 =>
        returned.now_ms < told[LatestStatus].at_ms + DEDUP_MS

\* A notification reaches systemd at most once however often it is retried, and
\* its result says whether it did.
ToldOnce ==
    /\ call # NoCall => Len(told) = call.before
    /\ call = NoCall /\ returned.attempt > 0 =>
           Len(told) = returned.before + (IF returned.ok THEN 1 ELSE 0)

\* Outside its construction the notifier is enabled exactly as long as the process
\* holds a socket, and knows its number exactly as long: a construction that fails
\* after socket() leaks nothing, and no descriptor is closed that is not its own.
SocketMatches ==
    phase # "connecting" =>
        /\ notifier.enabled <=> descriptor = "open"
        /\ notifier.sockfd = Sockfd <=> descriptor = "open"

\* The keep-alive interval is at most half of systemd's watchdog time, down to
\* the resolution of a millisecond, and not zero when there is a watchdog.
KeepaliveInTime ==
    LET interval_ms == systemd_notifier_watchdog_interval_ms
    IN  notifier.enabled /\ notifier.watchdog_usec > 0 =>
            /\ interval_ms > 0
            /\ 2000 * interval_ms <= notifier.watchdog_usec \/ interval_ms = 1

\* Every notification returns, as long as systemd reads its socket: whatever send()
\* answers and however often, the attempts end.
NotifyReturns == call # NoCall ~> call = NoCall

-----------------------------------------------------------------------------
(* The inductive invariant.                                                *)

\* A call under way is one of the notifications, has begun its first attempt,
\* and read the clock before it; there are no more datagrams than calls.
CallsAreCounted ==
    /\ call # NoCall =>
           /\ call.op \in Ops /\ call.attempt >= 1 /\ call.now_ms <= clock
           /\ call.sending => attempt_left
    /\ Len(told) + (IF call = NoCall THEN 0 ELSE 1) <= calls

\* The text the window compares with is the one systemd was told last, and was
\* told no earlier than the time remembered for it.
StatusIsRemembered ==
    /\ StatusesTold # {} =>
           \E i \in StatusesTold : \A j \in StatusesTold : j <= i
    /\ notifier.last_status_ms # 0 =>
           /\ StatusesTold # {}
           /\ told[LatestStatus].status = notifier.last_status
           /\ notifier.last_status_ms <= told[LatestStatus].at_ms

\* Under construction the notifier is not yet enabled, and it knows its socket from
\* the moment it has one.
SocketInv ==
    /\ SocketMatches
    /\ phase \in {"new", "connecting"} => ~notifier.enabled
    /\ phase = "connecting" => notifier.sockfd = Sockfd /\ descriptor = "open"

NotifierInv ==
    /\ TypeOK /\ CallsAreCounted /\ StatusIsRemembered
    /\ StatusIsCurrent /\ SuppressionIsBrief /\ ToldOnce /\ SocketInv

=============================================================================
