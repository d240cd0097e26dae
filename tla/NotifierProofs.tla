--------------------------- MODULE NotifierProofs ---------------------------
(* Proofs about the systemd notifier for every retry count, window, socket *)
(* backlog and set of faults.                                              *)
EXTENDS Notifier, TLAPS

-----------------------------------------------------------------------------
(* The status told last.                                                   *)

\* LatestStatus is the last of the status datagrams, if there is a last one.
LEMMA LatestIsLast ==
    ASSUME NEW i \in StatusesTold, Len(told) \in Nat,
           \A j \in StatusesTold : j <= i
    PROVE  LatestStatus = i
<1>1. LatestStatus \in StatusesTold /\ \A j \in StatusesTold : j <= LatestStatus
  BY DEF LatestStatus
<1>2. i <= LatestStatus /\ LatestStatus <= i
  BY <1>1
<1>3. i \in Int /\ LatestStatus \in Int
  BY <1>1 DEF StatusesTold
<1> QED BY <1>2, <1>3

\* One more datagram is the latest status if it is one, and else leaves the
\* latest status where it was.
LEMMA OneMoreTold ==
    ASSUME TypeOK, StatusIsRemembered,
           NEW d \in [op : Ops, status : Statuses \cup {NoStatus},
                      at_ms : 1..MaxClock],
           told' = Append(told, d)
    PROVE  /\ Len(told') = Len(told) + 1
           /\ StatusesTold' # {} =>
                  \E i \in StatusesTold' : \A j \in StatusesTold' : j <= i
           /\ d.op = "STATUS" =>
                  StatusesTold' # {} /\ told'[LatestStatus'] = d
           /\ d.op # "STATUS" =>
                  /\ StatusesTold' = StatusesTold
                  /\ StatusesTold # {} =>
                         told'[LatestStatus'] = told[LatestStatus]
<1>1. /\ Len(told') = Len(told) + 1 /\ Len(told) \in Nat
      /\ told'[Len(told) + 1] = d
      /\ \A i \in 1..Len(told) : told'[i] = told[i]
  BY DEF TypeOK
<1>2. CASE d.op = "STATUS"
  <2>1. /\ Len(told) + 1 \in StatusesTold'
        /\ \A j \in StatusesTold' : j <= Len(told) + 1
    BY <1>1, <1>2 DEF StatusesTold
  <2>2. Len(told') \in Nat
    BY <1>1
  <2>3. LatestStatus' = Len(told) + 1
    BY <2>1, <2>2, LatestIsLast DEF StatusesTold, LatestStatus
  <2> QED BY <1>1, <1>2, <2>1, <2>3
<1>3. CASE d.op # "STATUS"
  <2>1. StatusesTold' = StatusesTold
    BY <1>1, <1>3 DEF StatusesTold
  <2>2. LatestStatus' = LatestStatus
    BY <2>1 DEF LatestStatus
  <2>3. ASSUME StatusesTold # {} PROVE told'[LatestStatus'] = told[LatestStatus]
    <3>1. PICK i \in StatusesTold : \A j \in StatusesTold : j <= i
      BY <2>3 DEF StatusIsRemembered
    <3>2. LatestStatus = i /\ i \in 1..Len(told)
      BY <1>1, <3>1, LatestIsLast DEF StatusesTold
    <3> QED BY <1>1, <2>2, <3>2
  <2>4. StatusesTold' # {} =>
            \E i \in StatusesTold' : \A j \in StatusesTold' : j <= i
    BY <2>1 DEF StatusIsRemembered
  <2> QED BY <1>1, <1>3, <2>1, <2>3, <2>4
<1> QED BY <1>2, <1>3

-----------------------------------------------------------------------------
(* The invariant.                                                          *)

\* What does not change keeps everything said about the datagrams sent.
LEMMA ToldStands ==
    ASSUME StatusIsRemembered, UNCHANGED told,
           notifier'.last_status = notifier.last_status,
           notifier'.last_status_ms = notifier.last_status_ms
    PROVE  StatusIsRemembered' /\ StatusesTold' = StatusesTold
           /\ LatestStatus' = LatestStatus
<1>1. StatusesTold' = StatusesTold /\ LatestStatus' = LatestStatus
  BY DEF StatusesTold, LatestStatus
<1> QED BY <1>1 DEF StatusIsRemembered

\* The notifier starts in the invariant.
LEMMA NotifierInit == Init => NotifierInv
<1> SUFFICES ASSUME Init PROVE NotifierInv
  OBVIOUS
<1>1. Len(told) = 0 /\ told = <<>>
  BY DEF Init
<1>2. NoCall \in Calls
  BY NotifierAssumption DEF NoCall, Calls, NoStatus, Ops
<1>3. TypeOK
  BY <1>1, <1>2, NotifierAssumption
  DEF Init, TypeOK, Phases, Notifiers, Sockfd
<1>4. StatusesTold = {}
  BY <1>1 DEF StatusesTold
<1> QED
  BY <1>1, <1>3, <1>4
  DEF NotifierInv, Init, NoCall, CallsAreCounted, StatusIsRemembered,
      StatusIsCurrent, SuppressionIsBrief, ToldOnce, SocketInv, SocketMatches,
      Sockfd

\* A notification that begins adds a call and sends nothing yet.
LEMMA BeginKeeps ==
    ASSUME NotifierInv, Free, calls' = calls + 1,
           NEW op \in Ops, NEW status \in Statuses \cup {NoStatus},
           NEW now \in -1..clock,
           Begin(op, status, now),
           phase # "connecting", phase' \in Phases \ {"new", "connecting"}
    PROVE  NotifierInv'
<1> DEFINE begun == [op |-> op, status |-> status, now_ms |-> now,
                     attempt |-> 1, sending |-> FALSE, before |-> Len(told),
                     ok |-> FALSE]
<1>1. /\ call' = begun /\ call = NoCall
      /\ UNCHANGED <<notifier, descriptor, returned, wake_ms, clock, told, taken>>
      /\ calls < MaxCalls
  BY DEF Begin, Free, socket
<1>2. call' # NoCall
  BY <1>1 DEF NoCall, Ops
<1>3. /\ TypeOK /\ Len(told) \in Nat /\ calls \in Nat /\ clock \in Nat
      /\ Len(told) <= calls /\ clock <= MaxClock
  BY <1>1, NotifierAssumption DEF NotifierInv, CallsAreCounted, TypeOK
<1>4. begun \in Calls
  <2>1. now \in -1..MaxClock /\ Len(told) \in 0..MaxCalls
        /\ 1 \in 0..(RETRY_COUNT + 1)
    BY <1>1, <1>3, NotifierAssumption
  <2> QED BY <2>1 DEF Calls
<1>5. TypeOK'
  BY <1>1, <1>3, <1>4, NotifierAssumption DEF TypeOK
<1>6. CallsAreCounted'
  <2>1. /\ call'.op = op /\ call'.attempt = 1 /\ call'.now_ms = now
        /\ ~call'.sending
    BY <1>1
  <2> QED BY <1>1, <1>2, <1>3, <2>1 DEF CallsAreCounted
<1>7. /\ StatusIsRemembered' /\ StatusesTold' = StatusesTold
      /\ LatestStatus' = LatestStatus
  BY <1>1, ToldStands DEF NotifierInv
<1>8. ToldOnce'
  BY <1>1, <1>2 DEF ToldOnce
<1> QED
  BY <1>1, <1>5, <1>6, <1>7, <1>8
  DEF NotifierInv, StatusIsCurrent, SuppressionIsBrief, SocketInv, SocketMatches

\* A notification that returns without having been accepted changes nothing
\* but its result.
LEMMA FailureKeeps ==
    ASSUME NotifierInv, call # NoCall, Return(FALSE),
           notifier' = record_status(FALSE),
           UNCHANGED <<phase, descriptor, wake_ms, clock, told, taken, calls>>
    PROVE  NotifierInv'
<1>1. /\ returned' = [call EXCEPT !.ok = FALSE, !.sending = FALSE]
      /\ call' = NoCall
      /\ notifier' = notifier
  BY DEF Return, record_status
<1>2. /\ TypeOK /\ Len(told) = call.before /\ call.attempt >= 1
      /\ call \in Calls
  BY DEF NotifierInv, TypeOK, ToldOnce, CallsAreCounted
<1>3. /\ returned' \in Calls /\ returned'.ok = FALSE
      /\ returned'.before = call.before /\ returned'.attempt = call.attempt
  BY <1>1, <1>2 DEF Calls
<1>4. NoCall \in Calls
  BY NotifierAssumption DEF NoCall, Calls, NoStatus, Ops
<1>5. TypeOK'
  BY <1>1, <1>2, <1>3, <1>4 DEF TypeOK
<1>6. /\ StatusIsRemembered'
  BY <1>1, ToldStands DEF NotifierInv
<1>7. CallsAreCounted'
  <2>1. Len(told) + 1 <= calls /\ Len(told) \in Nat /\ calls \in Nat
    BY <1>2, NotifierAssumption DEF NotifierInv, CallsAreCounted, TypeOK
  <2> QED BY <1>1, <2>1 DEF CallsAreCounted
<1>8. ToldOnce'
  BY <1>1, <1>2, <1>3 DEF ToldOnce, Calls
<1>9. StatusIsCurrent' /\ SuppressionIsBrief'
  <2>1. call.attempt # 0
    BY <1>2 DEF Calls
  <2> QED BY <1>3, <2>1 DEF StatusIsCurrent, SuppressionIsBrief
<1> QED
  BY <1>1, <1>5, <1>6, <1>7, <1>8, <1>9
  DEF NotifierInv, SocketInv, SocketMatches

\* The loop goes on with the same notification: with an attempt after its test,
\* with the next test after an attempt.
LEMMA LoopKeeps ==
    ASSUME NotifierInv, call # NoCall, wake_ms' \in Nat,
           \/ attempt_left /\ call' = [call EXCEPT !.sending = TRUE]
           \/ call.sending /\ AttemptOver,
           UNCHANGED <<phase, socket, returned, clock, told, taken, calls>>
    PROVE  NotifierInv'
<1>1. /\ TypeOK /\ call \in Calls
      /\ call.attempt >= 1 /\ call.attempt <= RETRY_COUNT /\ call.op \in Ops
      /\ call.now_ms <= clock /\ call.attempt \in Nat
  BY NotifierAssumption
  DEF NotifierInv, TypeOK, CallsAreCounted, Calls, attempt_left
<1>2. /\ call' \in Calls /\ call'.op = call.op /\ call'.now_ms = call.now_ms
      /\ call'.before = call.before
      /\ \/ call'.attempt = call.attempt
         \/ call'.attempt = call.attempt + 1 /\ ~call'.sending
  <2>1. call.attempt + 1 \in 0..(RETRY_COUNT + 1)
    BY <1>1, NotifierAssumption
  <2> QED BY <1>1, <2>1 DEF Calls, AttemptOver
<1>3. /\ call' # NoCall /\ call'.attempt >= 1
      /\ call'.sending => attempt_left'
  BY <1>1, <1>2 DEF NoCall, Ops, attempt_left
<1>4. TypeOK'
  BY <1>1, <1>2 DEF TypeOK, socket
<1>5. CallsAreCounted'
  BY <1>1, <1>2, <1>3 DEF NotifierInv, CallsAreCounted
<1>6. /\ StatusIsRemembered' /\ StatusesTold' = StatusesTold
      /\ LatestStatus' = LatestStatus
  BY ToldStands DEF NotifierInv, socket
<1>7. ToldOnce'
  BY <1>1, <1>2, <1>3 DEF NotifierInv, ToldOnce
<1> QED
  BY <1>4, <1>5, <1>6, <1>7
  DEF NotifierInv, StatusIsCurrent, SuppressionIsBrief, SocketInv,
      SocketMatches, socket

\* A datagram that is accepted ends the notification, and is the latest status
\* if it carries one.
LEMMA SentKeeps ==
    ASSUME NotifierInv, call # NoCall, Sent
    PROVE  NotifierInv'
<1> DEFINE d == [op |-> call.op, status |-> call.status, at_ms |-> clock]
<1>1. /\ call # NoCall /\ told' = Append(told, d)
      /\ returned' = [call EXCEPT !.ok = TRUE, !.sending = FALSE]
      /\ call' = NoCall /\ notifier' = record_status(TRUE)
      /\ UNCHANGED <<phase, descriptor, wake_ms, clock, taken, calls>>
  BY DEF Sent, Tell, Return
<1>2. /\ TypeOK /\ StatusIsRemembered /\ call \in Calls /\ call.op \in Ops
      /\ call.attempt >= 1 /\ call.attempt \in Int
      /\ call.now_ms <= clock /\ call.now_ms \in -1..MaxClock
      /\ Len(told) = call.before /\ Len(told) + 1 <= calls
      /\ clock \in 1..MaxClock
      /\ Len(told) \in Nat /\ calls \in Nat
  BY <1>1, NotifierAssumption
  DEF NotifierInv, TypeOK, CallsAreCounted, ToldOnce, Calls
<1>3. d \in [op : Ops, status : Statuses \cup {NoStatus}, at_ms : 1..MaxClock]
  BY <1>2 DEF Calls
<1>4. d.op = call.op /\ d.status = call.status /\ d.at_ms = clock
  OBVIOUS
<1> HIDE DEF d
<1>5. /\ Len(told') = Len(told) + 1
      /\ StatusesTold' # {} =>
             \E i \in StatusesTold' : \A j \in StatusesTold' : j <= i
      /\ d.op = "STATUS" => StatusesTold' # {} /\ told'[LatestStatus'] = d
      /\ d.op # "STATUS" =>
             /\ StatusesTold' = StatusesTold
             /\ StatusesTold # {} => told'[LatestStatus'] = told[LatestStatus]
  BY <1>1, <1>2, <1>3, OneMoreTold
<1>6. /\ returned' \in Calls /\ returned'.ok = TRUE
      /\ returned'.op = call.op /\ returned'.status = call.status
      /\ returned'.before = call.before /\ returned'.attempt = call.attempt
  BY <1>1, <1>2 DEF Calls
<1>7. /\ call.op = "STATUS" =>
             /\ notifier'.last_status = call.status
             /\ notifier'.last_status_ms =
                    IF call.now_ms = NoTime THEN 0 ELSE call.now_ms
      /\ call.op # "STATUS" => notifier' = notifier
      /\ notifier'.enabled = notifier.enabled
      /\ notifier'.sockfd = notifier.sockfd
      /\ notifier'.watchdog_usec = notifier.watchdog_usec
      /\ notifier' \in Notifiers
  <2>1. (IF call.now_ms = NoTime THEN 0 ELSE call.now_ms) \in 0..MaxClock
    BY <1>2, NotifierAssumption DEF NoTime
  <2>2. call.status \in Statuses \cup {NoStatus}
    BY <1>2 DEF Calls
  <2>3. notifier \in Notifiers
    BY <1>2 DEF TypeOK
  <2> QED BY <1>1, <2>1, <2>2, <2>3 DEF record_status, Notifiers
<1>8. TypeOK'
  <2>1. told' \in Seq([op : Ops, status : Statuses \cup {NoStatus},
                       at_ms : 1..MaxClock])
    BY <1>1, <1>2, <1>3 DEF TypeOK
  <2>2. NoCall \in Calls
    BY NotifierAssumption DEF NoCall, Calls, NoStatus, Ops
  <2>3. taken' \in 0..Len(told')
    BY <1>1, <1>2, <1>5 DEF TypeOK
  <2> QED BY <1>1, <1>2, <1>6, <1>7, <2>1, <2>2, <2>3 DEF TypeOK
<1>9. CallsAreCounted'
  BY <1>1, <1>2, <1>5 DEF CallsAreCounted
<1>10. StatusIsRemembered'
  <2>1. CASE call.op = "STATUS"
    <3>1. notifier'.last_status_ms # 0 => notifier'.last_status_ms <= clock
      BY <1>2, <1>7, <2>1
    <3> QED BY <1>4, <1>5, <1>7, <2>1, <3>1 DEF StatusIsRemembered
  <2>2. CASE call.op # "STATUS"
    BY <1>2, <1>4, <1>5, <1>7, <2>2 DEF StatusIsRemembered
  <2> QED BY <2>1, <2>2
<1>11. ToldOnce'
  BY <1>1, <1>2, <1>5, <1>6 DEF ToldOnce
<1>12. StatusIsCurrent' /\ SuppressionIsBrief'
  BY <1>2, <1>4, <1>5, <1>6 DEF StatusIsCurrent, SuppressionIsBrief
<1> QED
  BY <1>1, <1>7, <1>8, <1>9, <1>10, <1>11, <1>12
  DEF NotifierInv, SocketInv, SocketMatches

\* A status that is not repeated was told within the window.
LEMMA SuppressedKeeps ==
    ASSUME NotifierInv, Free, calls' = calls + 1, phase' = phase,
           NEW status \in Statuses, NEW now \in -1..clock,
           duplicate(status, now),
           returned' = [op |-> "STATUS", status |-> status, now_ms |-> now,
                        attempt |-> 0, sending |-> FALSE, before |-> Len(told),
                        ok |-> TRUE],
           UNCHANGED <<notifier, descriptor, call, wake_ms, clock, told, taken>>
    PROVE  NotifierInv'
<1>1. /\ TypeOK /\ StatusIsRemembered /\ CallsAreCounted
      /\ Len(told) \in Nat /\ calls \in Nat /\ calls < MaxCalls
      /\ Len(told) <= calls /\ call = NoCall /\ clock \in 1..MaxClock
  BY NotifierAssumption DEF NotifierInv, TypeOK, CallsAreCounted, Free
<1>2. returned' \in Calls
  <2>1. /\ now \in -1..MaxClock /\ Len(told) \in 0..MaxCalls
        /\ 0 \in 0..(RETRY_COUNT + 1)
    BY <1>1, NotifierAssumption
  <2> QED BY <2>1 DEF Calls, Ops
<1>3. TypeOK'
  BY <1>1, <1>2, NotifierAssumption DEF TypeOK
<1>4. CallsAreCounted'
  BY <1>1 DEF CallsAreCounted
<1>5. /\ StatusIsRemembered' /\ StatusesTold' = StatusesTold
      /\ LatestStatus' = LatestStatus
  BY <1>1, ToldStands
<1>6. /\ StatusesTold # {} /\ told[LatestStatus].status = status
      /\ notifier.last_status_ms <= told[LatestStatus].at_ms
      /\ now - notifier.last_status_ms < DEDUP_MS
  BY <1>1 DEF StatusIsRemembered, duplicate
<1>7. StatusIsCurrent'
  BY <1>5, <1>6 DEF StatusIsCurrent
<1>8. SuppressionIsBrief'
  <2>1. told[LatestStatus].at_ms \in Int /\ notifier.last_status_ms \in Int
    <3>1. LatestStatus \in 1..Len(told)
      <4>1. PICK i \in StatusesTold : \A j \in StatusesTold : j <= i
        BY <1>1, <1>6 DEF StatusIsRemembered
      <4> QED BY <1>1, <4>1, LatestIsLast DEF StatusesTold
    <3>2. ASSUME NEW S, NEW s \in Seq(S), NEW i \in 1..Len(s)
          PROVE  s[i] \in S
      OBVIOUS
    <3>3. told[LatestStatus] \in [op : Ops, status : Statuses \cup {NoStatus},
                                  at_ms : 1..MaxClock]
      BY <1>1, <3>1, <3>2 DEF TypeOK
    <3> QED BY <1>1, <3>3 DEF TypeOK, Notifiers
  <2>2. now \in Int /\ DEDUP_MS \in Int
    BY NotifierAssumption
  <2>3. now < told[LatestStatus].at_ms + DEDUP_MS
    BY <1>6, <2>1, <2>2
  <2> QED BY <1>5, <2>3 DEF SuppressionIsBrief
<1>9. ToldOnce'
  BY <1>1 DEF ToldOnce
<1> QED
  BY <1>3, <1>4, <1>5, <1>7, <1>8, <1>9
  DEF NotifierInv, SocketInv, SocketMatches

\* Every step keeps the invariant.
LEMMA NotifierStep == NotifierInv /\ [Next]_vars => NotifierInv'
<1> SUFFICES ASSUME NotifierInv, [Next]_vars PROVE NotifierInv'
  OBVIOUS
<1>a. /\ TypeOK /\ StatusIsRemembered
      /\ clock \in 1..MaxClock /\ 0 \in -1..clock /\ clock \in -1..clock
      /\ NoTime \in -1..clock
      /\ {"READY", "STATUS", "WATCHDOG", "STOPPING"} = Ops
      /\ RETRY_COUNT \in Nat /\ RETRY_MS \in Nat /\ MaxClock \in Nat
  BY NotifierAssumption DEF NotifierInv, TypeOK, Ops, NoTime
<1>1. ASSUME UNCHANGED <<call, returned, wake_ms, clock, told, taken, calls>>,
             phase' \in Phases, descriptor' \in {"open", "closed"},
             notifier'.last_status = notifier.last_status,
             notifier'.last_status_ms = notifier.last_status_ms,
             notifier' \in Notifiers, SocketInv'
      PROVE  NotifierInv'
  <2>1. /\ StatusIsRemembered' /\ StatusesTold' = StatusesTold
        /\ LatestStatus' = LatestStatus
    BY <1>1, <1>a, ToldStands
  <2>2. TypeOK'
    BY <1>1, <1>a DEF TypeOK
  <2> QED
    BY <1>1, <2>1, <2>2
    DEF NotifierInv, CallsAreCounted, StatusIsCurrent, SuppressionIsBrief,
        ToldOnce, attempt_left
<1>2. CASE Lifecycle
  <2>a. /\ notifier \in Notifiers /\ descriptor \in {"open", "closed"}
        /\ SocketInv
    BY <1>a DEF NotifierInv, TypeOK
  <2> USE DEF SocketInv, SocketMatches, Notifiers, Phases, Sockfd
  <2>1. CASE NoSocket
    BY <1>1, <2>a, <2>1 DEF NoSocket, socket
  <2>2. CASE SocketOpened
    <3>1. /\ phase = "new" /\ phase' = "connecting" /\ descriptor' = "open"
          /\ notifier' = [notifier EXCEPT !.sockfd = 3]
      BY <2>2 DEF SocketOpened
    <3>2. ~notifier.enabled
      BY <2>a, <3>1
    <3> QED BY <1>1, <2>a, <2>2, <3>1, <3>2 DEF SocketOpened
  <2>3. CASE Connected
    <3>1. PICK usec \in WatchdogSettings :
              notifier' = [notifier EXCEPT !.enabled = TRUE,
                                           !.watchdog_usec = usec]
      BY <2>3 DEF Connected
    <3> QED BY <1>1, <2>a, <2>3, <3>1 DEF Connected
  <2>4. CASE NotConnected
    BY <1>1, <2>a, <2>4 DEF NotConnected
  <2>5. CASE systemd_notifier_destroy
    <3>1. /\ phase # "connecting" /\ phase' = "destroyed"
          /\ descriptor' = IF notifier.sockfd >= 0 THEN "closed" ELSE descriptor
          /\ notifier' = [notifier EXCEPT !.enabled = FALSE, !.sockfd = -1]
      BY <2>5 DEF systemd_notifier_destroy
    <3>2. descriptor' = "closed"
      BY <2>a, <3>1
    <3>3. notifier' \in Notifiers /\ notifier'.last_status = notifier.last_status
          /\ notifier'.last_status_ms = notifier.last_status_ms
          /\ ~notifier'.enabled /\ notifier'.sockfd = -1
      BY <2>a, <3>1
    <3>4. SocketInv'
      BY <3>1, <3>2, <3>3
    <3> QED BY <1>1, <2>5, <3>1, <3>2, <3>3, <3>4 DEF systemd_notifier_destroy
  <2> QED BY <1>2, <2>1, <2>2, <2>3, <2>4, <2>5 DEF Lifecycle
<1>3. CASE systemd_notifier_ready
  <2>1. CASE Free
    <3>1. NoStatus \in Statuses \cup {NoStatus}
      OBVIOUS
    <3>2. phase # "connecting" /\ phase' \in Phases \ {"new", "connecting"}
      BY <1>3 DEF systemd_notifier_ready, Phases
    <3> QED BY <1>3, <1>a, <2>1, <3>1, <3>2, BeginKeeps
            DEF systemd_notifier_ready
  <2>2. CASE ~Free
    BY <1>1, <1>3, <1>a, <2>2
    DEF systemd_notifier_ready, NotifierInv, TypeOK, SocketInv, SocketMatches,
        Phases, socket
  <2> QED BY <2>1, <2>2
<1>4. CASE systemd_notifier_status
  <2>1. /\ Free /\ calls' = calls + 1 /\ phase' = phase
        /\ phase # "connecting" /\ phase' \in Phases \ {"new", "connecting"}
    BY <1>4, <1>a DEF systemd_notifier_status, Phases
  <2>2. PICK status \in Statuses, now \in {clock, NoTime} :
            IF duplicate(status, now)
            THEN /\ returned' = [op |-> "STATUS", status |-> status,
                                 now_ms |-> now, attempt |-> 0,
                                 sending |-> FALSE, before |-> Len(told),
                                 ok |-> TRUE]
                 /\ UNCHANGED <<notifier, descriptor, call, wake_ms, clock, told, taken>>
            ELSE Begin("STATUS", status, now)
    BY <1>4 DEF systemd_notifier_status, socket
  <2>3. now \in -1..clock /\ status \in Statuses \cup {NoStatus}
    BY <1>a
  <2>4. CASE duplicate(status, now)
    BY <2>1, <2>2, <2>3, <2>4, SuppressedKeeps
  <2>5. CASE ~duplicate(status, now)
    BY <1>a, <2>1, <2>2, <2>3, <2>5, BeginKeeps
  <2> QED BY <2>4, <2>5
<1>5. CASE systemd_notifier_watchdog \/ systemd_notifier_stopping
  <2>1. NoStatus \in Statuses \cup {NoStatus}
    OBVIOUS
  <2>2. CASE systemd_notifier_watchdog
    BY <2>1, <2>2, <1>a, BeginKeeps DEF systemd_notifier_watchdog, Phases
  <2>3. CASE systemd_notifier_stopping
    BY <2>1, <2>3, <1>a, BeginKeeps DEF systemd_notifier_stopping, Phases
  <2> QED BY <1>5, <2>2, <2>3
<1>b. call.sending => call # NoCall
  BY DEF NoCall
<1>6. CASE Sent
  BY <1>6, <1>b, SentKeeps DEF Sent
<1>7. CASE NextAttempt \/ Interrupted
  <2>1. wake_ms \in Nat
    BY <1>a DEF TypeOK
  <2> QED BY <1>7, <1>b, <2>1, LoopKeeps DEF NextAttempt, AtTest, Interrupted
<1>8. CASE BackedOff
  <2>1. wake_ms' \in Nat
    BY <1>8, <1>a DEF BackedOff
  <2> QED BY <1>8, <1>b, <2>1, LoopKeeps DEF BackedOff
<1>9. CASE Refused
  BY <1>9, <1>b, FailureKeeps DEF Refused
<1>10. CASE GivenUp
  BY <1>10, FailureKeeps DEF GivenUp, AtTest
<1>11. ASSUME UNCHANGED <<phase, socket, call, returned, wake_ms, told,
                          calls>>,
              clock' \in 1..MaxClock, clock' >= clock,
              taken' \in 0..Len(told)
       PROVE  NotifierInv'
  <2>1. /\ StatusIsRemembered' /\ StatusesTold' = StatusesTold
        /\ LatestStatus' = LatestStatus
    BY <1>11, <1>a, ToldStands DEF socket
  <2>2. TypeOK'
    BY <1>11, <1>a DEF TypeOK, socket
  <2>3. CallsAreCounted'
    <3>1. call.now_ms \in Int /\ clock' \in Int /\ clock \in Int
      BY <1>11, <1>a DEF TypeOK, Calls
    <3> QED BY <1>11, <3>1 DEF NotifierInv, CallsAreCounted, attempt_left
  <2> QED
    BY <1>11, <2>1, <2>2, <2>3
    DEF NotifierInv, StatusIsCurrent, SuppressionIsBrief, ToldOnce, SocketInv,
        SocketMatches, socket
<1>12. CASE SystemdReads
  <2>1. taken + 1 \in 0..Len(told)
    BY <1>12, <1>a DEF SystemdReads, TypeOK
  <2> QED BY <1>11, <1>12, <1>a, <2>1 DEF SystemdReads
<1>13. CASE TimePasses
  <2>1. taken \in 0..Len(told)
    BY <1>a DEF TypeOK
  <2> QED BY <1>11, <1>13, <1>a, <2>1 DEF TimePasses
<1>14. CASE UNCHANGED vars
  <2>1. taken \in 0..Len(told)
    BY <1>a DEF TypeOK
  <2> QED BY <1>11, <1>14, <1>a, <2>1 DEF vars
<1> QED
  BY <1>2, <1>3, <1>4, <1>5, <1>6, <1>7, <1>8, <1>9, <1>10, <1>12, <1>13, <1>14
  DEF Next, Notify, LoopTest, SendReturns

\* The invariant holds of every reachable state.
LEMMA NotifierInvariant == Spec => []NotifierInv
  BY NotifierInit, NotifierStep, PTL DEF Spec

-----------------------------------------------------------------------------
(* What follows from it.                                                   *)

\* Every reachable state is well typed, and no notification is attempted more
\* than RETRY_COUNT times, whatever fails.
THEOREM NotifierTypes == Spec => []TypeOK
<1>1. NotifierInv => TypeOK
  BY DEF NotifierInv
<1> QED BY <1>1, NotifierInvariant, PTL

\* A status call that reports success leaves systemd with its text, however
\* often its datagram was retried and whether it was suppressed or not.
THEOREM CurrentStatus == Spec => []StatusIsCurrent
<1>1. NotifierInv => StatusIsCurrent
  BY DEF NotifierInv
<1> QED BY <1>1, NotifierInvariant, PTL

\* A text is suppressed only within the window after systemd was told it, also
\* when the clock could not be read or the last text was not delivered.
THEOREM BriefSuppression == Spec => []SuppressionIsBrief
<1>1. NotifierInv => SuppressionIsBrief
  BY DEF NotifierInv
<1> QED BY <1>1, NotifierInvariant, PTL

\* No notification is delivered twice, and its result says whether it was.
THEOREM DeliveredOnce == Spec => []ToldOnce
<1>1. NotifierInv => ToldOnce
  BY DEF NotifierInv
<1> QED BY <1>1, NotifierInvariant, PTL

\* No path through construction and destruction leaves a socket behind, loses its
\* number, or enables a notifier without one.
THEOREM SocketIsOwned == Spec => []SocketMatches
<1>1. NotifierInv => SocketMatches
  BY DEF NotifierInv, SocketInv
<1> QED BY <1>1, NotifierInvariant, PTL

\* For every WATCHDOG_USEC the keep-alives come at least twice per watchdog
\* time, down to the resolution of a millisecond, and are never switched off.
THEOREM KeepaliveHalves == Spec => []KeepaliveInTime
<1> DEFINE usec == notifier.watchdog_usec
<1>1. ASSUME NEW n \in Nat
      PROVE  n \div 2000 \in Nat /\ 2000 * (n \div 2000) <= n
  OBVIOUS
<1>2. NotifierInv => usec \in Nat
  <2>1. NotifierInv => usec \in WatchdogSettings \cup {0}
    BY DEF NotifierInv, TypeOK, Notifiers
  <2>2. WatchdogSettings \cup {0} \subseteq Nat
    BY NotifierAssumption
  <2> HIDE DEF usec
  <2> QED BY <2>1, <2>2
<1>3. NotifierInv => half_interval_ms \in Nat /\ 2000 * half_interval_ms <= usec
  <2>1. half_interval_ms = usec \div 2000
    BY DEF half_interval_ms
  <2> HIDE DEF usec
  <2> QED BY <1>1, <1>2, <2>1
<1>4. NotifierInv /\ notifier.enabled /\ usec > 0 =>
          systemd_notifier_watchdog_interval_ms =
              IF half_interval_ms = 0 THEN 1 ELSE half_interval_ms
  <2>1. NotifierInv /\ usec > 0 => usec # 0
    BY <1>2
  <2> QED BY <2>1 DEF systemd_notifier_watchdog_interval_ms
<1>5. NotifierInv => KeepaliveInTime
  BY <1>3, <1>4 DEF KeepaliveInTime
<1> QED BY <1>5, NotifierInvariant, PTL

=============================================================================
