--------------------------- MODULE ShutdownProofs ---------------------------
(* Proofs about the shutdown command for every grace period, polling       *)
(* interval, number of retries and set of failing calls.                   *)
EXTENDS Shutdown, TLAPS

\* The states and the codes of the commands spawned.
LEMMA ChildFacts ==
    ASSUME TypeOK
    PROVE  /\ Len(children) \in Nat
           /\ \A i \in 1..Len(children) :
                  /\ children[i] \in Children
                  /\ children[i].state \in {"running", "zombie", "reaped"}
                  /\ children[i].code \in {"none", "ok", "bad"}
                  /\ children[i].ended_ms \in 0..MaxClock
           /\ children # <<>> =>
                  Len(children) >= 1 /\ Len(children) \in 1..Len(children)
<1>1. children \in Seq(Children) /\ Len(children) \in Nat
  BY DEF TypeOK
<1>2. \A i \in 1..Len(children) : children[i] \in Children
  BY <1>1
<1>3. children # <<>> => Len(children) # 0
  BY <1>1
<1>4. children # <<>> =>
          Len(children) >= 1 /\ Len(children) \in 1..Len(children)
  BY <1>1, <1>3
<1> QED BY <1>1, <1>2, <1>4 DEF Children

\* The children after the step of one of them.
LEMMA ChildReaped ==
    ASSUME TypeOK, NEW i \in 1..Len(children),
           NEW c \in Children, children' = [children EXCEPT ![i] = c]
    PROVE  /\ children' \in Seq(Children)
           /\ Len(children') = Len(children)
           /\ children'[i] = c
           /\ \A j \in 1..Len(children) : j # i => children'[j] = children[j]
           /\ children' # <<>>
  BY DEF TypeOK

\* Every step keeps the types.
LEMMA TypeStep == TypeOK /\ [Next]_vars => TypeOK'
<1> SUFFICES ASSUME TypeOK, [Next]_vars PROVE TypeOK'
  OBVIOUS
<1> USE CommandAssumption
<1>1. ASSUME NEW r \in {"NO_ACTION", "TRIGGERED", "FAILED"}, Return(r),
             UNCHANGED children
      PROVE  TypeOK'
  BY <1>1 DEF Return, TypeOK
<1>2. ASSUME shutdown_consume_child_status, Observing PROVE TypeOK'
  <2> DEFINE n == Len(children)
  <2>1. n \in 1..n /\ children[n] \in Children
    BY <1>2, ChildFacts DEF TypeOK, Observing
  <2>2. [children[n] EXCEPT !.state = "reaped"] \in Children
    BY <2>1 DEF Children
  <2>3. children' = [children EXCEPT ![n] =
                         [children[n] EXCEPT !.state = "reaped"]]
    BY <1>2 DEF shutdown_consume_child_status
  <2>4. children' \in Seq(Children) /\ children' # <<>>
    BY <2>1, <2>2, <2>3, ChildReaped
  <2> QED BY <1>2, <2>4 DEF shutdown_consume_child_status, Return, TypeOK
<1>3. CASE Call
  BY <1>3 DEF Call, TypeOK
<1>4. CASE NoCommand \/ SpawnFailed
  BY <1>1, <1>4 DEF NoCommand, SpawnFailed
<1>5. CASE Spawn
  <2>1. [state |-> "running", ended_ms |-> 0, code |-> "none"] \in Children
    BY DEF Children
  <2>2. children' \in Seq(Children) /\ children' # <<>>
    BY <1>5, <2>1 DEF Spawn, TypeOK
  <2> QED BY <1>5, <2>2 DEF Spawn, TypeOK
<1>6. CASE StartObserving
  BY <1>6 DEF StartObserving, TypeOK
<1>7. CASE StartWithoutClock
  BY <1>1, <1>2, <1>7
  DEF StartWithoutClock, ChildGone, shutdown_assume_started, Observing
<1>8. CASE WaitAnswered
  <2>1. CASE ChildGone
    BY <1>1, <2>1 DEF ChildGone
  <2>2. CASE child.state = "running" /\ pc' = "check"
    BY <1>8, <2>2 DEF WaitAnswered, TypeOK, shutdown_consume_child_status,
                      ChildGone, Return
  <2> QED BY <1>2, <1>8, <2>1, <2>2 DEF WaitAnswered, Observing
<1>9. CASE CheckDeadline
  <2>1. CASE grace_elapsed
    BY <1>1, <1>9, <2>1 DEF CheckDeadline
  <2>2. CASE ~grace_elapsed
    BY <1>9, <2>2 DEF CheckDeadline, TypeOK, retry_ms
  <2> QED BY <2>1, <2>2
<1>10. CASE CheckWithoutClock \/ SleepFailed
  BY <1>1, <1>10 DEF CheckWithoutClock, SleepFailed, shutdown_assume_started
<1>11. CASE SleepOver
  BY <1>11 DEF SleepOver, TypeOK
<1>12. CASE TimePasses
  BY <1>12 DEF TimePasses, TypeOK
<1>13. CASE CommandEnds
  <2>1. PICK i \in 1..Len(children), code \in {"ok", "bad"} :
            /\ children' = [children EXCEPT ![i] =
                   [state |-> IF "sigchld" \in faults THEN "reaped"
                              ELSE "zombie",
                    ended_ms |-> clock, code |-> code]]
            /\ UNCHANGED <<mode, faults, pc, result, deadline_ms, wake_ms,
                           clock, lag, calls, called_ms, spawned_ms>>
    BY <1>13 DEF CommandEnds
  <2>2. [state |-> IF "sigchld" \in faults THEN "reaped" ELSE "zombie",
         ended_ms |-> clock, code |-> code] \in Children
    BY DEF Children, TypeOK
  <2>3. children' \in Seq(Children) /\ children' # <<>>
    BY <2>1, <2>2, ChildReaped
  <2> QED BY <2>1, <2>3 DEF TypeOK
<1>14. CASE UNCHANGED vars
  BY <1>14 DEF vars, TypeOK
<1> QED
  BY <1>3, <1>4, <1>5, <1>6, <1>7, <1>8, <1>9, <1>10, <1>11, <1>12, <1>13,
     <1>14
  DEF Next, Progress, Failure

\* The first call finds no command.
LEMMA CommandInit == Init => CommandInv
<1> SUFFICES ASSUME Init PROVE CommandInv
  OBVIOUS
<1> USE CommandAssumption DEF Init
<1>1. children \in Seq(Children)
  OBVIOUS
<1>2. TypeOK
  BY <1>1 DEF TypeOK
<1>3. EarlierAreOver
  BY DEF EarlierAreOver, Earlier, Observing
<1> QED
  BY <1>2, <1>3 DEF CommandInv, ReportedOnce, Observing, ObservationIsTimed,
                    FailureIsRecent, EarlyFailureSeen

\* The shutdown command's state is well typed, and no command is looked at
\* before one was spawned.
THEOREM CommandTypes == Spec => []TypeOK
<1>1. Init => TypeOK
  BY CommandInit DEF CommandInv
<1> QED BY <1>1, TypeStep, PTL DEF Spec

\* A step that leaves the commands alone keeps the earlier ones over, if the
\* current one is over whenever the caller becomes free to retry.
LEMMA CommandsKept ==
    ASSUME TypeOK, EarlierAreOver, UNCHANGED <<children, faults>>,
           Retryable' => \/ Retryable
                         \/ /\ child.state # "running"
                            /\ "sigchld" \notin faults =>
                                   child.code = "bad",
           Observing' => Observing
    PROVE  EarlierAreOver'
<1> USE ChildFacts
<1>1. ASSUME NEW i \in 1..Len(children), i < Len(children) \/ Retryable'
      PROVE  /\ children[i].state # "running"
             /\ "sigchld" \notin faults => children[i].code = "bad"
  <2>1. CASE i < Len(children) \/ Retryable
    BY <2>1 DEF EarlierAreOver, Earlier
  <2>2. CASE i = Len(children) /\ ~Retryable
    BY <1>1, <2>2 DEF child
  <2> QED BY <2>1, <2>2
<1>2. child' = child
  BY DEF child
<1> QED BY <1>1, <1>2 DEF EarlierAreOver, Earlier

\* The call returns without touching the commands.
LEMMA ReturnKeeps ==
    ASSUME CommandInv, NEW r \in {"NO_ACTION", "TRIGGERED", "FAILED"},
           Return(r), UNCHANGED children,
           pc \in {"trigger", "start", "wait", "check", "sleep"},
           r = "TRIGGERED" => Observing,
           r # "TRIGGERED" =>
               \/ Retryable
               \/ /\ child.state # "running"
                  /\ "sigchld" \notin faults => child.code = "bad",
           r = "TRIGGERED" =>
               \/ faults \cap {"clock", "sleep"} # {}
               \/ pc = "check" /\ grace_elapsed,
           TypeOK'
    PROVE  CommandInv'
<1> USE CommandAssumption, ChildFacts DEF CommandInv
<1>1. child' = child /\ pc' = "returned" /\ result' = r /\ faults' = faults
  BY DEF child, Return
<1>2. EarlierAreOver'
  BY <1>1, CommandsKept DEF Retryable, Observing
<1>3. ReportedOnce'
  BY <1>1 DEF ReportedOnce, Return, Observing, TypeOK
<1>4. ObservationIsTimed'
  BY <1>1 DEF ObservationIsTimed, Return
<1>5. FailureIsRecent' /\ EarlyFailureSeen'
  <2> SUFFICES ASSUME r = "TRIGGERED",
                      faults \cap {"clock", "sleep"} = {}
               PROVE  /\ clock >= spawned_ms + GRACE_MS
                      /\ child.code = "bad" =>
                             child.ended_ms + MaxLag >= spawned_ms + GRACE_MS
    BY <1>1 DEF FailureIsRecent, EarlyFailureSeen, Return
  <2>1. pc = "check" /\ clock >= deadline_ms
    BY DEF grace_elapsed
  <2>2. spawned_ms + GRACE_MS <= deadline_ms /\ children # <<>>
    BY <2>1 DEF ObservationIsTimed, TypeOK
  <2>3. /\ clock \in Nat /\ spawned_ms \in Nat /\ lag \in 0..MaxLag
        /\ deadline_ms \in Nat /\ child.ended_ms \in Nat
    BY <2>2 DEF TypeOK, child
  <2>4. child.code = "bad" => clock <= child.ended_ms + lag
    BY <2>1 DEF FailureIsRecent
  <2> QED BY <2>1, <2>2, <2>3, <2>4
<1> QED BY <1>2, <1>3, <1>4, <1>5

\* waitpid() reaps the command under observation.
LEMMA ReapKeeps ==
    ASSUME CommandInv, shutdown_consume_child_status, Observing, TypeOK'
    PROVE  CommandInv'
<1> USE CommandAssumption, ChildFacts DEF CommandInv
<1> DEFINE n == Len(children)
<1>1. n \in 1..n /\ children[n] \in Children /\ children # <<>>
  BY DEF TypeOK, Observing
<1>2. /\ [children[n] EXCEPT !.state = "reaped"] \in Children
      /\ [children[n] EXCEPT !.state = "reaped"].code = children[n].code
      /\ [children[n] EXCEPT !.state = "reaped"].state = "reaped"
  BY <1>1 DEF Children
<1>3. children' = [children EXCEPT ![n] =
                       [children[n] EXCEPT !.state = "reaped"]]
  BY DEF shutdown_consume_child_status
<1>4. /\ Len(children') = n /\ children' # <<>>
      /\ children'[n] = [children[n] EXCEPT !.state = "reaped"]
      /\ \A j \in 1..n : j # n => children'[j] = children[j]
  BY <1>1, <1>2, <1>3, ChildReaped
<1>5. child'.code = child.code /\ child'.state = "reaped"
  BY <1>2, <1>4 DEF child
<1>6. /\ pc' = "returned"
      /\ result' = IF child.code = "ok" THEN "TRIGGERED" ELSE "FAILED"
      /\ UNCHANGED <<mode, faults, deadline_ms, wake_ms, clock, lag, calls,
                     called_ms, spawned_ms>>
  BY DEF shutdown_consume_child_status, Return
<1>7. child.code \in {"ok", "bad"}
  BY <1>1 DEF shutdown_consume_child_status, EarlierAreOver, child
<1>8. EarlierAreOver'
  <2>1. ASSUME NEW i \in 1..n, i < n \/ Retryable'
        PROVE  /\ children'[i].state # "running"
               /\ "sigchld" \notin faults => children'[i].code = "bad"
    <3>1. CASE i < n
      BY <3>1, <1>4 DEF EarlierAreOver, Earlier
    <3>2. CASE i = n
      BY <2>1, <3>2, <1>5, <1>6, <1>7, <1>4 DEF Retryable, child
    <3> QED BY <3>1, <3>2
  <2>2. \A i \in 1..n : children'[i].state = "running"
                            <=> children'[i].code = "none"
    BY <1>1, <1>2, <1>4, <1>7 DEF EarlierAreOver, child
  <2>3. ~Observing'
    BY <1>6 DEF Observing
  <2> QED BY <2>1, <2>2, <2>3, <1>4, <1>6 DEF EarlierAreOver, Earlier
<1>9. ReportedOnce' /\ ObservationIsTimed'
  BY <1>4, <1>6 DEF ReportedOnce, ObservationIsTimed, Observing
<1>10. FailureIsRecent' /\ EarlyFailureSeen'
  BY <1>5, <1>6, <1>7 DEF FailureIsRecent, EarlyFailureSeen
<1> QED BY <1>8, <1>9, <1>10

\* A command ends, under observation or after the call has returned.
LEMMA EndKeeps ==
    ASSUME CommandInv, CommandEnds, TypeOK' PROVE CommandInv'
<1> USE CommandAssumption, ChildFacts DEF CommandInv
<1> DEFINE n == Len(children)
           ended(c) == [state |-> IF "sigchld" \in faults
                                  THEN "reaped" ELSE "zombie",
                        ended_ms |-> clock, code |-> c]
<1>1. PICK i \in 1..n, code \in {"ok", "bad"} :
          /\ children[i].state = "running"
          /\ children' = [children EXCEPT ![i] = ended(code)]
          /\ UNCHANGED <<mode, faults, pc, result, deadline_ms, wake_ms, clock,
                         lag, calls, called_ms, spawned_ms>>
  BY DEF CommandEnds
<1>2. ended(code) \in Children
  BY DEF Children, TypeOK
<1>3. /\ Len(children') = n /\ children' # <<>>
      /\ children'[i] = ended(code)
      /\ \A j \in 1..n : j # i => children'[j] = children[j]
  BY <1>1, <1>2, ChildReaped
<1>4. i = n /\ ~Retryable
  BY <1>1 DEF EarlierAreOver, Earlier
<1>5. child' = ended(code) /\ child.state = "running" /\ child.code = "none"
  BY <1>1, <1>3, <1>4 DEF child, EarlierAreOver
<1>6. (Retryable <=> Retryable') /\ (Observing <=> Observing')
  BY <1>1 DEF Retryable, Observing
<1>7. EarlierAreOver'
  <2>1. \A j \in 1..n : j < n =>
            /\ children'[j].state # "running"
            /\ "sigchld" \notin faults => children'[j].code = "bad"
    BY <1>3, <1>4 DEF EarlierAreOver, Earlier
  <2>2. \A j \in 1..n : children'[j].state = "running"
                            <=> children'[j].code = "none"
    BY <1>3 DEF EarlierAreOver
  <2>3. "sigchld" \notin faults => child'.state # "reaped"
    BY <1>5
  <2> QED BY <2>1, <2>2, <2>3, <1>1, <1>3, <1>4, <1>6
          DEF EarlierAreOver, Earlier
<1>8. ReportedOnce' /\ ObservationIsTimed'
  BY <1>1, <1>3, <1>6 DEF ReportedOnce, ObservationIsTimed
<1>9. FailureIsRecent' /\ EarlyFailureSeen'
  <2>1. clock \in Nat /\ lag \in Nat /\ spawned_ms \in Nat
    BY DEF TypeOK
  <2>2. child'.ended_ms = clock /\ child'.code # "none"
    BY <1>5
  <2>3. /\ pc = "returned" /\ result = "TRIGGERED"
        /\ faults \cap {"clock", "sleep"} = {}
        => clock >= spawned_ms + GRACE_MS
    BY <1>5 DEF FailureIsRecent
  <2> QED BY <1>1, <2>1, <2>2, <2>3 DEF FailureIsRecent, EarlyFailureSeen
<1> QED BY <1>7, <1>8, <1>9

\* Time passes, at the expense of the lag outside the sleep.
LEMMA TimeKeeps ==
    ASSUME CommandInv, TimePasses, TypeOK' PROVE CommandInv'
<1> USE CommandAssumption, ChildFacts DEF CommandInv
<1>1. /\ clock' = clock + 1 /\ clock \in Nat /\ lag \in Nat /\ lag' \in Nat
      /\ called_ms \in Nat /\ spawned_ms \in Nat /\ deadline_ms \in Nat
      /\ wake_ms \in Nat
      /\ UNCHANGED <<mode, faults, pc, result, deadline_ms, wake_ms, children,
                     called_ms, spawned_ms>>
  BY DEF TimePasses, TypeOK
<1>2. \/ pc \in {"idle", "returned"} /\ lag' = lag
      \/ pc = "sleep" /\ clock < wake_ms /\ lag' = lag
      \/ pc \notin {"idle", "returned"} /\ lag' = lag + 1
  BY DEF TimePasses
<1>3. child' = child
  BY <1>1 DEF child
<1>4. EarlierAreOver'
  BY <1>1, CommandsKept DEF Retryable, Observing
<1>5. ReportedOnce'
  BY <1>1 DEF ReportedOnce, Observing
<1>6. ObservationIsTimed'
  <2>1. GRACE_MS \in Nat /\ POLL_MS \in Nat
    OBVIOUS
  <2>2. ObservationIsTimed
    OBVIOUS
  <2> HIDE ChildFacts, CommandAssumption DEF CommandInv
  <2>3. called_ms' <= clock' /\ spawned_ms' <= clock'
    BY <1>1, <2>2 DEF ObservationIsTimed
  <2>a. /\ pc \notin {"idle", "returned", "sleep"} => lag' = lag + 1
        /\ pc = "sleep" => lag' = lag + 1 \/ (clock < wake_ms /\ lag' = lag)
    BY <1>2
  <2>4. ASSUME pc \in {"trigger", "start"} PROVE clock' <= called_ms + lag'
    <3>1. clock <= called_ms + lag /\ lag' = lag + 1
      BY <2>2, <2>4, <2>a DEF ObservationIsTimed
    <3> QED BY <1>1, <3>1
  <2>5. ASSUME pc = "sleep" PROVE clock' <= wake_ms + lag'
    <3>1. clock <= wake_ms + lag
      BY <2>2, <2>5 DEF ObservationIsTimed
    <3>2. CASE lag' = lag + 1
      BY <1>1, <3>1, <3>2
    <3>3. CASE clock < wake_ms /\ lag' = lag
      <4>1. clock + 1 <= wake_ms
        BY <1>1, <3>3
      <4> QED BY <1>1, <3>3, <4>1
    <3> QED BY <2>5, <2>a, <3>2, <3>3
  <2>6. ASSUME pc \in {"wait", "check"}
        PROVE  clock' <= deadline_ms + POLL_MS + lag'
    <3>1. clock <= deadline_ms + POLL_MS + lag /\ lag' = lag + 1
      BY <2>2, <2>6, <2>a DEF ObservationIsTimed
    <3> QED BY <1>1, <2>1, <3>1
  <2>7. ASSUME pc = "sleep" PROVE clock' <= deadline_ms + POLL_MS + lag'
    <3>1. wake_ms <= deadline_ms + POLL_MS
      BY <2>2, <2>7 DEF ObservationIsTimed
    <3>2. clock' <= wake_ms + lag'
      BY <2>5, <2>7
    <3>3. /\ clock' \in Nat /\ lag' \in Nat
          /\ wake_ms \in Nat /\ deadline_ms \in Nat
      BY <1>1
    <3>4. \A a, b, c, d, e \in Nat :
              a <= b + e /\ b <= c + d => a <= c + d + e
      OBVIOUS
    <3> QED BY <2>1, <3>1, <3>2, <3>3, <3>4
  <2> QED BY <1>1, <2>2, <2>3, <2>4, <2>5, <2>6, <2>7 DEF ObservationIsTimed
<1>7. FailureIsRecent' /\ EarlyFailureSeen'
  <2>1. pc = "check" => child.ended_ms \in Nat
    BY DEF TypeOK, child
  <2> QED BY <1>1, <1>2, <1>3, <2>1 DEF FailureIsRecent, EarlyFailureSeen
<1> QED BY <1>4, <1>5, <1>6, <1>7

\* Every step of the call, of the command and of the clock keeps the invariant.
LEMMA CommandStep == CommandInv /\ [Next]_vars => CommandInv'
<1> SUFFICES ASSUME CommandInv, [Next]_vars PROVE CommandInv'
  OBVIOUS
<1> USE CommandAssumption, ChildFacts
<1>a. TypeOK /\ TypeOK'
  BY TypeStep DEF CommandInv
<1>b. /\ clock \in Nat /\ lag \in 0..MaxLag /\ lag \in Nat /\ called_ms \in Nat
      /\ spawned_ms \in Nat /\ deadline_ms \in Nat /\ wake_ms \in Nat
  BY <1>a DEF TypeOK
<1>1. CASE Call
  <2>1. EarlierAreOver'
    BY <1>1, <1>a, CommandsKept DEF Call, Retryable, Observing, CommandInv
  <2> QED BY <1>1, <1>a, <1>b, <2>1
          DEF Call, CommandInv, ReportedOnce, Observing, ObservationIsTimed,
              FailureIsRecent, EarlyFailureSeen
<1>2. CASE NoCommand \/ SpawnFailed
  BY <1>2, <1>a, ReturnKeeps DEF NoCommand, SpawnFailed, Retryable
<1>3. CASE Spawn
  <2> DEFINE n == Len(children)
  <2>1. /\ Len(children') = n + 1 /\ children' # <<>>
        /\ children'[n + 1] = [state |-> "running", ended_ms |-> 0,
                               code |-> "none"]
        /\ \A j \in 1..n : children'[j] = children[j]
    BY <1>3, <1>a DEF Spawn, TypeOK
  <2>2. EarlierAreOver'
    <3>1. \A j \in 1..(n + 1) : j < n + 1 => j \in Earlier
      BY <1>3, <1>a DEF Spawn, Earlier, Retryable
    <3>2. \A j \in 1..(n + 1) : j \in 1..n \/ j = n + 1
      BY <1>a
    <3>3. ~Retryable' /\ child'.state = "running" /\ faults' = faults
      BY <1>3, <2>1 DEF Spawn, Retryable, child
    <3> QED BY <2>1, <3>1, <3>2, <3>3
            DEF EarlierAreOver, CommandInv, Earlier
  <2> QED BY <1>3, <1>a, <1>b, <2>1, <2>2
          DEF Spawn, CommandInv, ReportedOnce, Observing, ObservationIsTimed,
              FailureIsRecent, EarlyFailureSeen
<1>4. CASE StartObserving
  <2>1. EarlierAreOver'
    BY <1>4, <1>a, CommandsKept
    DEF StartObserving, Retryable, Observing, CommandInv
  <2> QED BY <1>4, <1>a, <1>b, <2>1
          DEF StartObserving, CommandInv, ReportedOnce, Observing,
              ObservationIsTimed, FailureIsRecent, EarlyFailureSeen
<1>5. ASSUME ChildGone, Observing PROVE CommandInv'
  <2>1. child.state = "reaped" /\ "sigchld" \in faults
    BY <1>5 DEF ChildGone, CommandInv, EarlierAreOver
  <2> QED BY <1>5, <1>a, <2>1, ReturnKeeps DEF ChildGone, Observing
<1>6. CASE StartWithoutClock
  BY <1>5, <1>6, <1>a, ReapKeeps, ReturnKeeps
  DEF StartWithoutClock, Observing, shutdown_assume_started
<1>7. CASE WaitAnswered
  <2>1. CASE child.state = "running" /\ pc' = "check"
    <3>1. UNCHANGED <<mode, faults, result, deadline_ms, wake_ms, children,
                      clock, lag, calls, called_ms, spawned_ms>>
      BY <1>7, <2>1 DEF WaitAnswered, shutdown_consume_child_status, ChildGone
    <3>2. pc = "wait" /\ child' = child /\ children # <<>>
      BY <1>7, <1>a, <3>1 DEF WaitAnswered, child, TypeOK
    <3>3. EarlierAreOver'
      BY <2>1, <1>a, <3>1, <3>2, CommandsKept
      DEF Retryable, Observing, CommandInv
    <3>4. child.code = "none"
      BY <2>1, <3>2, <1>a DEF CommandInv, EarlierAreOver, child
    <3> QED BY <2>1, <3>1, <3>2, <3>3, <3>4, <1>a, <1>b
            DEF CommandInv, ReportedOnce, Observing, ObservationIsTimed,
                FailureIsRecent, EarlyFailureSeen
  <2> QED BY <1>5, <1>7, <1>a, <2>1, ReapKeeps DEF WaitAnswered, Observing
<1>8. CASE CheckDeadline
  <2>1. CASE grace_elapsed
    BY <1>8, <1>a, <2>1, ReturnKeeps DEF CheckDeadline, Observing
  <2>2. CASE ~grace_elapsed
    <3>1. /\ pc = "check" /\ pc' = "sleep" /\ lag' = 0
          /\ clock < deadline_ms /\ wake_ms' = clock + POLL_MS
          /\ UNCHANGED <<mode, faults, result, deadline_ms, children, clock,
                         calls, called_ms, spawned_ms>>
      BY <1>8, <1>b, <2>2 DEF CheckDeadline, grace_elapsed, retry_ms
    <3>2. EarlierAreOver'
      BY <1>a, <3>1, CommandsKept DEF Retryable, Observing, CommandInv
    <3> QED BY <3>1, <3>2, <1>a, <1>b
            DEF CommandInv, ReportedOnce, Observing, ObservationIsTimed,
                FailureIsRecent, EarlyFailureSeen
  <2> QED BY <2>1, <2>2
<1>9. CASE CheckWithoutClock \/ SleepFailed
  BY <1>9, <1>a, ReturnKeeps
  DEF CheckWithoutClock, SleepFailed, shutdown_assume_started, Observing
<1>10. CASE SleepOver
  <2>1. EarlierAreOver'
    BY <1>10, <1>a, CommandsKept DEF SleepOver, Retryable, Observing, CommandInv
  <2> QED BY <1>10, <1>a, <1>b, <2>1
          DEF SleepOver, CommandInv, ReportedOnce, Observing,
              ObservationIsTimed, FailureIsRecent, EarlyFailureSeen
<1>11. CASE TimePasses
  BY <1>11, <1>a, TimeKeeps
<1>12. CASE CommandEnds
  BY <1>12, <1>a, EndKeeps
<1>13. CASE UNCHANGED vars
  <2>1. EarlierAreOver'
    BY <1>13, <1>a, CommandsKept DEF vars, Retryable, Observing, CommandInv
  <2> QED BY <1>13, <1>a, <2>1
          DEF vars, CommandInv, ReportedOnce, Observing, ObservationIsTimed,
              FailureIsRecent, EarlyFailureSeen, child
<1> QED
  BY <1>1, <1>2, <1>3, <1>4, <1>6, <1>7, <1>8, <1>9, <1>10, <1>11, <1>12,
     <1>13
  DEF Next, Progress, Failure

\* What the retries and the observation rest on is an invariant.
LEMMA CommandInvariant == Spec => []CommandInv
  BY CommandInit, CommandStep, PTL DEF Spec

\* Two shutdown commands never run at the same time, however often the reactor
\* retries and whichever calls fail.
THEOREM NeverTwoCommands == Spec => []OneCommand
<1>1. CommandInv => OneCommand
  BY ChildFacts DEF CommandInv, EarlierAreOver, Earlier, OneCommand
<1> QED BY <1>1, CommandInvariant, PTL

\* A retry never follows a command that succeeded.
THEOREM NoRetryAfterSuccess == Spec => []SuccessNotRetried
<1>1. CommandInv => SuccessNotRetried
  BY ChildFacts DEF CommandInv, EarlierAreOver, Earlier, SuccessNotRetried
<1> QED BY <1>1, CommandInvariant, PTL

\* A command that fails within the grace period is reported as failed.
THEOREM GraceIsKept == Spec => []EarlyFailureSeen
<1>1. CommandInv => EarlyFailureSeen
  BY DEF CommandInv
<1> QED BY <1>1, CommandInvariant, PTL

\* The reactor is blocked for at most CommandTime by a shutdown command.
THEOREM CallIsBounded == Spec => []CallContract
<1>1. CommandInv => CallContract
  <2> SUFFICES ASSUME CommandInv PROVE CallContract
    OBVIOUS
  <2>1. /\ clock \in Nat /\ lag \in 0..MaxLag /\ called_ms \in Nat
        /\ deadline_ms \in Nat
    BY CommandAssumption DEF CommandInv, TypeOK
  <2>2. pc \notin {"idle", "returned"} => clock <= called_ms + CommandTime
    BY <2>1, CommandAssumption
    DEF CommandInv, TypeOK, ObservationIsTimed, CommandTime
  <2> QED BY <2>2 DEF CommandInv, ReportedOnce, CallContract
<1> QED BY <1>1, CommandInvariant, PTL
=============================================================================
