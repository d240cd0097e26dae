---------------------------- MODULE ServiceProofs ----------------------------
(***************************************************************************)
(* Proofs about Service: what an active unit, an exit and an inactive unit *)
(* stand for, whatever the parameters of the unit and the faults.          *)
(***************************************************************************)
EXTENDS Service, TLAPS

\* The process is past monitor_log_startup.
Late == {"reactor", "leaving", "destroy", "exited"}

\* systemd restarts nothing that still runs.
NoProcess == unit \in {"auto-restart", "failed"} => pc = "none"

\* A notification is read only from a process that has announced itself.
ToldWhenLate == inbox # <<>> => pc \in Late

\* What is held at each stage.
HeldByStage ==
    /\ pc \in {"none", "main", "context"} => held = {}
    /\ pc \in {"loop", "destroy"} => held \subseteq {"icmp", "notify"}
    /\ pc = "signalfd" => held \subseteq {"icmp", "notify", "mask"}
    /\ held \subseteq Resources

\* Whatever stops the process by a signal is the operator or a start overdue.
SignalsHaveCause ==
    pc # "none" /\ (pending \/ stop_flag \/ exit_code = "signal") =>
        stop_wanted \/ unit = "overdue"

\* The loop is left in good order only for a shutdown or for a signal.
SuccessHasCause ==
    pc \in {"leaving", "destroy", "exited"} /\ exit_code = "success" =>
        decided \/ stop_flag

LifeInv ==
    /\ exit_code \in {"success", "failure", "signal"}
    /\ NoProcess /\ ToldWhenLate /\ HeldByStage /\ SignalsHaveCause /\ SuccessHasCause
    /\ ActiveIsMonitoring /\ EverythingReleased /\ NotSilentlyGone

USE DEF Late, NoProcess, ToldWhenLate, HeldByStage, SignalsHaveCause, SuccessHasCause,
        ActiveIsMonitoring, EverythingReleased, NotSilentlyGone, Resources

\* The invariant holds before the first start.
LEMMA LifeInit == Init => LifeInv
BY DEF Init, LifeInv

\* Every step of systemd, the operator and the network keeps the invariant.
LEMMA LifeManager ==
    ASSUME LifeInv, Systemd \/ OperatorStop \/ LinkChanges
    PROVE  LifeInv'
<1>1. CASE Start
    BY <1>1 DEF Start, LifeInv
<1>2. CASE Wait
    BY <1>2 DEF Wait, TimePasses, process, LifeInv
<1>3. CASE Notified
    BY <1>3 DEF Notified, process, LifeInv
<1>4. CASE StartOverdue
    BY <1>4 DEF StartOverdue, LifeInv
<1>5. CASE Reap
    BY <1>5 DEF Reap, LifeInv
<1>6. CASE OperatorStop
    BY <1>6 DEF OperatorStop, LifeInv
<1>7. CASE LinkChanges
    BY <1>7 DEF LinkChanges, manager, process, LifeInv
<1> QED BY <1>1, <1>2, <1>3, <1>4, <1>5, <1>6, <1>7 DEF Systemd

\* Every step of the program before and after the loop keeps the invariant.
LEMMA LifeProgram ==
    ASSUME LifeInv,
           \/ config_resolve \/ openups_ctx_init
           \/ BlockSignals \/ OpenSignalfd \/ monitor_loop_init
           \/ monitor_log_startup \/ monitor_loop_destroy \/ openups_ctx_destroy
    PROVE  LifeInv'
<1>1. CASE config_resolve
    BY <1>1 DEF config_resolve, Exit, manager, LifeInv
<1>2. CASE openups_ctx_init
    BY <1>2 DEF openups_ctx_init, Exit, manager, LifeInv
<1>3. CASE BlockSignals \/ OpenSignalfd \/ monitor_loop_init
    <2> USE DEF LoopRefused, signal_channel_destroy, manager, LifeInv
    <2>1. CASE BlockSignals
        BY <2>1 DEF BlockSignals
    <2>2. CASE OpenSignalfd
        BY <2>2 DEF OpenSignalfd
    <2>3. CASE monitor_loop_init
        BY <2>3 DEF monitor_loop_init
    <2> QED BY <1>3, <2>1, <2>2, <2>3
<1>4. CASE monitor_log_startup
    BY <1>4 DEF monitor_log_startup, LifeInv
<1>5. CASE monitor_loop_destroy
    BY <1>5 DEF monitor_loop_destroy, signal_channel_destroy, LifeInv
<1>6. CASE openups_ctx_destroy
    BY <1>6 DEF openups_ctx_destroy, manager, LifeInv
<1> QED BY <1>1, <1>2, <1>3, <1>4, <1>5, <1>6

\* Every step of the loop, and death by a signal, keeps the invariant.
LEMMA LifeReactor ==
    ASSUME LifeInv, Reactor \/ monitor_handle_signal \/ Killed
    PROVE  LifeInv'
<1> USE DEF InReactor, TimePasses, Leave, Exit, manager
<1>1. CASE ProbeAnswered
    BY <1>1 DEF ProbeAnswered, LifeInv
<1>2. CASE ProbeMissed
    BY <1>2 DEF ProbeMissed, LifeInv
<1>3. CASE SendFailed
    BY <1>3 DEF SendFailed, LifeInv
<1>4. CASE monitor_handle_signal
    BY <1>4 DEF monitor_handle_signal, LifeInv
<1>5. CASE Killed
    BY <1>5 DEF Killed, LifeInv
<1> QED BY <1>1, <1>2, <1>3, <1>4, <1>5 DEF Reactor

\* The invariant holds throughout the life of the unit.
LEMMA LifeInvariant == Spec => []LifeInv
<1>1. LifeInv /\ [Next]_vars => LifeInv'
    <2> SUFFICES ASSUME LifeInv, [Next]_vars PROVE LifeInv'
        OBVIOUS
    <2>1. CASE UNCHANGED vars
        BY <2>1 DEF vars, manager, process, LifeInv
    <2>2. CASE Next
        BY <2>2, LifeManager, LifeProgram, LifeReactor DEF Next, Program
    <2> QED BY <2>1, <2>2
<1> QED BY <1>1, LifeInit, PTL DEF Spec

\* systemd never takes the unit for started before the signals are blocked and
\* the loop is set up.
THEOREM ActiveMonitors == Spec => []ActiveIsMonitoring
BY LifeInvariant, PTL DEF LifeInv

\* Every return from main has released what was acquired, also from a start that
\* failed with the signals blocked or the signalfd open.
THEOREM AllReleased == Spec => []EverythingReleased
BY LifeInvariant, PTL DEF LifeInv

\* An inactive unit was stopped by the operator or has decided a shutdown.
THEOREM NeverSilentlyGone == Spec => []NotSilentlyGone
BY LifeInvariant, PTL DEF LifeInv

-----------------------------------------------------------------------------
(* The types. Two bounds among them are the code's own: the count of starts *)
(* stops at StartLimitBurst, that of misses at the threshold.              *)

\* One interval more or less leaves the ages within their bounds.
LEMMA AgesGrow ==
    ASSUME TypeOK, TimePasses
    PROVE  age' \in Nat /\ window_age' \in 0..START_WINDOW
BY ServiceAssumption DEF TypeOK, TimePasses, AtMost, Ages

\* What is announced is a notification.
LEMMA AnnouncedTypes ==
    ASSUME TypeOK, NEW message \in {"READY", "STOPPING"}
    PROVE  Announced(message) \in Seq({"READY", "STOPPING"})
<1>1. \A S : \A s \in Seq(S) : \A e \in S : Append(s, e) \in Seq(S)
    OBVIOUS
<1> QED BY <1>1 DEF Announced, TypeOK

\* What systemd has read leaves the rest as it was.
LEMMA ReadTypes ==
    ASSUME TypeOK, inbox # <<>>
    PROVE  Tail(inbox) \in Seq({"READY", "STOPPING"})
<1>1. \A S : \A s \in Seq(S) : s # <<>> => Tail(s) \in Seq(S)
    OBVIOUS
<1> QED BY <1>1 DEF TypeOK

\* A call that fails is counted.
LEMMA FaultCounted ==
    ASSUME TypeOK, NEW call, Fail(call)
    PROVE  faults' \in 0..MaxFaults
BY ServiceAssumption DEF TypeOK, Fail

\* The steps of systemd keep the types; a start counts towards the burst only
\* below it.
LEMMA ManagerTypes ==
    ASSUME TypeOK, Systemd \/ OperatorStop \/ LinkChanges
    PROVE  TypeOK'
<1> USE ServiceAssumption
<1>1. CASE Start
    <2>1. age' \in Nat /\ UNCHANGED <<inbox, stop_wanted, held, decided, link, faults>>
        BY <1>1 DEF Start
    <2>2. CASE BurstReached
        BY <1>1, <2>1, <2>2 DEF Start, TypeOK
    <2>3. CASE ~BurstReached
        <3>1. starts' \in 0..START_BURST /\ window_age' \in 0..START_WINDOW
            BY <1>1, <2>3 DEF Start, Counted, Fresh, BurstReached, TypeOK
        <3>2. /\ unit' = "activating" /\ pc' = "main" /\ exit_code' = "success"
              /\ stop_flag' = FALSE /\ pending' = FALSE /\ consecutive_fails' = 0
            BY <1>1, <2>3 DEF Start
        <3>3. {stop_flag', pending', decided', stop_wanted'} \subseteq BOOLEAN
            BY <2>1, <3>2 DEF TypeOK
        <3>4. consecutive_fails' \in 0..FAIL_THRESHOLD
            BY <3>2
        <3> QED BY <2>1, <3>1, <3>2, <3>3, <3>4 DEF TypeOK
    <2> QED BY <2>2, <2>3
<1>2. CASE Wait
    BY <1>2, AgesGrow DEF Wait, process, TypeOK
<1>3. CASE Notified
    BY <1>3, ReadTypes DEF Notified, process, TypeOK
<1>4. CASE StartOverdue
    BY <1>4 DEF StartOverdue, TypeOK
<1>5. CASE Reap
    BY <1>5 DEF Reap, Resources, TypeOK
<1>6. CASE OperatorStop
    BY <1>6 DEF OperatorStop, TypeOK
<1>7. CASE LinkChanges
    BY <1>7 DEF LinkChanges, manager, process, TypeOK
<1> QED BY <1>1, <1>2, <1>3, <1>4, <1>5, <1>6, <1>7 DEF Systemd

\* The steps of the program and its death by a signal keep the types.
LEMMA ProcessTypes ==
    ASSUME TypeOK, Program \/ monitor_handle_signal \/ Killed
    PROVE  TypeOK'
<1> USE ServiceAssumption DEF manager, Resources
<1>1. CASE config_resolve
    BY <1>1, FaultCounted DEF config_resolve, Exit, TypeOK
<1>2. CASE openups_ctx_init
    BY <1>2, FaultCounted DEF openups_ctx_init, Exit, TypeOK
<1>3. CASE BlockSignals \/ OpenSignalfd \/ monitor_loop_init
    BY <1>3, FaultCounted DEF BlockSignals, OpenSignalfd, monitor_loop_init,
       LoopRefused, signal_channel_destroy, TypeOK
<1>4. CASE monitor_log_startup
    BY <1>4, FaultCounted, AnnouncedTypes DEF monitor_log_startup, TypeOK
<1>5. CASE ProbeAnswered
    BY <1>5, AgesGrow DEF ProbeAnswered, InReactor, TypeOK
<1>6. CASE ProbeMissed
    <2>1. consecutive_fails' \in 0..FAIL_THRESHOLD
        BY <1>6 DEF ProbeMissed, AtMost, TypeOK
    <2>2. age' \in Nat /\ window_age' \in 0..START_WINDOW
        BY <1>6, AgesGrow DEF ProbeMissed, InReactor
    <2>3. faults' \in 0..MaxFaults
        BY <1>6, FaultCounted DEF ProbeMissed, TypeOK
    <2>4. /\ UNCHANGED <<unit, starts, inbox, stop_wanted, held, stop_flag, pending, link>>
          /\ pc' \in {pc, "leaving"} /\ exit_code' \in {exit_code, "success"}
          /\ decided' \in {decided, TRUE}
        BY <1>6 DEF ProbeMissed, Leave
    <2> QED BY <2>1, <2>2, <2>3, <2>4 DEF TypeOK
<1>7. CASE SendFailed
    BY <1>7, AgesGrow DEF SendFailed, InReactor, Leave, TypeOK
<1>8. CASE monitor_loop_destroy
    BY <1>8, AnnouncedTypes DEF monitor_loop_destroy, signal_channel_destroy, TypeOK
<1>9. CASE openups_ctx_destroy
    BY <1>9 DEF openups_ctx_destroy, TypeOK
<1>10. CASE monitor_handle_signal
    BY <1>10, FaultCounted DEF monitor_handle_signal, Leave, TypeOK
<1>11. CASE Killed
    BY <1>11 DEF Killed, Exit, TypeOK
<1> QED BY <1>1, <1>2, <1>3, <1>4, <1>5, <1>6, <1>7, <1>8, <1>9, <1>10, <1>11
    DEF Program, Reactor

\* The count of starts never passes the unit's limit, nor that of misses the
\* threshold, and every other variable keeps its type.
THEOREM ServiceTypes == Spec => []TypeOK
<1>1. Init => TypeOK
    <2> SUFFICES ASSUME Init PROVE TypeOK
        OBVIOUS
    <2>1. <<>> \in Seq({"READY", "STOPPING"})
        OBVIOUS
    <2>2. 0 \in 0..START_BURST /\ 0 \in 0..START_WINDOW /\ 0 \in 0..FAIL_THRESHOLD
          /\ 0 \in 0..MaxFaults /\ RESTART_DELAY \in Nat
        BY ServiceAssumption
    <2> QED BY <2>1, <2>2 DEF Init, TypeOK
<1>2. TypeOK /\ [Next]_vars => TypeOK'
    <2> SUFFICES ASSUME TypeOK, [Next]_vars PROVE TypeOK'
        OBVIOUS
    <2>1. CASE UNCHANGED vars
        BY <2>1 DEF vars, manager, process, TypeOK
    <2>2. CASE Next
        BY <2>2, ManagerTypes, ProcessTypes DEF Next
    <2> QED BY <2>1, <2>2
<1> QED BY <1>1, <1>2, PTL DEF Spec
=============================================================================
