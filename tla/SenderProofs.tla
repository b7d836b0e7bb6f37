---------------------------- MODULE SenderProofs ----------------------------
(***************************************************************************)
(* Theorems about the sender, for every set of command lines, every tick   *)
(* and every amount of credit.                                             *)
(***************************************************************************)
EXTENDS Sender, TimingProofs

(* The empty queue is a queue.                                              *)
LEMMA NoJobsType == NoJobs(Jobs, Delays) \in Queues(Jobs, Delays)
  BY DEF NoJobs, Queues
-----------------------------------------------------------------------------
(* The constants: what Init and the delays of the jobs rest on.             *)
LEMMA DelayTypes == /\ 0 \in Delays
                    /\ SECOND \in Delays
                    /\ SECOND \in Nat
                    /\ MaxDelay \in Nat
  BY DelayAssumption DEF Delays

(* A reset timer is a timer.                                                *)
LEMMA ResetType == ASSUME NEW t \in Timers PROVE Reset(t) \in Timers
  BY DEF Reset, Timers

(* What a send leaves in the fields it writes.                              *)
LEMMA SendType ==
    ASSUME TypeOK, NEW c \in 1..MaxCredit, send(c)
    PROVE  /\ sent' \in Nat
           /\ unsettled' \in Nat
           /\ credit' \in 0..MaxCredit
           /\ timer' \in Timers
           /\ quiet' \in Nat
           /\ ready' \in BOOLEAN
  <1>1. timer' \in Timers BY ResetType DEF send, TypeOK
  <1>2. sent \in Nat /\ unsettled \in Nat BY DEF TypeOK
  <1>3. c - 1 \in 0..MaxCredit BY CreditAssumption
  <1>4. ready' \in BOOLEAN BY DEF send
  <1>5. /\ sent' = sent + 1
        /\ unsettled' = unsettled + 1
        /\ credit' = c - 1
        /\ quiet' = 0
    BY DEF send
  <1> QED BY <1>1, <1>2, <1>3, <1>4, <1>5

(* conf is one of the field records of the command lines, for good.         *)
ConfInv == conf \in {SenderFields(cl) : cl \in CommandLines}

(* A record SenderFields fills is of its type, and its interval is a delay  *)
(* of the queue.                                                            *)
LEMMA ConfTypes == ConfInv => conf \in Confs /\ IntervalOf(conf) \in Delays
  BY CommandLinesAssumption, DelayAssumption DEF ConfInv

TypeInv == ConfInv /\ TypeOK

(* The fields of SenderHandler keep their types, and conf stays what run()  *)
(* read from the command line.                                              *)
THEOREM TypeInvCorrect == Spec => []TypeInv
  <1>1. Init => TypeInv
    <2> SUFFICES ASSUME Init PROVE TypeInv OBVIOUS
    <2>1. ConfInv BY DEF Init, ConfInv
    <2>2. conf \in Confs BY <2>1, ConfTypes
    <2>3. timer \in Timers BY <2>2 DEF Init, NewTimer, Timers, Confs
    <2>4. credit \in 0..MaxCredit BY CreditAssumption DEF Init
    <2> QED BY <2>1, <2>2, <2>3, <2>4, NoJobsType, DelayTypes
            DEF Init, TypeInv, TypeOK, IMMEDIATE, ConnStates
  <1>2. TypeInv /\ [Next]_vars => TypeInv'
    <2> SUFFICES ASSUME TypeInv, [Next]_vars PROVE TypeInv' OBVIOUS
    <2> USE DEF TypeInv, TypeOK
    <2>t. conf \in Confs /\ IntervalOf(conf) \in Delays BY ConfTypes
    <2>1. CASE on_container_start
      <3>1. CASE Exit("failure")
        BY <3>1 DEF Exit, ConfInv
      <3>2. CASE ~Exit("failure")
        <4> DEFINE first == IF conf.duration_time > 0
                               /\ conf.duration_mode = "before-send"
                            THEN IntervalOf(conf) ELSE IMMEDIATE
        <4>1. first \in Delays BY <2>t, DelayTypes DEF IMMEDIATE
        <4>2. work_q' = Schedule(Schedule(work_q, "timerEvent", IMMEDIATE),
                                 "checkIfCanSend", first)
          BY <2>1, <3>2 DEF on_container_start
        <4>3. Schedule(work_q, "timerEvent", IMMEDIATE) \in Queues(Jobs, Delays)
          BY ScheduleType, DelayTypes DEF IMMEDIATE, Jobs
        <4> HIDE DEF first
        <4>4. work_q' \in Queues(Jobs, Delays)
          BY <4>1, <4>2, <4>3, ScheduleType DEF Jobs
        <4> QED BY <2>1, <2>t, <3>2, <4>4
                DEF on_container_start, progress, ConnStates, ConfInv
      <3> QED BY <3>1, <3>2
    <2>2. CASE timerEvent
      <3>1. CASE Exit("success") BY <3>1 DEF Exit, ConfInv
      <3>2. CASE ~Exit("success")
        <4>1. timer' \in Timers
          BY <2>2, <3>2 DEF timerEvent, Decrement, Timers
        <4>2. Take(work_q, "timerEvent") \in Queues(Jobs, Delays)
          BY <2>2, TakeType, DelayTypes DEF timerEvent, Jobs
        <4>3. Reschedule("timerEvent", SECOND) \in Queues(Jobs, Delays)
          BY <4>2, ScheduleType, DelayTypes DEF Reschedule, Jobs
        <4>4. work_q' \in Queues(Jobs, Delays)
          BY <2>2, <3>2, <4>2, <4>3 DEF timerEvent
        <4> QED BY <2>2, <3>2, <4>1, <4>4 DEF timerEvent, options, ConfInv
      <3> QED BY <3>1, <3>2
    <2>3. CASE checkIfCanSend
      <3>1. Take(work_q, "checkIfCanSend") \in Queues(Jobs, Delays)
        BY <2>3, TakeType, DelayTypes DEF checkIfCanSend, Jobs
      <3>2. Reschedule("checkIfCanSend", interval) \in Queues(Jobs, Delays)
        BY <3>1, ScheduleType DEF Reschedule, Jobs
      <3>3. work_q' \in Queues(Jobs, Delays)
        BY <2>3, <3>1, <3>2 DEF checkIfCanSend
      <3>4. CASE credit > 0 /\ send(credit)
        <4>1. credit \in 1..MaxCredit BY <3>4, CreditAssumption
        <4> QED BY <2>3, <3>3, <3>4, <4>1, SendType
                DEF checkIfCanSend, options, ConfInv
      <3>5. CASE ~(credit > 0 /\ send(credit))
        BY <2>3, <3>3, <3>5 DEF checkIfCanSend, options, progress, ConfInv
      <3> QED BY <3>4, <3>5
    <2>4. ASSUME NEW c \in 0..MaxCredit, on_sendable(c) PROVE TypeInv'
      <3>1. CASE ready /\ c > 0 /\ send(c)
        <4>1. c \in 1..MaxCredit BY <3>1, CreditAssumption
        <4> QED BY <2>4, <3>1, <4>1, SendType
                DEF on_sendable, options, ConfInv
      <3>2. CASE ~(ready /\ c > 0)
        BY <2>4, <3>2 DEF on_sendable, options, progress, ConfInv
      <3> QED BY <2>4, <3>1, <3>2 DEF on_sendable
    <2>5. CASE on_tracker_accept
      BY <2>5 DEF on_tracker_accept, options, progress, ConfInv, ConnStates
    <2>6. CASE on_tracker_reject
      BY <2>6 DEF on_tracker_reject, Exit, ConfInv
    <2>7. CASE on_tracker_release
      BY <2>7 DEF on_tracker_release, options, progress, ConfInv
    <2>8. CASE ConnectionOpens
      BY <2>8 DEF ConnectionOpens, options, progress, ConfInv, ConnStates
    <2>9. CASE on_connection_close
      BY <2>9 DEF on_connection_close, options, progress, ConfInv, ConnStates
    <2>10. ASSUME NEW u \in BOOLEAN, on_connection_error(u) PROVE TypeInv'
      BY <2>10 DEF on_connection_error, Exit, options, progress, ConfInv,
                   ConnStates
    <2>11. CASE TransportCloses
      BY <2>11, CreditAssumption
      DEF TransportCloses, on_transport_close, LinkLost, Exit, options,
          progress, ConfInv, ConnStates
    <2>12. ASSUME NEW u \in BOOLEAN, on_transport_error(u) PROVE TypeInv'
      BY <2>12, CreditAssumption
      DEF on_transport_error, on_transport_close, LinkLost, Exit, options,
          progress, ConfInv, ConnStates
    <2>13. CASE RunReturns \/ on_error
      BY <2>13 DEF RunReturns, on_error, Exit, ConfInv
    <2>14. CASE Tick
      <3>1. work_q' \in Queues(Jobs, Delays) BY <2>14, ElapseType DEF Tick
      <3> QED BY <2>14, <3>1 DEF Tick, options, ConfInv
    <2>15. CASE Exited BY <2>15 DEF Exited, vars, ConfInv
    <2>16. CASE UNCHANGED vars BY <2>16 DEF vars, ConfInv
    <2> QED BY <2>1, <2>2, <2>3, <2>4, <2>5, <2>6, <2>7, <2>8, <2>9, <2>10,
               <2>11, <2>12, <2>13, <2>14, <2>15, <2>16 DEF Next
  <1> QED BY <1>1, <1>2, PTL DEF Spec

(* TypeOK, the type invariant the runs check.                               *)
THEOREM TypeCorrect == Spec => []TypeOK
  <1>1. TypeInv => TypeOK BY DEF TypeInv
  <1> QED BY <1>1, TypeInvCorrect, PTL
-----------------------------------------------------------------------------
(* The counters.  Every message is confirmed, without an outcome yet or     *)
(* forgotten, and the handler closes only on the last confirmation: with    *)
(* NeverOversends this is inductive.                                        *)
CountersInv ==
    /\ NeverOversends
    /\ sent = confirmedSent + unsettled + forgotten
    /\ conn = "closing" => confirmedSent = conf.count

(* A send that MoreToSend allows keeps them.                                *)
LEMMA SendKeepsCounters ==
    ASSUME TypeOK, CountersInv, NEW c, send(c), sent < conf.count,
           UNCHANGED <<conf, confirmedSent, conn, forgotten>>
    PROVE  CountersInv'
  <1>1. /\ sent \in Nat /\ unsettled \in Nat /\ forgotten \in Nat
        /\ confirmedSent \in Nat /\ conf.count \in Int
    BY DEF TypeOK, Confs
  <1>2. /\ sent' = sent + 1
        /\ unsettled' = unsettled + 1
        /\ ready' = FALSE
    BY DEF send
  <1>3. NeverOversends' BY <1>1, <1>2 DEF NeverOversends, CountersInv
  <1> QED BY <1>1, <1>2, <1>3 DEF CountersInv

(* What happens to deliveries without an outcome: nothing, one of them is   *)
(* released, or all are lost with the link.                                 *)
Outcomes ==
    \/ UNCHANGED <<unsettled, forgotten>>
    \/ unsettled' = unsettled - 1 /\ forgotten' = forgotten + 1
    \/ unsettled' = 0 /\ forgotten' = forgotten + unsettled

(* A step that leaves the counters alone keeps them, if it does not start   *)
(* closing the connection.                                                  *)
LEMMA OthersKeepCounters ==
    ASSUME CountersInv, TypeOK, Outcomes,
           UNCHANGED <<conf, ready, sent, confirmedSent>>,
           conn' = "closing" => conn = "closing"
    PROVE  CountersInv'
  <1>1. NeverOversends' BY DEF NeverOversends, CountersInv
  <1>2. sent' = confirmedSent' + unsettled' + forgotten'
    <2>1. confirmedSent \in Int /\ unsettled \in Int /\ forgotten \in Int
      BY DEF TypeOK
    <2> QED BY <2>1 DEF CountersInv, Outcomes
  <1> QED BY <1>1, <1>2 DEF CountersInv

(* The end of the process changes no counter.                               *)
LEMMA ExitKeepsCounters ==
    ASSUME CountersInv, NEW code, Exit(code) PROVE CountersInv'
  BY DEF CountersInv, NeverOversends, Exit

(* SenderHandler's three counters agree with what is on the wire at all     *)
(* times: every message sent is confirmed, open or forgotten.               *)
THEOREM CountersCorrect == Spec => []CountersInv
  <1>1. Init /\ TypeInv => CountersInv
    <2> SUFFICES ASSUME Init, TypeInv PROVE CountersInv OBVIOUS
    <2>1. conf.count \in Int BY DEF TypeInv, TypeOK, Confs
    <2> QED BY <2>1 DEF Init, CountersInv, NeverOversends
  <1>2. TypeInv /\ CountersInv /\ [Next]_vars => CountersInv'
    <2> SUFFICES ASSUME TypeInv, CountersInv, [Next]_vars
                 PROVE  CountersInv'
      OBVIOUS
    <2>t. TypeOK BY DEF TypeInv
    <2>n. /\ unsettled \in Nat /\ forgotten \in Nat
          /\ sent \in Nat /\ confirmedSent \in Nat
      BY <2>t DEF TypeOK
    <2>1. CASE on_container_start
      BY <2>1, <2>t, <2>n, ExitKeepsCounters, OthersKeepCounters
      DEF Outcomes, on_container_start, progress
    <2>2. CASE timerEvent
      BY <2>2, <2>t, <2>n, ExitKeepsCounters, OthersKeepCounters
      DEF Outcomes, timerEvent, options
    <2>3. CASE checkIfCanSend
      <3>1. CASE MoreToSend /\ credit > 0 /\ send(credit)
        BY <2>3, <2>t, <3>1, SendKeepsCounters
        DEF checkIfCanSend, MoreToSend, options
      <3>2. CASE MoreToSend /\ UNCHANGED <<timer, sent, quiet, credit, unsettled>>
                 /\ ready' = TRUE
        BY <2>3, <2>t, <3>2
        DEF checkIfCanSend, MoreToSend, options, CountersInv, NeverOversends,
            TypeOK, Confs
      <3>3. CASE UNCHANGED <<progress, credit, unsettled>>
        BY <2>3, <2>t, <2>n, <3>3, OthersKeepCounters
        DEF Outcomes, checkIfCanSend, options, progress
      <3> QED BY <2>3, <3>1, <3>2, <3>3 DEF checkIfCanSend
    <2>4. ASSUME NEW c \in 0..MaxCredit, on_sendable(c) PROVE CountersInv'
      <3>1. CASE ready /\ c > 0 /\ send(c)
        BY <2>4, <2>t, <3>1, SendKeepsCounters
        DEF on_sendable, options, CountersInv, NeverOversends
      <3>2. CASE UNCHANGED <<progress, unsettled>>
        BY <2>4, <2>t, <2>n, <3>2, OthersKeepCounters
        DEF Outcomes, on_sendable, options, progress
      <3> QED BY <2>4, <3>1, <3>2 DEF on_sendable
    <2>5. CASE on_tracker_accept
      <3>1. /\ confirmedSent' = confirmedSent + 1
            /\ unsettled' = unsettled - 1
            /\ conn' = IF confirmedSent' = conf.count THEN "closing" ELSE conn
            /\ UNCHANGED <<conf, ready, sent, forgotten>>
        BY <2>5 DEF on_tracker_accept, LastConfirmation, options, progress
      <3>2. NeverOversends' BY <3>1 DEF CountersInv, NeverOversends
      <3>3. sent' = confirmedSent' + unsettled' + forgotten'
        BY <2>n, <3>1 DEF CountersInv
      <3>4. unsettled > 0 BY <2>5 DEF on_tracker_accept
      <3>5. conn # "closing"
        <4>1. conf.count \in Int BY <2>t DEF TypeOK, Confs
        <4> QED BY <2>n, <3>4, <4>1 DEF CountersInv, NeverOversends
      <3> QED BY <3>1, <3>2, <3>3, <3>5 DEF CountersInv
    <2>6. CASE on_tracker_reject
      BY <2>6, ExitKeepsCounters DEF on_tracker_reject
    <2>7. CASE on_tracker_release
      BY <2>7, <2>t, <2>n, OthersKeepCounters
      DEF Outcomes, on_tracker_release, options, progress
    <2>8. CASE ConnectionOpens
      BY <2>8, <2>t, <2>n, OthersKeepCounters
      DEF Outcomes, ConnectionOpens, options, progress
    <2>9. CASE on_connection_close
      BY <2>9, <2>t, <2>n, OthersKeepCounters
      DEF Outcomes, on_connection_close, options, progress
    <2>10. ASSUME NEW u \in BOOLEAN, on_connection_error(u)
           PROVE  CountersInv'
      BY <2>10, <2>t, <2>n, OthersKeepCounters, ExitKeepsCounters
      DEF Outcomes, on_connection_error, options, progress
    <2>11. CASE TransportCloses
      BY <2>11, <2>t, <2>n, OthersKeepCounters, ExitKeepsCounters
      DEF Outcomes, TransportCloses, on_transport_close, LinkLost, options, progress
    <2>12. ASSUME NEW u \in BOOLEAN, on_transport_error(u)
           PROVE  CountersInv'
      BY <2>12, <2>t, <2>n, OthersKeepCounters, ExitKeepsCounters
      DEF Outcomes, on_transport_error, on_transport_close, LinkLost, options, progress
    <2>13. CASE RunReturns \/ on_error
      BY <2>13, ExitKeepsCounters DEF RunReturns, on_error
    <2>14. CASE Tick
      BY <2>14, <2>t, <2>n, OthersKeepCounters DEF Outcomes, Tick, options
    <2>15. CASE UNCHANGED vars
      BY <2>15 DEF vars, CountersInv, NeverOversends
    <2> QED BY <2>1, <2>2, <2>3, <2>4, <2>5, <2>6, <2>7, <2>8, <2>9, <2>10,
               <2>11, <2>12, <2>13, <2>14, <2>15 DEF Next, Exited
  <1> QED BY <1>1, <1>2, TypeInvCorrect, PTL DEF Spec

(* Two triggers, one budget: the client never sends more than count         *)
(* messages, whatever the order of polling, credit and reconnections.       *)
THEOREM NeverOversendsCorrect == Spec => []NeverOversends
  <1>1. CountersInv => NeverOversends BY DEF CountersInv
  <1> QED BY <1>1, CountersCorrect, PTL

(* The client closes only what is delivered.                                *)
THEOREM CloseMeansDeliveredCorrect == Spec => []CloseMeansDelivered
  <1>1. TypeInv /\ CountersInv => CloseMeansDelivered
    <2> SUFFICES ASSUME TypeInv, CountersInv, conn = "closing"
                 PROVE  /\ confirmedSent = conf.count
                        /\ sent = conf.count
                        /\ unsettled + forgotten = 0
      BY DEF CloseMeansDelivered
    <2>1. /\ sent \in Nat /\ confirmedSent \in Nat /\ unsettled \in Nat
          /\ forgotten \in Nat /\ conf.count \in Int
      BY DEF TypeInv, TypeOK, Confs
    <2> QED BY <2>1 DEF CountersInv, NeverOversends
  <1> QED BY <1>1, TypeInvCorrect, CountersCorrect, PTL
-----------------------------------------------------------------------------
(* Refinement.                                                              *)

(* The initial states are those of a job, and every step is one of its      *)
(* steps or changes nothing it can see.                                     *)
THEOREM JobRefinement == Spec => ImplementsJob
  <1>1. Init /\ TypeInv => Job!JobInit
    BY DEF Init, Job!JobInit, Phase, Running, TypeInv, TypeOK, Confs
  <1>2. TypeInv /\ TypeInv' /\ CountersInv /\ [Next]_vars
            => [Job!Submit \/ Job!Confirm \/ Job!Stop]_(Job!jobVars)
    <2> SUFFICES ASSUME TypeInv, TypeInv', CountersInv, [Next]_vars
                 PROVE  [Job!Submit \/ Job!Confirm \/ Job!Stop]_(Job!jobVars)
      OBVIOUS
    <2>t. /\ sent \in Nat /\ confirmedSent \in Nat /\ unsettled \in Nat
          /\ forgotten \in Nat /\ conf.count \in Int
      BY DEF TypeInv, TypeOK, Confs
    <2>p. Phase \in {"working", "complete", "stopped"} BY DEF Phase
    <2>e. ASSUME NEW code, code # "running", Running, Exit(code)
          PROVE  Job!Stop
      BY <2>e DEF Exit, Job!Stop, Phase, Running
    <2>u. ASSUME UNCHANGED <<conf, sent, confirmedSent, status>>
          PROVE  UNCHANGED Job!jobVars
      BY <2>u DEF Job!jobVars, Phase, Running
    <2>s. ASSUME NEW c, Running, send(c), sent < conf.count,
                 UNCHANGED <<conf, confirmedSent, status>>
          PROVE  Job!Submit
      <3>1. sent' = sent + 1 BY <2>s DEF send
      <3>2. confirmedSent <= sent BY <2>t DEF CountersInv
      <3>3. Phase = "working" /\ Phase' = "working"
        BY <2>s, <2>t, <3>2 DEF Phase, Running
      <3> QED BY <2>s, <3>1, <3>3 DEF Job!Submit
    <2>1. CASE on_container_start
      BY <2>1, <2>e, <2>u DEF on_container_start, progress
    <2>2. CASE timerEvent
      BY <2>2, <2>e, <2>u DEF timerEvent, options
    <2>3. CASE checkIfCanSend
      <3>1. CASE MoreToSend /\ credit > 0 /\ send(credit)
        BY <2>3, <2>s, <3>1 DEF checkIfCanSend, MoreToSend, options
      <3>2. CASE UNCHANGED sent
        BY <2>3, <2>u, <3>2 DEF checkIfCanSend, options
      <3> QED BY <2>3, <3>1, <3>2 DEF checkIfCanSend, progress
    <2>4. ASSUME NEW c \in 0..MaxCredit, on_sendable(c)
          PROVE  Job!Submit \/ UNCHANGED Job!jobVars
      <3>1. CASE ready /\ c > 0 /\ send(c)
        BY <2>4, <2>s, <3>1
        DEF on_sendable, options, CountersInv, NeverOversends
      <3>2. CASE UNCHANGED sent
        BY <2>4, <2>u, <3>2 DEF on_sendable, options
      <3> QED BY <2>4, <3>1, <3>2 DEF on_sendable, progress
    <2>5. CASE on_tracker_accept
      <3>1. /\ confirmedSent' = confirmedSent + 1
            /\ UNCHANGED <<conf, sent, status>>
            /\ Running
            /\ unsettled > 0
        BY <2>5 DEF on_tracker_accept, options, progress
      <3>2. confirmedSent < sent BY <2>t, <3>1 DEF CountersInv
      <3>3. confirmedSent < conf.count
        BY <2>t, <3>2 DEF CountersInv, NeverOversends
      <3>4. Phase = "working" BY <2>t, <3>1, <3>3 DEF Phase
      <3>5. Phase' = IF confirmedSent' = conf.count
                     THEN "complete" ELSE "working"
        BY <2>t, <3>1 DEF Phase, Running
      <3> QED BY <3>1, <3>2, <3>4, <3>5 DEF Job!Confirm
    <2>6. CASE on_tracker_reject BY <2>6, <2>e DEF on_tracker_reject
    <2>7. CASE on_tracker_release
      BY <2>7, <2>u DEF on_tracker_release, options, progress
    <2>8. CASE ConnectionOpens
      BY <2>8, <2>u DEF ConnectionOpens, options, progress
    <2>9. CASE on_connection_close
      BY <2>9, <2>u DEF on_connection_close, options, progress
    <2>10. ASSUME NEW u \in BOOLEAN, on_connection_error(u)
           PROVE  Job!Stop \/ UNCHANGED Job!jobVars
      BY <2>10, <2>e, <2>u DEF on_connection_error, options, progress
    <2>11. CASE TransportCloses
      BY <2>11, <2>e, <2>u
      DEF TransportCloses, on_transport_close, options, progress
    <2>12. ASSUME NEW u \in BOOLEAN, on_transport_error(u)
           PROVE  Job!Stop \/ UNCHANGED Job!jobVars
      BY <2>12, <2>e, <2>u
      DEF on_transport_error, on_transport_close, options, progress
    <2>13. CASE RunReturns \/ on_error
      BY <2>13, <2>e DEF RunReturns, on_error
    <2>14. CASE Tick BY <2>14, <2>u DEF Tick, options
    <2>15. CASE UNCHANGED vars BY <2>15, <2>u DEF vars
    <2> QED BY <2>1, <2>2, <2>3, <2>4, <2>5, <2>6, <2>7, <2>8, <2>9, <2>10,
               <2>11, <2>12, <2>13, <2>14, <2>15 DEF Next, Exited
  <1> QED BY <1>1, <1>2, TypeInvCorrect, CountersCorrect, PTL
          DEF Spec, ImplementsJob, Job!JobSpec
-----------------------------------------------------------------------------
(* The two chains of jobs.  They start once, together, and from then on     *)
(* each job is the only one of its kind; a countdown that has not expired   *)
(* has something left, so its decrement never throws and the chain of       *)
(* timerEvent lasts as long as the process.                                 *)
CountdownInv ==
    /\ timer.timeout = conf.timeout
    /\ conf.timeout >= 0 => timer.remaining \in 0..conf.timeout

ChainInv ==
    /\ CountdownInv
    /\ ~Started => /\ timer.remaining = conf.timeout
                   /\ \A j \in Jobs : ~Pending(work_q, j)
    /\ ChainsAlive

(* A step that leaves the timer alone or resets it keeps it within bounds.  *)
LEMMA KeepCountdown ==
    ASSUME TypeOK, CountdownInv, conf' = conf,
           timer' = timer \/ timer' = Reset(timer)
    PROVE  CountdownInv'
  BY DEF TypeOK, Timers, Confs, CountdownInv, Reset

(* Steps that leave the queue alone.                                        *)
LEMMA KeepChains ==
    ASSUME TypeOK, ChainInv, UNCHANGED <<conf, work_q>>,
           timer' = timer \/ timer' = Reset(timer),
           Running' => Running, Started' <=> Started,
           sent' < conf.count => sent < conf.count
    PROVE  ChainInv'
  <1>1. CountdownInv' BY KeepCountdown DEF ChainInv
  <1>2. ChainsAlive' BY DEF ChainInv, ChainsAlive
  <1>3. ~Started' => timer'.remaining = conf.timeout
    BY DEF TypeOK, Timers, ChainInv, CountdownInv, Reset
  <1> QED BY <1>1, <1>2, <1>3 DEF ChainInv

(* The end of the process stops the chains, and ChainInv asks nothing of an *)
(* ended process.                                                           *)
LEMMA ExitKeepsChains ==
    ASSUME TypeOK, ChainInv, NEW code, Exit(code), Running PROVE ChainInv'
  BY KeepChains DEF Exit, Started

(* A job of a chain that runs and schedules itself again.                   *)
LEMMA RescheduleOne ==
    ASSUME TypeOK, NEW j \in Jobs, NEW k \in Jobs, k # j, NEW d \in Delays,
           AtMostOne(work_q, j), AtMostOne(work_q, k), Runnable(work_q, j)
    PROVE  /\ AtMostOne(Reschedule(j, d), j)
           /\ Pending(Reschedule(j, d), j)
           /\ AtMostOne(Reschedule(j, d), k)
           /\ Pending(work_q, k) => Pending(Reschedule(j, d), k)
           /\ AtMostOne(Take(work_q, j), j)
           /\ AtMostOne(Take(work_q, j), k)
           /\ Pending(work_q, k) => Pending(Take(work_q, j), k)
  <1> DEFINE t == Take(work_q, j)
             r == Schedule(t, j, d)
  <1>1. work_q \in Queues(Jobs, Delays) /\ 0 \in Delays
    BY DelayTypes DEF TypeOK
  <1>2. t \in Queues(Jobs, Delays) /\ ~Pending(t, j)
    BY <1>1, TakeType, TakeOne
  <1>3. t[k] = work_q[k] BY <1>1, OtherChains
  <1> HIDE DEF t
  <1>4. AtMostOne(r, j) /\ Pending(r, j) BY <1>2, ScheduleOne
  <1>5. r[k] = t[k] BY <1>1, <1>2, OtherChains
  <1> HIDE DEF r
  <1>6. AtMostOne(t, k) /\ AtMostOne(r, k)
    BY <1>3, <1>5 DEF AtMostOne
  <1>7. Pending(work_q, k) => Pending(t, k) /\ Pending(r, k)
    BY <1>3, <1>5 DEF Pending
  <1>8. AtMostOne(t, j) BY <1>2 DEF Pending, AtMostOne
  <1> QED BY <1>4, <1>6, <1>7, <1>8 DEF t, r, Reschedule

(* timerEvent and checkIfCanSend are each pending at most once, and         *)
(* timerEvent lasts: it reschedules itself before it could ever decrement   *)
(* an expired timer.                                                        *)
THEOREM ChainsCorrect == Spec => []ChainInv
  <1>1. Init /\ TypeInv => ChainInv
    <2> SUFFICES ASSUME Init, TypeInv PROVE ChainInv OBVIOUS
    <2>1. CountdownInv /\ timer.remaining = conf.timeout
      BY DEF Init, TypeInv, TypeOK, Confs, NewTimer, CountdownInv
    <2>2. \A j \in Jobs : ~Pending(work_q, j) /\ AtMostOne(work_q, j)
      BY DEF Init, NoJobs, Pending, AtMostOne
    <2> QED BY <2>1, <2>2 DEF Init, ChainInv, ChainsAlive, Started
  <1>2. TypeInv /\ ChainInv /\ [Next]_vars => ChainInv'
    <2> SUFFICES ASSUME TypeInv, ChainInv, [Next]_vars PROVE ChainInv'
      OBVIOUS
    <2>t. TypeOK /\ ConfInv BY DEF TypeInv
    <2>q. work_q \in Queues(Jobs, Delays) BY <2>t DEF TypeOK
    <2>1. CASE on_container_start
      <3>1. CASE Exit("failure")
        BY <2>1, <2>t, <3>1, ExitKeepsChains DEF on_container_start
      <3>2. CASE ~Exit("failure")
        <4> DEFINE first == IF conf.duration_time > 0
                               /\ conf.duration_mode = "before-send"
                            THEN IntervalOf(conf) ELSE IMMEDIATE
                   q == Schedule(work_q, "timerEvent", IMMEDIATE)
                   r == Schedule(q, "checkIfCanSend", first)
        <4>1. first \in Delays /\ IMMEDIATE \in Delays
          BY <2>t, ConfTypes, DelayTypes DEF IMMEDIATE
        <4>2. work_q' = r BY <2>1, <3>2 DEF on_container_start
        <4> HIDE DEF first
        <4>3. \A j \in Jobs : ~Pending(work_q, j)
          BY <2>1 DEF on_container_start, ChainInv, Started
        <4>4. /\ AtMostOne(q, "timerEvent") /\ Pending(q, "timerEvent")
              /\ q \in Queues(Jobs, Delays)
          BY <2>q, <4>1, <4>3, ScheduleOne, ScheduleType DEF Jobs
        <4>5. q["checkIfCanSend"] = work_q["checkIfCanSend"]
          BY <2>q, <4>1, DelayTypes, OtherChains DEF Jobs
        <4> HIDE DEF q
        <4>6. ~Pending(q, "checkIfCanSend")
          BY <4>3, <4>5 DEF Pending, Jobs
        <4>7. AtMostOne(r, "checkIfCanSend") /\ Pending(r, "checkIfCanSend")
          BY <4>1, <4>4, <4>6, ScheduleOne DEF Jobs
        <4>8. r["timerEvent"] = q["timerEvent"]
          BY <4>1, <4>4, DelayTypes, OtherChains DEF Jobs
        <4> HIDE DEF r
        <4>9. AtMostOne(r, "timerEvent") /\ Pending(r, "timerEvent")
          BY <4>4, <4>8 DEF AtMostOne, Pending
        <4>10. CountdownInv'
          BY <2>1, <2>t, <3>2, KeepCountdown
          DEF on_container_start, progress, ChainInv
        <4>11. Started'
          BY <2>1, <3>2 DEF on_container_start, Started
        <4> QED BY <4>2, <4>7, <4>9, <4>10, <4>11
                DEF ChainInv, ChainsAlive, Jobs
      <3> QED BY <3>1, <3>2
    <2>2. CASE timerEvent
      <3>1. CASE Exit("success")
        BY <2>2, <2>t, <3>1, ExitKeepsChains DEF timerEvent
      <3>2. CASE ~Exit("success")
        <4>1. /\ timer' = Decrement(timer)
              /\ ~IsExpired(timer)
              /\ UNCHANGED <<conf, sent, conn, status>>
              /\ Runnable(work_q, "timerEvent")
          BY <2>2, <3>2 DEF timerEvent, options
        <4>2. CountdownInv'
          BY <2>t, <4>1 DEF TypeOK, Timers, Confs, ChainInv, CountdownInv,
                            Decrement, IsExpired
        <4>3. AtMostOne(work_q, "timerEvent") /\ AtMostOne(work_q, "checkIfCanSend")
          BY DEF ChainInv, ChainsAlive, Jobs
        <4>4. conf.timeout >= FOREVER => ~DecrementThrows(timer)
          BY <2>t, <4>1 DEF TypeOK, Timers, Confs, ChainInv, CountdownInv,
                            DecrementThrows, IsExpired, FOREVER
        <4>5. work_q' = IF DecrementThrows(timer) THEN Take(work_q, "timerEvent")
                        ELSE Reschedule("timerEvent", SECOND)
          BY <2>2, <3>2 DEF timerEvent
        <4>6. /\ AtMostOne(work_q', "timerEvent")
              /\ AtMostOne(work_q', "checkIfCanSend")
              /\ Pending(work_q, "checkIfCanSend")
                     => Pending(work_q', "checkIfCanSend")
              /\ conf.timeout >= FOREVER => Pending(work_q', "timerEvent")
          BY <2>t, <4>1, <4>3, <4>4, <4>5, RescheduleOne, DelayTypes DEF Jobs
        <4>7. Started
          <5>1. Pending(work_q, "timerEvent")
            BY <2>q, <4>1, DelayTypes DEF Runnable, Pending, Queues, Jobs
          <5> QED BY <5>1 DEF ChainInv, Jobs
        <4>8. ChainsAlive'
          BY <4>1, <4>6, <4>7 DEF ChainsAlive, ChainInv, Jobs, Running, Started
        <4>9. Started' BY <4>1, <4>7 DEF Started
        <4> QED BY <4>2, <4>8, <4>9 DEF ChainInv
      <3> QED BY <3>1, <3>2
    <2>3. CASE checkIfCanSend
      <3>1. /\ UNCHANGED <<conf, conn, status>>
            /\ Runnable(work_q, "checkIfCanSend")
            /\ timer' = timer \/ timer' = Reset(timer)
            /\ interval \in Delays
        BY <2>3, <2>t DEF checkIfCanSend, options, progress, send, TypeOK
      <3>2. CountdownInv' BY <2>t, <3>1, KeepCountdown DEF ChainInv
      <3>3. AtMostOne(work_q, "timerEvent") /\ AtMostOne(work_q, "checkIfCanSend")
        BY DEF ChainInv, ChainsAlive, Jobs
      <3>4. /\ AtMostOne(work_q', "timerEvent")
            /\ AtMostOne(work_q', "checkIfCanSend")
            /\ Pending(work_q, "timerEvent") => Pending(work_q', "timerEvent")
            /\ MoreToSend => Pending(work_q', "checkIfCanSend")
        BY <2>3, <2>t, <3>1, <3>3, RescheduleOne DEF Jobs, checkIfCanSend
      <3>5. sent' < conf.count => MoreToSend
        <4>1. sent \in Int /\ conf.count \in Int BY <2>t DEF TypeOK, Confs
        <4>2. sent' = sent \/ sent' = sent + 1
          BY <2>3 DEF checkIfCanSend, send, progress
        <4> QED BY <4>1, <4>2 DEF MoreToSend
      <3>6. Started
        <4>1. Pending(work_q, "checkIfCanSend")
          BY <2>q, <3>1, DelayTypes DEF Runnable, Pending, Queues, Jobs
        <4> QED BY <4>1 DEF ChainInv, Jobs
      <3>7. ChainsAlive'
        BY <3>1, <3>4, <3>5, <3>6
        DEF ChainsAlive, ChainInv, Jobs, Running, Started
      <3>8. Started' BY <3>1, <3>6 DEF Started
      <3> QED BY <3>2, <3>7, <3>8 DEF ChainInv
    <2>4. ASSUME NEW c \in 0..MaxCredit, on_sendable(c) PROVE ChainInv'
      <3>1. sent \in Int /\ conf.count \in Int BY <2>t DEF TypeOK, Confs
      <3> QED BY <2>4, <2>t, <3>1, KeepChains
              DEF on_sendable, send, options, progress, Running, Started
    <2>5. CASE on_tracker_accept
      BY <2>5, <2>t, KeepChains
      DEF on_tracker_accept, options, progress, Running, Started
    <2>6. CASE on_tracker_reject
      BY <2>6, <2>t, ExitKeepsChains DEF on_tracker_reject
    <2>7. CASE on_tracker_release
      BY <2>7, <2>t, KeepChains
      DEF on_tracker_release, options, progress, Running, Started
    <2>8. CASE ConnectionOpens
      BY <2>8, <2>t, KeepChains
      DEF ConnectionOpens, options, progress, Running, Started
    <2>9. CASE on_connection_close
      BY <2>9, <2>t, KeepChains
      DEF on_connection_close, options, progress, Running, Started
    <2>10. ASSUME NEW u \in BOOLEAN, on_connection_error(u) PROVE ChainInv'
      BY <2>10, <2>t, KeepChains, ExitKeepsChains
      DEF on_connection_error, options, progress, Running, Started
    <2>11. CASE TransportCloses
      BY <2>11, <2>t, KeepChains, ExitKeepsChains
      DEF TransportCloses, on_transport_close, options, progress, Running,
          Started
    <2>12. ASSUME NEW u \in BOOLEAN, on_transport_error(u) PROVE ChainInv'
      BY <2>12, <2>t, KeepChains, ExitKeepsChains
      DEF on_transport_error, on_transport_close, options, progress, Running,
          Started
    <2>13. CASE RunReturns \/ on_error
      BY <2>13, <2>t, ExitKeepsChains DEF RunReturns, on_error
    <2>14. CASE Tick
      <3>1. UNCHANGED <<conf, timer, sent, conn, status>> /\ work_q' = Elapse(work_q)
        BY <2>14 DEF Tick, options
      <3>2. CountdownInv' BY <2>t, <3>1, KeepCountdown DEF ChainInv
      <3>3. \A j \in Jobs :
               /\ AtMostOne(work_q, j) => AtMostOne(work_q', j)
               /\ Pending(work_q, j) => Pending(work_q', j)
        BY <2>q, <3>1, DelayTypes, ElapseOne DEF Delays
      <3>4. Started
        <4>1. PICK j \in Jobs : \E d \in Delays : work_q[j][d] > 0
          BY <2>14, <2>q DEF Tick, Waiting, Queues
        <4>2. Pending(work_q, j) BY <2>q, <4>1 DEF Pending, Queues
        <4> QED BY <4>2 DEF ChainInv
      <3>5. ChainsAlive'
        BY <3>1, <3>3 DEF ChainsAlive, ChainInv, Running, Started, Jobs
      <3>6. Started' BY <3>1, <3>4 DEF Started
      <3> QED BY <3>2, <3>5, <3>6 DEF ChainInv
    <2>15. CASE UNCHANGED vars
      BY <2>15, <2>t, KeepChains DEF vars, Running, Started
    <2> QED BY <2>1, <2>2, <2>3, <2>4, <2>5, <2>6, <2>7, <2>8, <2>9, <2>10,
               <2>11, <2>12, <2>13, <2>14, <2>15 DEF Next, Exited
  <1> QED BY <1>1, <1>2, TypeInvCorrect, PTL DEF Spec

(* ChainsAlive: neither chain forks, and neither dies too early, for every  *)
(* command line, tick length and credit limit.                              *)
THEOREM ChainsAliveCorrect == Spec => []ChainsAlive
  <1>1. ChainInv => ChainsAlive BY DEF ChainInv
  <1> QED BY <1>1, ChainsCorrect, PTL
-----------------------------------------------------------------------------
(* How long the countdown and the pacing let the client wait.  What the     *)
(* countdown has counted off is never more than the ticks since the last    *)
(* send, the rest of the running second included; a slot of the pacing ends *)
(* at most `interval' ticks after the last send.                            *)
PatientInv ==
    conf.timeout >= 0 =>
        \A d \in Delays : work_q["timerEvent"][d] > 0
            => (conf.timeout - timer.remaining) * SECOND <= quiet + d

PaceInv ==
    /\ ready => credit = 0
    /\ ~Started => quiet = 0
    /\ \A d \in Delays : work_q["checkIfCanSend"][d] > 0 => d <= interval
    /\ ~ready => \A d \in Delays :
           d > 0 /\ work_q["checkIfCanSend"][d] > 0 => quiet + d <= interval

(* Where the jobs of a chain are after one of them ran and scheduled itself *)
(* again: at the new delay alone.                                           *)
LEMMA AfterReschedule ==
    ASSUME TypeOK, NEW j \in Jobs, NEW d \in Delays,
           AtMostOne(work_q, j), Runnable(work_q, j)
    PROVE  /\ \A e \in Delays : ~(Take(work_q, j)[j][e] > 0)
           /\ \A e \in Delays : Reschedule(j, d)[j][e] > 0 => e = d
           /\ \A k \in Jobs : k # j => /\ Take(work_q, j)[k] = work_q[k]
                                      /\ Reschedule(j, d)[k] = work_q[k]
  <1> DEFINE t == Take(work_q, j)
  <1>1. work_q \in Queues(Jobs, Delays) /\ 0 \in Delays
    BY DelayTypes DEF TypeOK
  <1>2. t \in Queues(Jobs, Delays) /\ ~Pending(t, j)
    BY <1>1, TakeType, TakeOne
  <1>3. \A e \in Delays : ~(t[j][e] > 0)
    BY <1>2 DEF Pending, Queues
  <1>4. \A k \in Jobs : k # j => t[k] = work_q[k]
    BY <1>1, OtherChains
  <1> HIDE DEF t
  <1>5. \A e \in Delays : Schedule(t, j, d)[j][e] > 0 => e = d
    BY <1>2, <1>3, ScheduleCells
  <1>6. \A k \in Jobs : k # j => Schedule(t, j, d)[k] = t[k]
    BY <1>1, <1>2, OtherChains
  <1> QED BY <1>3, <1>4, <1>5, <1>6 DEF t, Reschedule

(* A second is at least one tick, so products with SECOND keep an order.    *)
LEMMA Seconds ==
    ASSUME NEW n \in Int, NEW m \in Int
    PROVE  /\ n * SECOND \in Int
           /\ (n + 1) * SECOND = n * SECOND + SECOND
           /\ n <= m => n * SECOND <= m * SECOND
           /\ 0 * SECOND = 0
  <1>1. SECOND \in Int /\ SECOND >= 1 BY DelayAssumption
  <1> QED BY <1>1

(* The ticks between the last send and now account for every second the     *)
(* countdown has taken off the timer.                                       *)
THEOREM PatientCorrect == Spec => []PatientInv
  <1>1. Init => PatientInv BY DEF Init, NoJobs, PatientInv, Jobs, Delays
  <1>2. TypeInv /\ ChainInv /\ PatientInv /\ [Next]_vars => PatientInv'
    <2> SUFFICES ASSUME TypeInv, ChainInv, PatientInv, [Next]_vars,
                        conf'.timeout >= 0, NEW d \in Delays,
                        work_q'["timerEvent"][d] > 0
                 PROVE  (conf'.timeout - timer'.remaining) * SECOND <= quiet' + d
      BY DEF PatientInv
    <2>t. TypeOK /\ ConfInv BY DEF TypeInv
    <2>q. work_q \in Queues(Jobs, Delays) BY <2>t DEF TypeOK
    <2>c. conf' = conf
      BY DEF Next, vars, on_container_start, timerEvent, checkIfCanSend,
             on_sendable, on_tracker_accept, on_tracker_reject,
             on_tracker_release, ConnectionOpens, on_connection_close,
             on_connection_error, TransportCloses, on_transport_close,
             on_transport_error, on_error, RunReturns, Tick, Exited, Exit,
             options
    <2> DEFINE T == conf.timeout
               r == timer.remaining
               old(e) == work_q["timerEvent"][e] > 0
    <2>i. /\ T \in Nat /\ r \in 0..T /\ quiet \in Nat /\ d \in Nat
          /\ SECOND \in Nat /\ timer.timeout = T
      BY <2>t, <2>c, DelayAssumption
      DEF TypeOK, Confs, Timers, ChainInv, CountdownInv, Delays
    <2>o. \A e \in Delays : old(e) => (T - r) * SECOND <= quiet + e
      BY <2>i DEF PatientInv
    <2>s. (T - r) * SECOND \in Int /\ (T - r) * SECOND <= T * SECOND
      BY <2>i, Seconds
    <2>k. ASSUME quiet' = quiet, timer' = timer, work_q'["timerEvent"] = work_q["timerEvent"]
          PROVE  (conf'.timeout - timer'.remaining) * SECOND <= quiet' + d
      BY <2>c, <2>o, <2>k
    <2>r. ASSUME timer' = Reset(timer), quiet' = 0
          PROVE  (conf'.timeout - timer'.remaining) * SECOND <= quiet' + d
      <3>1. timer'.remaining = T BY <2>i, <2>r, <2>t DEF Reset, TypeOK, Timers
      <3>2. (T - T) * SECOND = 0 BY <2>i, Seconds
      <3> QED BY <2>c, <2>i, <2>r, <3>1, <3>2
    <2>e. ASSUME NEW code, Exit(code)
          PROVE  (conf'.timeout - timer'.remaining) * SECOND <= quiet' + d
      BY <2>e, <2>k DEF Exit
    <2>1. CASE on_container_start
      <3>1. ASSUME UNCHANGED <<timer, quiet>>, ~Started
            PROVE  (conf'.timeout - timer'.remaining) * SECOND <= quiet' + d
        <4>1. r = T
          BY <2>i, <3>1 DEF ChainInv
        <4>2. (T - T) * SECOND = 0 BY <2>i, Seconds
        <4> QED BY <2>c, <2>i, <3>1, <4>1, <4>2
      <3> QED BY <2>1, <2>e, <3>1 DEF on_container_start, progress, Started
    <2>2. CASE timerEvent
      <3>1. CASE ~Exit("success")
        <4>1. /\ timer' = Decrement(timer) /\ ~IsExpired(timer)
              /\ quiet' = quiet /\ Runnable(work_q, "timerEvent")
              /\ work_q' = IF DecrementThrows(timer)
                           THEN Take(work_q, "timerEvent")
                           ELSE Reschedule("timerEvent", SECOND)
          BY <2>2, <3>1 DEF timerEvent
        <4>2. AtMostOne(work_q, "timerEvent")
          BY DEF ChainInv, ChainsAlive, Jobs
        <4>3. d = SECOND
          BY <2>t, <4>1, <4>2, AfterReschedule, DelayTypes DEF Jobs
        <4>4. (T - r) * SECOND <= quiet + 0
          BY <2>o, <4>1, DelayTypes DEF Runnable
        <4>5. timer'.remaining = r - 1
          BY <2>t, <2>i, <4>1 DEF Decrement, TypeOK, Timers, FOREVER
        <4>6. ((T - r) + 1) * SECOND = (T - r) * SECOND + SECOND
          BY <2>i, Seconds
        <4>7. T - (r - 1) = (T - r) + 1 BY <2>i
        <4> QED BY <2>c, <2>i, <2>s, <4>1, <4>3, <4>4, <4>5, <4>6, <4>7
      <3> QED BY <2>e, <3>1
    <2>3. CASE checkIfCanSend
      <3>1. Runnable(work_q, "checkIfCanSend") /\ interval \in Delays
        BY <2>3, <2>t DEF checkIfCanSend, TypeOK
      <3>2. AtMostOne(work_q, "checkIfCanSend")
        BY DEF ChainInv, ChainsAlive, Jobs
      <3>3. work_q'["timerEvent"] = work_q["timerEvent"]
        BY <2>3, <2>t, <3>1, <3>2, AfterReschedule DEF checkIfCanSend, Jobs
      <3> QED BY <2>3, <2>k, <2>r, <3>3 DEF checkIfCanSend, send, progress
    <2>4. ASSUME NEW c \in 0..MaxCredit, on_sendable(c)
          PROVE  (conf'.timeout - timer'.remaining) * SECOND <= quiet' + d
      BY <2>4, <2>k, <2>r DEF on_sendable, send, progress
    <2>5. CASE on_tracker_accept
      BY <2>5, <2>k DEF on_tracker_accept, progress
    <2>6. CASE on_tracker_reject BY <2>6, <2>e DEF on_tracker_reject
    <2>7. CASE on_tracker_release
      BY <2>7, <2>k DEF on_tracker_release, progress
    <2>8. CASE ConnectionOpens BY <2>8, <2>k DEF ConnectionOpens, progress
    <2>9. CASE on_connection_close
      BY <2>9, <2>k DEF on_connection_close, progress
    <2>10. ASSUME NEW u \in BOOLEAN, on_connection_error(u)
           PROVE  (conf'.timeout - timer'.remaining) * SECOND <= quiet' + d
      BY <2>10, <2>k, <2>e DEF on_connection_error, progress
    <2>11. CASE TransportCloses
      BY <2>11, <2>k, <2>e DEF TransportCloses, on_transport_close, progress
    <2>12. ASSUME NEW u \in BOOLEAN, on_transport_error(u)
           PROVE  (conf'.timeout - timer'.remaining) * SECOND <= quiet' + d
      BY <2>12, <2>k, <2>e
      DEF on_transport_error, on_transport_close, progress
    <2>13. CASE RunReturns \/ on_error
      BY <2>13, <2>e DEF RunReturns, on_error
    <2>14. CASE Tick
      <3>1. work_q' = Elapse(work_q) /\ timer' = timer BY <2>14 DEF Tick
      <3>2. /\ quiet' = IF quiet < T * SECOND THEN quiet + 1 ELSE quiet
        BY <2>14 DEF Tick
      <3>m. T * SECOND \in Int BY <2>i, Seconds
      <3>3. \/ d + 1 \in Delays /\ old(d + 1)
            \/ d = 0 /\ old(0)
        <4>1. work_q'["timerEvent"][d]
                  = (IF d + 1 \in Delays THEN work_q["timerEvent"][d + 1] ELSE 0)
                    + (IF d = 0 THEN work_q["timerEvent"][0] ELSE 0)
          BY <2>q, <3>1, ElapseCells DEF Jobs
        <4>2. \A e \in Delays : work_q["timerEvent"][e] \in Nat
          BY <2>q DEF Queues, Jobs
        <4> QED BY <4>1, <4>2, DelayTypes
      <3>4. \/ (T - r) * SECOND <= quiet + (d + 1)
            \/ d = 0 /\ (T - r) * SECOND <= quiet + 0
        BY <2>o, <3>3, DelayTypes
      <3>5. (T - r) * SECOND <= quiet' + d
        BY <2>i, <2>s, <3>2, <3>m, <3>4
      <3> QED BY <2>c, <3>1, <3>5
    <2>15. CASE UNCHANGED vars BY <2>15, <2>k DEF vars
    <2> QED BY <2>1, <2>2, <2>3, <2>4, <2>5, <2>6, <2>7, <2>8, <2>9, <2>10,
               <2>11, <2>12, <2>13, <2>14, <2>15 DEF Next, Exited
  <1> QED BY <1>1, <1>2, TypeInvCorrect, ChainsCorrect, PTL DEF Spec

(* PatientTimer, whatever the timeout and the length of a tick.             *)
THEOREM PatientTimerCorrect == Spec => []PatientTimer
  <1>1. TypeInv /\ ChainInv /\ PatientInv => PatientTimer
    <2> SUFFICES ASSUME TypeInv, ChainInv, PatientInv,
                        Runnable(work_q, "timerEvent"), IsExpired(timer)
                 PROVE  quiet >= conf.timeout * SECOND
      BY DEF PatientTimer
    <2>1. /\ quiet \in Nat /\ conf.timeout \in Int /\ timer.remaining = 0
          /\ timer.timeout = conf.timeout /\ 0 \in Delays
      BY DelayTypes
      DEF TypeInv, TypeOK, Confs, IsExpired, ChainInv, CountdownInv
    <2>2. CASE conf.timeout >= 0
      <3>1. (conf.timeout - 0) * SECOND <= quiet + 0
        BY <2>1, <2>2 DEF PatientInv, Runnable
      <3> QED BY <2>1, <3>1
    <2>3. CASE conf.timeout < 0
      BY <2>1, <2>3, Seconds
    <2> QED BY <2>1, <2>2, <2>3
  <1> QED BY <1>1, TypeInvCorrect, ChainsCorrect, PatientCorrect, PTL

(* The next slot of checkIfCanSend is never more than `interval' after the  *)
(* last send, unless the polling is waiting for credit.                     *)
THEOREM PaceCorrect == Spec => []PaceInv
  <1> DEFINE poll == "checkIfCanSend"
             Due == \A d \in Delays : work_q[poll][d] > 0 => d <= interval
             Slot == \A d \in Delays :
                        d > 0 /\ work_q[poll][d] > 0 => quiet + d <= interval
  <1>1. Init => PaceInv
    BY DEF Init, NoJobs, PaceInv, Jobs, Delays, Started
  <1>2. TypeInv /\ ChainInv /\ PaceInv /\ [Next]_vars => PaceInv'
    <2> SUFFICES ASSUME TypeInv, ChainInv, PaceInv, [Next]_vars PROVE PaceInv'
      OBVIOUS
    <2>t. TypeOK /\ ConfInv BY DEF TypeInv
    <2>q. work_q \in Queues(Jobs, Delays) BY <2>t DEF TypeOK
    <2>i. quiet \in Nat /\ interval \in Delays /\ interval \in Nat
      BY <2>t DEF TypeOK, Delays
    <2>d. Due /\ (~ready => Slot) BY DEF PaceInv
    <2>k. ASSUME ready' = ready, quiet' = quiet, interval' = interval,
                 credit' = credit \/ credit' = 0, Started' <=> Started,
                 work_q'[poll] = work_q[poll]
          PROVE  PaceInv'
      BY <2>k DEF PaceInv
    <2>r. ASSUME ready' = FALSE, quiet' = 0, interval' = interval, Due'
          PROVE  PaceInv'
      <3>1. Slot'
        <4> SUFFICES ASSUME NEW d \in Delays, work_q'[poll][d] > 0
                     PROVE  quiet' + d <= interval'
          OBVIOUS
        <4>1. d \in Nat /\ d <= interval' BY <2>r DEF Delays
        <4> QED BY <2>r, <4>1
      <3> QED BY <2>r, <3>1 DEF PaceInv
    <2>e. ASSUME NEW code, Exit(code) PROVE PaceInv'
      BY <2>e, <2>k DEF Exit, Started
    <2>1. CASE on_container_start
      <3>1. CASE ~Exit("failure")
        <4> DEFINE first == IF conf.duration_time > 0
                               /\ conf.duration_mode = "before-send"
                            THEN IntervalOf(conf) ELSE IMMEDIATE
                   q == Schedule(work_q, "timerEvent", IMMEDIATE)
        <4>1. /\ work_q' = Schedule(q, poll, first)
              /\ interval' = IntervalOf(conf)
              /\ ready' = ready /\ quiet' = quiet /\ credit' = credit
              /\ ~Started /\ Started'
          BY <2>1, <3>1 DEF on_container_start, progress, Started
        <4>2. /\ first \in Delays /\ IMMEDIATE \in Delays /\ first \in Nat
              /\ IntervalOf(conf) \in Nat
          BY <2>t, ConfTypes, DelayTypes DEF IMMEDIATE, Delays
        <4>3. first <= IntervalOf(conf)
          BY <4>2 DEF IMMEDIATE
        <4> HIDE DEF first
        <4>4. q \in Queues(Jobs, Delays) /\ q[poll] = work_q[poll]
          BY <2>q, <4>2, ScheduleType, OtherChains, DelayTypes DEF Jobs
        <4>5. \A d \in Delays : ~(work_q[poll][d] > 0)
          BY <2>q, <4>1 DEF ChainInv, Pending, Queues, Jobs
        <4> HIDE DEF q
        <4>6. \A d \in Delays : work_q'[poll][d] > 0 => d = first
          <5>1. \A d \in Delays : d # first => work_q'[poll][d] = q[poll][d]
            BY <4>1, <4>2, <4>4, ScheduleCells DEF Jobs
          <5> QED BY <4>4, <4>5, <5>1
        <4>7. Due' BY <4>1, <4>3, <4>6
        <4>8. quiet' = 0 BY <4>1 DEF PaceInv
        <4>9. Slot'
          <5> SUFFICES ASSUME NEW d \in Delays, work_q'[poll][d] > 0
                       PROVE  quiet' + d <= interval'
            OBVIOUS
          <5> QED BY <4>1, <4>2, <4>3, <4>6, <4>8
        <4> QED BY <4>1, <4>7, <4>9 DEF PaceInv
      <3> QED BY <2>e, <3>1
    <2>2. CASE timerEvent
      <3>1. CASE ~Exit("success")
        <4>1. /\ work_q' = IF DecrementThrows(timer)
                           THEN Take(work_q, "timerEvent")
                           ELSE Reschedule("timerEvent", SECOND)
              /\ Runnable(work_q, "timerEvent")
              /\ UNCHANGED <<ready, quiet, interval, credit, conn>>
          BY <2>2, <3>1 DEF timerEvent, options
        <4>2. AtMostOne(work_q, "timerEvent")
          BY DEF ChainInv, ChainsAlive, Jobs
        <4>3. work_q'[poll] = work_q[poll]
          BY <2>t, <4>1, <4>2, AfterReschedule, DelayTypes DEF Jobs
        <4> QED BY <2>k, <4>1, <4>3 DEF Started
      <3> QED BY <2>e, <3>1
    <2>3. CASE checkIfCanSend
      <3>1. Runnable(work_q, poll) /\ interval' = interval /\ conn' = conn
        BY <2>3 DEF checkIfCanSend, options
      <3>2. AtMostOne(work_q, poll) BY DEF ChainInv, ChainsAlive, Jobs
      <3>3. /\ \A d \in Delays : ~(Take(work_q, poll)[poll][d] > 0)
            /\ \A d \in Delays :
                  Reschedule(poll, interval)[poll][d] > 0 => d = interval
        BY <2>t, <2>i, <3>1, <3>2, AfterReschedule DEF Jobs
      <3>4. /\ \A d \in Delays : work_q'[poll][d] > 0 => d = interval
            /\ ~MoreToSend => \A d \in Delays : ~(work_q'[poll][d] > 0)
        BY <2>3, <3>3 DEF checkIfCanSend
      <3>5. Due' BY <2>i, <3>1, <3>4
      <3>6. Started
        <4>1. Pending(work_q, poll)
          BY <2>q, <3>1, DelayTypes DEF Runnable, Pending, Queues, Jobs
        <4> QED BY <4>1 DEF ChainInv, Jobs
      <3>7. CASE MoreToSend /\ credit > 0
        <4>1. ~(credit = 0) BY <3>7
        <4>2. send(credit) BY <2>3, <3>7, <4>1 DEF checkIfCanSend
        <4>3. ready' = FALSE /\ quiet' = 0 BY <4>2 DEF send
        <4> QED BY <2>r, <3>1, <3>5, <4>3
      <3>8. CASE MoreToSend /\ ~(credit > 0)
        <4>1. ready' = TRUE /\ credit' = credit /\ credit = 0
          BY <2>3, <3>8 DEF checkIfCanSend
        <4> QED BY <3>1, <3>5, <3>6, <4>1 DEF PaceInv, Started
      <3>9. CASE ~MoreToSend
        <4>1. UNCHANGED <<ready, quiet, credit>>
          BY <2>3, <3>9 DEF checkIfCanSend, progress
        <4> QED BY <3>1, <3>4, <3>5, <3>6, <3>9, <4>1 DEF PaceInv, Started
      <3> QED BY <3>7, <3>8, <3>9
    <2>4. ASSUME NEW c \in 0..MaxCredit, on_sendable(c) PROVE PaceInv'
      <3>1. work_q' = work_q /\ interval' = interval /\ conn' = conn
        BY <2>4 DEF on_sendable, options
      <3>2. CASE ready /\ c > 0
        BY <2>4, <2>d, <2>r, <3>1, <3>2 DEF on_sendable, send
      <3>3. CASE ~(ready /\ c > 0)
        <4>1. UNCHANGED <<ready, quiet>> /\ credit' = c
          BY <2>4, <3>3 DEF on_sendable, progress
        <4>2. ready' => credit' = 0 BY <3>3, <4>1
        <4> QED BY <3>1, <4>1, <4>2 DEF PaceInv, Started
      <3> QED BY <3>2, <3>3
    <2>5. CASE on_tracker_accept
      BY <2>5, <2>k DEF on_tracker_accept, progress, options, Started
    <2>6. CASE on_tracker_reject BY <2>6, <2>e DEF on_tracker_reject
    <2>7. CASE on_tracker_release
      BY <2>7, <2>k DEF on_tracker_release, progress, options, Started
    <2>8. CASE ConnectionOpens
      BY <2>8, <2>k DEF ConnectionOpens, progress, options, Started
    <2>9. CASE on_connection_close
      BY <2>9, <2>k DEF on_connection_close, progress, options, Started
    <2>10. ASSUME NEW u \in BOOLEAN, on_connection_error(u) PROVE PaceInv'
      BY <2>10, <2>k, <2>e
      DEF on_connection_error, progress, options, Started
    <2>11. CASE TransportCloses
      BY <2>11, <2>k, <2>e
      DEF TransportCloses, on_transport_close, LinkLost, progress, options,
          Started
    <2>12. ASSUME NEW u \in BOOLEAN, on_transport_error(u) PROVE PaceInv'
      BY <2>12, <2>k, <2>e
      DEF on_transport_error, on_transport_close, LinkLost, progress, options,
          Started
    <2>13. CASE RunReturns \/ on_error
      BY <2>13, <2>e DEF RunReturns, on_error
    <2>14. CASE Tick
      <3>1. /\ work_q' = Elapse(work_q)
            /\ UNCHANGED <<ready, interval, credit, conn>>
            /\ quiet' = quiet + 1 \/ quiet' = quiet
        BY <2>14 DEF Tick, options
      <3>2. \A d \in Delays : work_q'[poll][d] > 0 =>
               \/ d + 1 \in Delays /\ work_q[poll][d + 1] > 0
               \/ d = 0
        <4>1. \A d \in Delays : work_q'[poll][d]
                  = (IF d + 1 \in Delays THEN work_q[poll][d + 1] ELSE 0)
                    + (IF d = 0 THEN work_q[poll][0] ELSE 0)
          BY <2>q, <3>1, ElapseCells DEF Jobs
        <4>2. \A d \in Delays : work_q[poll][d] \in Nat
          BY <2>q DEF Queues, Jobs
        <4> QED BY <4>1, <4>2, DelayTypes
      <3>3. \A d \in Delays : d \in Nat BY DEF Delays
      <3>4. Due'
        <4> SUFFICES ASSUME NEW d \in Delays, work_q'[poll][d] > 0
                     PROVE  d <= interval'
          OBVIOUS
        <4>1. CASE d = 0 BY <2>i, <3>1, <4>1
        <4>2. CASE d # 0
          <5>1. d + 1 \in Delays /\ d \in Nat /\ d + 1 <= interval
            BY <2>d, <3>2, <3>3, <4>2
          <5> QED BY <2>i, <3>1, <5>1
        <4> QED BY <4>1, <4>2
      <3>5. ~ready => Slot'
        <4> SUFFICES ASSUME ~ready, NEW d \in Delays, d > 0,
                            work_q'[poll][d] > 0
                     PROVE  quiet' + d <= interval'
          OBVIOUS
        <4>1. d + 1 \in Delays /\ work_q[poll][d + 1] > 0 /\ d \in Nat
          BY <3>2, <3>3
        <4>2. quiet + (d + 1) <= interval BY <2>d, <3>3, <4>1
        <4> QED BY <2>i, <3>1, <4>1, <4>2
      <3>6. Started
        <4>1. PICK j \in Jobs : \E d \in Delays : work_q[j][d] > 0
          BY <2>14, <2>q DEF Tick, Waiting, Queues
        <4>2. Pending(work_q, j) BY <2>q, <4>1 DEF Pending, Queues
        <4> QED BY <4>2 DEF ChainInv
      <3> QED BY <3>1, <3>4, <3>5, <3>6 DEF PaceInv, Started
    <2>15. CASE UNCHANGED vars BY <2>15, <2>k DEF vars, Started
    <2> QED BY <2>1, <2>2, <2>3, <2>4, <2>5, <2>6, <2>7, <2>8, <2>9, <2>10,
               <2>11, <2>12, <2>13, <2>14, <2>15 DEF Next, Exited
  <1> QED BY <1>1, <1>2, TypeInvCorrect, ChainsCorrect, PTL DEF Spec

(* PacingFitsTimeout: a client that is waiting for its slot has been quiet  *)
(* for less than a slot, an expired countdown for the whole timeout.        *)
THEOREM PacingFitsTimeoutCorrect == Spec => []PacingFitsTimeout
  <1>1. TypeInv /\ ChainInv /\ PatientTimer /\ PaceInv => PacingFitsTimeout
    <2> SUFFICES ASSUME TypeInv, ChainInv, PatientTimer, PaceInv,
                        interval <= conf.timeout * SECOND,
                        TimesOutWhilePacing
                 PROVE  FALSE
      BY DEF PacingFitsTimeout
    <2>1. /\ quiet \in Nat /\ interval \in Nat /\ conf.timeout * SECOND \in Int
          /\ work_q \in Queues(Jobs, Delays)
      BY Seconds DEF TypeInv, TypeOK, Confs, Delays
    <2>2. quiet >= conf.timeout * SECOND
      BY DEF TimesOutWhilePacing, PatientTimer
    <2>3. Pending(work_q, "checkIfCanSend")
      <3>1. Runnable(work_q, "timerEvent") /\ Running /\ sent < conf.count
        BY DEF TimesOutWhilePacing
      <3>2. Pending(work_q, "timerEvent")
        BY <2>1, <3>1, DelayTypes DEF Runnable, Pending, Queues, Jobs
      <3>3. Started BY <3>2 DEF ChainInv, Jobs
      <3> QED BY <3>1, <3>3 DEF ChainInv, ChainsAlive
    <2>4. PICK d \in Delays : work_q["checkIfCanSend"][d] > 0
      BY <2>1, <2>3 DEF Pending, Queues, Jobs
    <2>5. d \in Nat /\ d > 0
      BY <2>4 DEF TimesOutWhilePacing, Runnable, Delays
    <2>6. ~ready BY DEF TimesOutWhilePacing, PaceInv
    <2>7. quiet + d <= interval BY <2>4, <2>5, <2>6 DEF PaceInv
    <2> QED BY <2>1, <2>2, <2>5, <2>7
  <1> QED BY <1>1, TypeInvCorrect, ChainsCorrect, PatientTimerCorrect,
             PaceCorrect, PTL
=============================================================================
