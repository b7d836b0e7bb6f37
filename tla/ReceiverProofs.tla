--------------------------- MODULE ReceiverProofs ---------------------------
(***************************************************************************)
(* Theorems about the receiver, for every set of command lines, peers,     *)
(* messages, window, tick and delay.                                       *)
(***************************************************************************)
EXTENDS Receiver, TimingProofs

(* The constants: the jobs and the delays they are scheduled with.          *)
LEMMA JobTypes == /\ 0 \in Delays /\ IMMEDIATE \in Delays
                  /\ SECOND \in Delays /\ SECOND \in Nat \ {0}
                  /\ MaxDelay \in Nat
                  /\ "timerEvent" \in Jobs /\ "drain" \in Jobs
  BY SecondAssumption DEF Delays, Jobs, IMMEDIATE

(* The credit window is a number of messages.                               *)
LEMMA WindowType == conf \in Confs => Window \in Nat
  BY WindowAssumption DEF Window, Confs

(* A job that runs and schedules itself again leaves a queue, and so does   *)
(* one that does not.                                                       *)
LEMMA RescheduleType ==
    ASSUME work_q \in Queues(Jobs, Delays), NEW j \in Jobs, NEW d \in Delays,
           Runnable(work_q, j)
    PROVE  /\ Take(work_q, j) \in Queues(Jobs, Delays)
           /\ Reschedule(j, d) \in Queues(Jobs, Delays)
  <1>1. Take(work_q, j) \in Queues(Jobs, Delays) BY TakeType, JobTypes
  <1> QED BY <1>1, ScheduleType DEF Reschedule

(* conf is what run() read, and stays it.                                   *)
LEMMA ConfConstant == [Next]_vars => conf' = conf
  BY DEF Next, vars, on_container_start, timerEvent, drain, on_message,
         HandleMessage, Arrives, ConnectionOpens, PeerConnects,
         on_connection_close, ConnectionEnds, on_connection_error,
         TransportCloses, on_transport_close, on_transport_error, on_error,
         RunReturns, Tick, Exited, Exit

(* The end of the process.                                                  *)
LEMMA ExitType ==
    ASSUME TypeOK, NEW code \in {"success", "failure", "crashed"}, Exit(code)
    PROVE  TypeOK'
  BY DEF TypeOK, Exit, handled

(* The message is counted, and none is acted on that was not.               *)
LEMMA MessageType ==
    ASSUME TypeOK, NEW p \in Peers, NEW m \in Messages, on_message(p, m)
    PROVE  TypeOK'
  <1> USE DEF TypeOK
  <1>1. /\ msg_received_cnt' = msg_received_cnt + 1
        /\ incoming' = [incoming EXCEPT ![p] = @ - 1]
        /\ incoming[p] > 0
        /\ quiet' = 0
        /\ UNCHANGED <<conf, started>>
    BY DEF on_message
  <1>2. msg_received_cnt' \in Nat BY <1>1
  <1>3. incoming' \in [Peers -> Nat]
    <2>1. incoming[p] - 1 \in Nat BY <1>1
    <2> QED BY <1>1, <2>1
  <1>4. acted' \in 0..msg_received_cnt'
    <2>1. acted' = acted \/ acted' = acted + 1
      BY DEF on_message, HandleMessage, do_message_action
    <2> QED BY <1>1, <2>1
  <1>5. CASE UNCHANGED <<timer, senders, work_q, conn, link>>
             /\ status' \in {"failure", "crashed"}
    BY <1>1, <1>2, <1>3, <1>4, <1>5
  <1>6. CASE HandleMessage(p, m, msg_received_cnt')
    <2>1. timer' \in Timers
      BY <1>6, ResetFacts DEF HandleMessage, ResetTimer
    <2>2. senders' \subseteq ReplyTos
      BY <1>6 DEF HandleMessage, do_process_reply_to, Replies, Messages
    <2>3. work_q' \in Queues(Jobs, Delays)
      BY <1>6, ScheduleType, JobTypes DEF HandleMessage
    <2>4. conn' \in [Peers -> ConnStates] /\ link' \in [Peers -> LinkStates]
      BY <1>6 DEF HandleMessage, ConnStates, LinkStates
    <2>5. status' = status BY <1>6 DEF HandleMessage
    <2> QED BY <1>1, <1>2, <1>3, <1>4, <2>1, <2>2, <2>3, <2>4, <2>5
  <1>7. \/ UNCHANGED <<timer, senders, work_q, conn, link>>
           /\ status' \in {"failure", "crashed"}
        \/ HandleMessage(p, m, msg_received_cnt')
    BY DEF on_message
  <1> QED BY <1>5, <1>6, <1>7

(* TypeOK: the fields of ReceiverHandler keep their types.                  *)
THEOREM TypeCorrect == Spec => []TypeOK
  <1>1. Init => TypeOK
    <2> SUFFICES ASSUME Init PROVE TypeOK OBVIOUS
    <2>1. conf \in Confs BY CommandLinesAssumption DEF Init
    <2>2. timer \in Timers BY <2>1, NewTimerFacts DEF Init, Confs
    <2>3. work_q \in Queues(Jobs, Delays) BY DEF Init, NoJobs, Queues
    <2>4. /\ conn \in [Peers -> ConnStates]
          /\ link \in [Peers -> LinkStates]
          /\ incoming \in [Peers -> Nat]
      BY DEF Init, ConnStates, LinkStates
    <2>5. acted \in 0..msg_received_cnt BY DEF Init
    <2> QED BY <2>1, <2>2, <2>3, <2>4, <2>5 DEF Init, TypeOK
  <1>2. TypeOK /\ [Next]_vars => TypeOK'
    <2> SUFFICES ASSUME TypeOK, [Next]_vars PROVE TypeOK' OBVIOUS
    <2>1. CASE on_container_start
      <3>1. CASE \E code \in {"failure", "crashed"} : Exit(code)
        BY <3>1, ExitType
      <3>2. CASE ~\E code \in {"failure", "crashed"} : Exit(code)
        <4>1. work_q' \in Queues(Jobs, Delays)
          BY <2>1, <3>2, ScheduleType, JobTypes DEF on_container_start, TypeOK
        <4>2. conn' \in [Peers -> ConnStates] /\ link' \in [Peers -> LinkStates]
          BY <2>1, <3>2, PeersAssumption
          DEF on_container_start, TypeOK, ConnStates, LinkStates, ConnAtStart
        <4> QED BY <2>1, <3>2, <4>1, <4>2
                DEF on_container_start, TypeOK, handled
      <3> QED BY <3>1, <3>2
    <2>2. CASE timerEvent
      <3>1. CASE Exit("success") BY <3>1, ExitType
      <3>2. CASE ~Exit("success")
        <4>1. timer' \in Timers
          BY <2>2, <3>2, DecrementFacts DEF timerEvent, TypeOK
        <4>2. work_q' \in Queues(Jobs, Delays)
          BY <2>2, <3>2, RescheduleType, JobTypes DEF timerEvent, TypeOK
        <4> QED BY <2>2, <3>2, <4>1, <4>2 DEF timerEvent, TypeOK
      <3> QED BY <3>1, <3>2
    <2>3. CASE drain
      <3>1. CASE Exit("crashed") BY <3>1, ExitType
      <3>2. CASE ~Exit("crashed")
        <4>1. work_q' \in Queues(Jobs, Delays)
          BY <2>3, <3>2, RescheduleType, JobTypes DEF drain, TypeOK
        <4> QED BY <2>3, <3>2, <4>1 DEF drain, TypeOK, handled
      <3> QED BY <3>1, <3>2
    <2>4. ASSUME NEW p \in Peers, NEW m \in Messages, on_message(p, m)
          PROVE  TypeOK'
      BY <2>4, MessageType
    <2>5. ASSUME NEW p \in Peers, Arrives(p) PROVE TypeOK'
      BY <2>5 DEF Arrives, TypeOK, handled
    <2>6. ASSUME NEW p \in Peers, ConnectionOpens(p) PROVE TypeOK'
      BY <2>6 DEF ConnectionOpens, TypeOK, handled, ConnStates
    <2>7. ASSUME NEW p \in Peers, PeerConnects(p) PROVE TypeOK'
      BY <2>7 DEF PeerConnects, TypeOK, handled, ConnStates, LinkStates
    <2>8. ASSUME NEW p \in Peers, ConnectionEnds(p) PROVE TypeOK'
      BY <2>8 DEF ConnectionEnds, TypeOK, handled, ConnStates
    <2>9. ASSUME NEW p \in Peers, on_transport_close(p) PROVE TypeOK'
      <3>1. CASE \E code \in {"success", "failure"} : Exit(code)
        BY <3>1, ExitType
      <3>2. CASE ~\E code \in {"success", "failure"} : Exit(code)
        BY <2>9, <3>2 DEF on_transport_close, TypeOK, handled, ConnStates
      <3> QED BY <3>1, <3>2
    <2>10. ASSUME NEW p \in Peers, NEW u \in BOOLEAN, on_transport_error(p, u)
           PROVE  TypeOK'
      <3>1. CASE Exit("failure") BY <3>1, ExitType
      <3>2. CASE on_transport_close(p) BY <2>9, <3>2
      <3>3. CASE ~Exit("failure") /\ ~on_transport_close(p)
        BY <2>10, <3>3 DEF on_transport_error, TypeOK, handled, ConnStates
      <3> QED BY <3>1, <3>2, <3>3
    <2>11. CASE Tick
      <3>1. work_q' \in Queues(Jobs, Delays)
        BY <2>11, ElapseType DEF Tick, TypeOK
      <3> QED BY <2>11, <3>1 DEF Tick, TypeOK
    <2>12. CASE UNCHANGED vars BY <2>12 DEF vars, TypeOK
    <2> QED BY <2>1, <2>2, <2>3, <2>4, <2>5, <2>6, <2>7, <2>8, <2>9, <2>10,
               <2>11, <2>12, ExitType
            DEF Next, on_connection_close, on_connection_error,
                TransportCloses, on_error, RunReturns, Exited
  <1> QED BY <1>1, <1>2, PTL DEF Spec
-----------------------------------------------------------------------------
(* The chains of jobs.  The countdown starts once; while it has not expired *)
(* something is left, so its decrement never throws.  A drain is scheduled  *)
(* at one count of messages, which comes only once.                         *)
ChainInv ==
    /\ timer.timeout = conf.timeout
    /\ WithinBounds(timer)
    /\ ~started => /\ timer.remaining = conf.timeout
                   /\ ~Pending(work_q, "timerEvent")
    /\ Pending(work_q, "drain") => msg_received_cnt >= conf.recv_credit_window
    /\ ChainsAlive

(* Every message resets the timer but the count-th.                         *)
TimerIsReset ==
    conf.process_reply_to \/ msg_received_cnt # conf.count
        \/ msg_received_cnt = 0

(* What the countdown has counted off is never more than the ticks since    *)
(* the last message, the rest of the running second included.               *)
PatientInv ==
    Running /\ conf.timeout >= 0 /\ TimerIsReset =>
        \A d \in Delays : work_q["timerEvent"][d] > 0
            => (conf.timeout - timer.remaining) * SECOND <= quiet + d

(* A client of a broker that counts its messages.                           *)
Limited == ~Listens /\ conf.count > 0 /\ ~conf.process_reply_to

(* Once it has its messages, its link is closed for good, or detached with  *)
(* the connection closing, so that what is still to come is in flight.      *)
Satisfied ==
    \/ /\ ~conf.durable_subscriber
       /\ msg_received_cnt = conf.count
       /\ link[Broker] = "closed"
    \/ /\ conf.durable_subscriber
       /\ link[Broker] = "detached"
       /\ conn[Broker] \notin {"none", "connecting", "open"}
       /\ msg_received_cnt + incoming[Broker] < conf.count + Window

CountInv ==
    /\ \A p \in Peers : ~started \/ (~Listens /\ p # Broker) => link[p] = "none"
    /\ ~started => msg_received_cnt = 0
    /\ \A p \in Peers : incoming[p] <= Window
    /\ Limited /\ Running => msg_received_cnt < conf.count \/ Satisfied
    /\ NeverOverreceives
-----------------------------------------------------------------------------
(* A step that leaves the queue alone keeps the chains, if it leaves the    *)
(* timer alone or resets it.                                                *)
LEMMA KeepChains ==
    ASSUME TypeOK, ChainInv, UNCHANGED <<conf, work_q>>,
           timer' = timer \/ timer' = Reset(timer),
           Running' => Running, started' = started,
           msg_received_cnt' \in {msg_received_cnt, msg_received_cnt + 1}
    PROVE  ChainInv'
  <1>1. /\ timer'.timeout = conf'.timeout
        /\ WithinBounds(timer')
        /\ ~started' => timer'.remaining = conf'.timeout
    BY ResetFacts DEF ChainInv, TypeOK
  <1>2. ChainsAlive' BY DEF ChainInv, ChainsAlive
  <1>3. Pending(work_q', "drain")
            => msg_received_cnt' >= conf'.recv_credit_window
    <2>1. msg_received_cnt \in Int /\ conf.recv_credit_window \in Int
      BY DEF TypeOK, Confs
    <2>2. Pending(work_q, "drain")
              => msg_received_cnt >= conf.recv_credit_window
      BY DEF ChainInv
    <2> QED BY <2>1, <2>2
  <1> QED BY <1>1, <1>2, <1>3 DEF ChainInv

(* Nothing is asked of the chains once the process has ended.               *)
LEMMA ExitKeepsChains ==
    ASSUME TypeOK, ChainInv, NEW code, Exit(code), Running PROVE ChainInv'
  BY KeepChains DEF Exit, handled, TypeOK

(* timerEvent runs before the countdown can become negative, and is its     *)
(* only successor.                                                          *)
LEMMA TimerEventKeepsChains ==
    ASSUME TypeOK, ChainInv, timerEvent PROVE ChainInv'
  <1>1. CASE Exit("success")
    BY <1>1, ExitKeepsChains DEF timerEvent
  <1>2. CASE ~Exit("success")
    <2> DEFINE again == Schedule(Take(work_q, "timerEvent"), "timerEvent", SECOND)
               once == Take(work_q, "timerEvent")
    <2>1. /\ timer' = Decrement(timer) /\ ~IsExpired(timer)
          /\ Runnable(work_q, "timerEvent")
          /\ work_q' = IF DecrementThrows(timer) THEN once ELSE again
          /\ UNCHANGED <<conf, started, msg_received_cnt>>
          /\ Running
      BY <1>2 DEF timerEvent, Reschedule
    <2>2. timer \in Timers /\ work_q \in Queues(Jobs, Delays)
      BY DEF TypeOK
    <2>3. timer'.timeout = conf'.timeout /\ WithinBounds(timer')
      BY <2>1, <2>2, DecrementFacts DEF ChainInv
    <2>4. conf.timeout >= FOREVER => ~DecrementThrows(timer)
      BY <2>1, <2>2, NoThrow DEF ChainInv
    <2>5. AtMostOne(work_q, "timerEvent") /\ AtMostOne(work_q, "drain")
      BY DEF ChainInv, ChainsAlive, Jobs
    <2>6. started
      BY <2>1, <2>2, RunnableIsPending, JobTypes DEF ChainInv
    <2>7. /\ AtMostOne(again, "timerEvent") /\ Pending(again, "timerEvent")
          /\ again["drain"] = work_q["drain"]
      BY <2>1, <2>2, <2>5, RunAgain, JobTypes
    <2>8. once["drain"] = work_q["drain"]
      BY <2>2, OtherChains, JobTypes
    <2>9. ~Pending(once, "timerEvent")
      BY <2>1, <2>2, <2>5, TakeOne, JobTypes
    <2> HIDE DEF again, once
    <2>10. AtMostOne(once, "timerEvent") BY <2>9 DEF Pending, AtMostOne
    <2>11. /\ AtMostOne(work_q', "drain")
           /\ Pending(work_q', "drain") => Pending(work_q, "drain")
      BY <2>1, <2>5, <2>7, <2>8 DEF AtMostOne, Pending
    <2>12. /\ AtMostOne(work_q', "timerEvent")
           /\ conf.timeout >= FOREVER => Pending(work_q', "timerEvent")
      BY <2>1, <2>4, <2>7, <2>10
    <2>13. ChainsAlive' BY <2>1, <2>11, <2>12 DEF ChainsAlive, Jobs
    <2> QED BY <2>1, <2>3, <2>6, <2>11, <2>13 DEF ChainInv
  <1> QED BY <1>1, <1>2

(* Taking a drain that is due leaves the countdown alone.                   *)
LEMMA DrainKeepsChains ==
    ASSUME TypeOK, ChainInv, drain PROVE ChainInv'
  <1>1. CASE Exit("crashed") BY <1>1, ExitKeepsChains DEF drain
  <1>2. CASE ~Exit("crashed")
    <2> DEFINE once == Take(work_q, "drain")
    <2>1. /\ Runnable(work_q, "drain") /\ work_q' = once
          /\ UNCHANGED <<conf, timer, started, msg_received_cnt, status>>
      BY <1>2 DEF drain, handled
    <2>2. work_q \in Queues(Jobs, Delays) BY DEF TypeOK
    <2>3. AtMostOne(work_q, "timerEvent") /\ AtMostOne(work_q, "drain")
      BY DEF ChainInv, ChainsAlive, Jobs
    <2>4. once["timerEvent"] = work_q["timerEvent"]
      BY <2>2, OtherChains, JobTypes
    <2>5. ~Pending(once, "drain")
      BY <2>1, <2>2, <2>3, TakeOne, JobTypes
    <2> HIDE DEF once
    <2>6. AtMostOne(once, "drain") BY <2>5 DEF Pending, AtMostOne
    <2>7. /\ AtMostOne(once, "timerEvent")
          /\ Pending(once, "timerEvent") <=> Pending(work_q, "timerEvent")
      BY <2>3, <2>4 DEF AtMostOne, Pending
    <2>8. ChainsAlive'
      BY <2>1, <2>6, <2>7 DEF ChainsAlive, ChainInv, Jobs, Running
    <2> QED BY <2>1, <2>5, <2>7, <2>8 DEF ChainInv
  <1> QED BY <1>1, <1>2

(* A message may schedule a drain: at the count that equals the window, so  *)
(* before any other was.                                                    *)
LEMMA MessageKeepsChains ==
    ASSUME TypeOK, ChainInv, NEW p \in Peers, NEW m \in Messages,
           on_message(p, m)
    PROVE  ChainInv'
  <1>1. /\ msg_received_cnt' = msg_received_cnt + 1
        /\ UNCHANGED <<conf, started>>
        /\ Running /\ msg_received_cnt \in Nat
    BY DEF on_message, TypeOK
  <1>2. CASE UNCHANGED <<timer, work_q>>
    BY <1>1, <1>2, KeepChains
  <1>3. CASE HandleMessage(p, m, msg_received_cnt')
    <2> DEFINE s == Schedule(work_q, "drain", IMMEDIATE)
    <2>1. /\ work_q' = IF DrainDue(msg_received_cnt') THEN s ELSE work_q
          /\ timer' = timer \/ timer' = Reset(timer)
          /\ status' = status
      BY <1>3 DEF HandleMessage, ResetTimer
    <2>2. CASE ~DrainDue(msg_received_cnt')
      BY <1>1, <2>1, <2>2, KeepChains DEF Running
    <2>3. CASE DrainDue(msg_received_cnt')
      <3>1. work_q \in Queues(Jobs, Delays) BY DEF TypeOK
      <3>2. /\ msg_received_cnt' = conf.recv_credit_window
            /\ ~Pending(work_q, "drain")
        BY <1>1, <2>3 DEF DrainDue, ChainInv
      <3>3. AtMostOne(s, "drain")
        BY <3>1, <3>2, ScheduleOne, JobTypes
      <3>4. s["timerEvent"] = work_q["timerEvent"]
        BY <3>1, OtherChains, JobTypes
      <3> HIDE DEF s
      <3>5. /\ AtMostOne(work_q, "timerEvent") => AtMostOne(s, "timerEvent")
            /\ Pending(s, "timerEvent") <=> Pending(work_q, "timerEvent")
        BY <3>4 DEF AtMostOne, Pending
      <3>6. ChainsAlive'
        BY <1>1, <2>1, <2>3, <3>3, <3>5
        DEF ChainsAlive, ChainInv, Jobs, Running
      <3>7. /\ timer'.timeout = conf'.timeout /\ WithinBounds(timer')
            /\ ~started => timer'.remaining = conf'.timeout
        BY <1>1, <2>1, ResetFacts DEF ChainInv, TypeOK
      <3>8. msg_received_cnt' >= conf'.recv_credit_window
        BY <1>1, <3>2
      <3> QED BY <1>1, <2>1, <2>3, <3>5, <3>6, <3>7, <3>8 DEF ChainInv
    <2> QED BY <2>2, <2>3
  <1> QED BY <1>2, <1>3 DEF on_message

(* One countdown, one drain, for good.                                      *)
THEOREM ChainsCorrect == Spec => []ChainInv
  <1>1. Init /\ TypeOK => ChainInv
    <2> SUFFICES ASSUME Init, TypeOK PROVE ChainInv OBVIOUS
    <2>1. /\ timer.timeout = conf.timeout /\ WithinBounds(timer)
          /\ timer.remaining = conf.timeout
      BY NewTimerFacts DEF Init, TypeOK, Confs
    <2>2. \A j \in Jobs : ~Pending(work_q, j) /\ AtMostOne(work_q, j)
      BY DEF Init, NoJobs, Pending, AtMostOne
    <2> QED BY <2>1, <2>2 DEF Init, ChainInv, ChainsAlive, Jobs
  <1>2. TypeOK /\ ChainInv /\ [Next]_vars => ChainInv'
    <2> SUFFICES ASSUME TypeOK, ChainInv, [Next]_vars PROVE ChainInv'
      OBVIOUS
    <2>k. ASSUME UNCHANGED <<conf, timer, work_q, started, msg_received_cnt>>,
                 Running' => Running
          PROVE  ChainInv'
      BY <2>k, KeepChains DEF TypeOK
    <2>e. ASSUME NEW code, Exit(code), Running PROVE ChainInv'
      BY <2>e, ExitKeepsChains
    <2>1. CASE on_container_start
      <3>1. CASE Exit("failure") \/ Exit("crashed")
        BY <2>1, <2>e, <3>1 DEF on_container_start
      <3>2. CASE ~(Exit("failure") \/ Exit("crashed"))
        <4> DEFINE s == Schedule(work_q, "timerEvent", IMMEDIATE)
        <4>1. /\ ~started /\ started'
              /\ work_q' = IF conf.unsubscribes THEN work_q ELSE s
              /\ UNCHANGED <<conf, timer, msg_received_cnt, status>>
          BY <2>1, <3>2 DEF on_container_start, handled
        <4>2. work_q \in Queues(Jobs, Delays) BY DEF TypeOK
        <4>3. AtMostOne(s, "timerEvent") /\ Pending(s, "timerEvent")
          BY <4>1, <4>2, ScheduleOne, JobTypes DEF ChainInv
        <4>4. s["drain"] = work_q["drain"]
          BY <4>2, OtherChains, JobTypes
        <4> HIDE DEF s
        <4>5. /\ AtMostOne(work_q, "drain") => AtMostOne(s, "drain")
              /\ Pending(s, "drain") => Pending(work_q, "drain")
          BY <4>4 DEF AtMostOne, Pending
        <4>6. ChainsAlive'
          BY <4>1, <4>3, <4>5 DEF ChainsAlive, ChainInv, Jobs
        <4> QED BY <4>1, <4>5, <4>6 DEF ChainInv
      <3> QED BY <3>1, <3>2
    <2>2. CASE timerEvent BY <2>2, TimerEventKeepsChains
    <2>3. CASE drain BY <2>3, DrainKeepsChains
    <2>4. ASSUME NEW p \in Peers, NEW m \in Messages, on_message(p, m)
          PROVE  ChainInv'
      BY <2>4, MessageKeepsChains
    <2>5. ASSUME NEW p \in Peers,
                 Arrives(p) \/ ConnectionOpens(p) \/ PeerConnects(p)
                     \/ ConnectionEnds(p)
          PROVE  ChainInv'
      BY <2>5, <2>k
      DEF Arrives, ConnectionOpens, PeerConnects, ConnectionEnds, handled,
          Running
    <2>6. ASSUME NEW p \in Peers, Running, on_transport_close(p)
          PROVE  ChainInv'
      BY <2>6, <2>e, <2>k DEF on_transport_close, handled, Running
    <2>7. ASSUME NEW p \in Peers, NEW u \in BOOLEAN, on_transport_error(p, u)
          PROVE  ChainInv'
      BY <2>7, <2>6, <2>e, <2>k DEF on_transport_error, handled, Running
    <2>8. CASE Tick
      <3>1. /\ work_q' = Elapse(work_q)
            /\ UNCHANGED <<conf, timer, msg_received_cnt, started, status>>
        BY <2>8 DEF Tick
      <3>2. work_q \in Queues(Jobs, 0..MaxDelay) BY DEF TypeOK, Delays
      <3>3. \A j \in Jobs :
               /\ AtMostOne(work_q, j) => AtMostOne(work_q', j)
               /\ Pending(work_q, j) => Pending(work_q', j)
               /\ Pending(work_q', j) => Pending(work_q, j)
        <4> SUFFICES ASSUME NEW j \in Jobs
                     PROVE  /\ AtMostOne(work_q, j) => AtMostOne(work_q', j)
                            /\ Pending(work_q, j) => Pending(work_q', j)
                            /\ Pending(work_q', j) => Pending(work_q, j)
          OBVIOUS
        <4>1. /\ AtMostOne(work_q, j) => AtMostOne(work_q', j)
              /\ Pending(work_q, j) => Pending(work_q', j)
          BY <3>1, <3>2, ElapseOne, JobTypes
        <4>2. ASSUME Pending(work_q', j) PROVE Pending(work_q, j)
          <5>1. /\ Elapse(work_q) \in Queues(Jobs, 0..MaxDelay)
                /\ DOMAIN work_q[j] = 0..MaxDelay
            BY <3>2, ElapseType DEF Queues
          <5>2. PICK d \in 0..MaxDelay : Elapse(work_q)[j][d] > 0
            BY <3>1, <4>2, <5>1 DEF Pending, Queues
          <5>3. \E e \in 0..MaxDelay : work_q[j][e] > 0
            BY <3>2, <5>2, ElapseFrom, JobTypes
          <5> QED BY <5>1, <5>3 DEF Pending
        <4> QED BY <4>1, <4>2
      <3>4. ChainsAlive'
        BY <3>1, <3>3 DEF ChainsAlive, ChainInv, Jobs, Running
      <3> QED BY <3>1, <3>3, <3>4 DEF ChainInv, Jobs
    <2>9. CASE UNCHANGED vars BY <2>9, <2>k DEF vars, Running
    <2> QED BY <2>1, <2>2, <2>3, <2>4, <2>5, <2>6, <2>7, <2>8, <2>9, <2>e
            DEF Next, on_connection_close, on_connection_error,
                TransportCloses, on_error, RunReturns, Exited
  <1> QED BY <1>1, <1>2, TypeCorrect, PTL DEF Spec

(* ChainsAlive, for every set of command lines, tick length and delay.      *)
THEOREM ChainsAliveCorrect == Spec => []ChainsAlive
  <1>1. ChainInv => ChainsAlive BY DEF ChainInv
  <1> QED BY <1>1, ChainsCorrect, PTL
-----------------------------------------------------------------------------
(* The bound of PatientInv for a countdown that is due in d ticks.          *)
Counted(d) == (conf.timeout - timer.remaining) * SECOND <= quiet + d

(* The ticks between the last message and now account for every second the  *)
(* countdown has taken off the timer.                                       *)
THEOREM PatientCorrect == Spec => []PatientInv
  <1>1. Init => PatientInv BY DEF Init, NoJobs, PatientInv, Jobs, Delays
  <1>2. TypeOK /\ ChainInv /\ PatientInv /\ [Next]_vars => PatientInv'
    <2> SUFFICES ASSUME TypeOK, ChainInv, PatientInv, [Next]_vars,
                        Running', conf'.timeout >= 0, TimerIsReset',
                        NEW d \in Delays, work_q'["timerEvent"][d] > 0
                 PROVE  Counted(d)'
      BY DEF PatientInv, Counted
    <2>c. conf' = conf BY ConfConstant
    <2> DEFINE T == conf.timeout
               r == timer.remaining
               old(e) == work_q["timerEvent"][e] > 0
    <2>q. work_q \in Queues(Jobs, Delays) BY DEF TypeOK
    <2>i. /\ T \in Nat /\ r \in 0..T /\ quiet \in Nat /\ d \in Nat
          /\ timer.timeout = T /\ msg_received_cnt \in Nat
      BY <2>c DEF TypeOK, Confs, ChainInv, WithinBounds, Delays
    <2>s. (T - r) * SECOND \in Int /\ (T - r) * SECOND <= T * SECOND
          /\ T * SECOND \in Int /\ (T - T) * SECOND = 0
      BY <2>i, SecondFacts, JobTypes
    <2>o. ASSUME Running, TimerIsReset, NEW e \in Delays, old(e)
          PROVE  (T - r) * SECOND <= quiet + e
      BY <2>i, <2>o DEF PatientInv
    <2>k. ASSUME UNCHANGED <<quiet, timer, msg_received_cnt>>, Running,
                 work_q'["timerEvent"][d] = work_q["timerEvent"][d]
          PROVE  Counted(d)'
      BY <2>c, <2>k, <2>o DEF Counted, TimerIsReset
    <2>f. ASSUME timer'.remaining = T, quiet' \in Nat PROVE Counted(d)'
      BY <2>c, <2>f, <2>i, <2>s DEF Counted
    <2>1. CASE on_container_start
      <3>1. ASSUME ~started, UNCHANGED <<timer, quiet>> PROVE Counted(d)'
        BY <2>c, <2>f, <2>i, <3>1 DEF ChainInv
      <3> QED BY <2>1, <3>1 DEF on_container_start, Exit, handled, Running
    <2>2. CASE timerEvent
      <3>1. /\ timer' = Decrement(timer) /\ ~IsExpired(timer)
            /\ UNCHANGED <<quiet, msg_received_cnt>>
            /\ Runnable(work_q, "timerEvent") /\ Running
            /\ work_q' = IF DecrementThrows(timer)
                         THEN Take(work_q, "timerEvent")
                         ELSE Reschedule("timerEvent", SECOND)
        BY <2>2 DEF timerEvent, Exit, Running
      <3>2. AtMostOne(work_q, "timerEvent")
        BY DEF ChainInv, ChainsAlive, Jobs
      <3>3. ~DecrementThrows(timer)
        BY <2>i, <3>1, NoThrow DEF TypeOK, ChainInv, FOREVER
      <3>4. d = SECOND
        BY <2>q, <3>1, <3>2, <3>3, RunAgain, JobTypes DEF Reschedule
      <3>5. (T - r) * SECOND <= quiet + 0
        BY <2>c, <2>o, <3>1, JobTypes DEF Runnable, TimerIsReset
      <3>6. timer'.remaining = r - 1
        BY <2>i, <3>1, DecrementFacts DEF TypeOK, FOREVER
      <3>7. ((T - r) + 1) * SECOND = (T - r) * SECOND + SECOND
        BY <2>i, SecondFacts, JobTypes
      <3>8. T - (r - 1) = (T - r) + 1 BY <2>i
      <3> QED BY <2>c, <2>i, <2>s, <3>1, <3>4, <3>5, <3>6, <3>7, <3>8
              DEF Counted
    <2>3. CASE drain
      <3>1. /\ UNCHANGED <<quiet, timer, msg_received_cnt>> /\ Running
            /\ work_q' = Take(work_q, "drain")
        BY <2>3 DEF drain, Exit, handled, Running
      <3>2. work_q'["timerEvent"] = work_q["timerEvent"]
        BY <2>q, <3>1, OtherChains, JobTypes
      <3> QED BY <2>k, <3>1, <3>2
    <2>4. ASSUME NEW p \in Peers, NEW m \in Messages, on_message(p, m)
          PROVE  Counted(d)'
      <3>1. /\ HandleMessage(p, m, msg_received_cnt')
            /\ msg_received_cnt' = msg_received_cnt + 1 /\ quiet' = 0
        BY <2>4 DEF on_message, Running
      <3>2. ~CountReached(msg_received_cnt')
        BY <2>c, <2>i, <3>1 DEF CountReached, TimerIsReset
      <3>3. timer' = Reset(timer)
        BY <3>1, <3>2 DEF HandleMessage, ResetTimer
      <3>4. timer'.remaining = T BY <2>i, <3>3, ResetFacts DEF TypeOK
      <3> QED BY <2>f, <3>1, <3>4
    <2>5. ASSUME NEW p \in Peers,
                 Running, Arrives(p) \/ ConnectionOpens(p) \/ PeerConnects(p)
                              \/ ConnectionEnds(p)
          PROVE  Counted(d)'
      BY <2>5, <2>k
      DEF Arrives, ConnectionOpens, PeerConnects, ConnectionEnds, handled
    <2>6. ASSUME NEW p \in Peers, Running, on_transport_close(p)
          PROVE  Counted(d)'
      BY <2>6, <2>k DEF on_transport_close, Exit, handled
    <2>7. ASSUME NEW p \in Peers, NEW u \in BOOLEAN, on_transport_error(p, u)
          PROVE  Counted(d)'
      BY <2>7, <2>6, <2>k DEF on_transport_error, Exit, handled
    <2>8. CASE Tick
      <3>1. /\ work_q' = Elapse(work_q)
            /\ UNCHANGED <<timer, msg_received_cnt>> /\ Running
            /\ quiet' = IF quiet < T * SECOND THEN quiet + 1 ELSE quiet
        BY <2>8 DEF Tick
      <3>2. work_q \in Queues(Jobs, 0..MaxDelay) BY <2>q DEF Delays
      <3>3. \/ d + 1 \in Delays /\ old(d + 1)
            \/ d = 0 /\ old(0)
        BY <3>1, <3>2, ElapseFrom, JobTypes DEF Delays
      <3>4. \/ (T - r) * SECOND <= quiet + (d + 1)
            \/ d = 0 /\ (T - r) * SECOND <= quiet + 0
        BY <2>c, <2>o, <3>1, <3>3, JobTypes DEF TimerIsReset
      <3>5. (T - r) * SECOND <= quiet' + d
        BY <2>i, <2>s, <3>1, <3>4
      <3> QED BY <2>c, <3>1, <3>5 DEF Counted
    <2>9. CASE UNCHANGED vars BY <2>9, <2>k DEF vars, Running
    <2>10. CASE Exit("success") \/ Exit("failure")
      BY <2>10 DEF Exit, Running
    <2>11. ASSUME NEW p \in Peers,
                  \/ on_connection_close(p)
                  \/ \E u \in BOOLEAN : on_connection_error(p, u)
                  \/ TransportCloses(p) \/ on_error(p)
           PROVE  Counted(d)'
      BY <2>5, <2>6, <2>10, <2>11
      DEF on_connection_close, on_connection_error, TransportCloses, on_error
    <2> QED BY <2>1, <2>2, <2>3, <2>4, <2>5, <2>7, <2>8, <2>9, <2>10, <2>11
            DEF Next, RunReturns, Exited, Arrives, ConnectionOpens, PeerConnects
  <1> QED BY <1>1, <1>2, TypeCorrect, ChainsCorrect, PTL DEF Spec

(* PatientTimer, whatever the timeout and the length of a tick.             *)
THEOREM PatientTimerCorrect == Spec => []PatientTimer
  <1>1. TypeOK /\ ChainInv /\ PatientInv => PatientTimer
    <2> SUFFICES ASSUME TypeOK, ChainInv, PatientInv, Running, TimerIsReset,
                        Runnable(work_q, "timerEvent"), IsExpired(timer)
                 PROVE  quiet >= conf.timeout * SECOND
      BY DEF PatientTimer, TimerIsReset
    <2>1. /\ quiet \in Nat /\ conf.timeout \in Int
          /\ timer.remaining = 0
      BY DEF TypeOK, Confs, IsExpired
    <2>2. CASE conf.timeout >= 0
      <3>1. (conf.timeout - 0) * SECOND <= quiet + 0
        BY <2>1, <2>2, JobTypes DEF PatientInv, Runnable
      <3>2. conf.timeout * SECOND \in Int BY <2>1, SecondFacts, JobTypes
      <3> QED BY <2>1, <3>1, <3>2
    <2>3. CASE conf.timeout < 0
      <3>1. conf.timeout * SECOND \in Int /\ conf.timeout * SECOND < 0
        BY <2>1, <2>3, SecondFacts, JobTypes
      <3> QED BY <2>1, <3>1
    <2> QED BY <2>1, <2>2, <2>3
  <1> QED BY <1>1, TypeCorrect, ChainsCorrect, PatientCorrect, PTL
-----------------------------------------------------------------------------
(* A satisfied client stays so when messages in flight are dropped, or the  *)
(* connection it has closed goes further down.                              *)
LEMMA StaysSatisfied ==
    ASSUME TypeOK, Satisfied,
           UNCHANGED <<conf, link, msg_received_cnt>>,
           incoming'[Broker] \in Nat, incoming'[Broker] <= incoming[Broker],
           \/ conn'[Broker] = conn[Broker]
           \/ conn'[Broker] \in {"ended", "down"}
    PROVE  Satisfied'
  <1>1. /\ msg_received_cnt \in Nat /\ incoming[Broker] \in Nat
        /\ conf.count \in Int /\ Window \in Nat
    BY WindowType, PeersAssumption DEF TypeOK, Confs
  <1>2. Window' = Window BY DEF Window, Listens
  <1> QED BY <1>1, <1>2 DEF Satisfied

(* Steps that neither open a link nor count a message.                      *)
LEMMA KeepCount ==
    ASSUME TypeOK, CountInv,
           UNCHANGED <<conf, link, msg_received_cnt, started>>,
           \A p \in Peers : incoming'[p] \in Nat /\ incoming'[p] <= incoming[p],
           Running' => Running,
           \/ UNCHANGED conn
           \/ \E p \in Peers : conn' = [conn EXCEPT ![p] = "ended"]
           \/ \E p \in Peers : conn' = [conn EXCEPT ![p] = "down"]
           \/ conn[Broker] \in {"none", "connecting", "open"}
           \/ Listens
    PROVE  CountInv'
  <1>1. Window \in Nat /\ \A p \in Peers : incoming[p] \in Nat
    BY WindowType DEF TypeOK
  <1>2. /\ Window' = Window /\ Limited' = Limited /\ Listens' = Listens
        /\ NeverOverreceives' = NeverOverreceives
    BY DEF Window, Limited, Listens, NeverOverreceives
  <1>3. \A p \in Peers : incoming'[p] <= Window' BY <1>1, <1>2 DEF CountInv
  <1>4. ASSUME Limited', Running'
        PROVE  msg_received_cnt' < conf'.count \/ Satisfied'
    <2>1. CASE msg_received_cnt < conf.count BY <2>1
    <2>2. CASE Satisfied
      <3>1. CASE ~conf.durable_subscriber
        BY <2>2, <3>1 DEF Satisfied
      <3>2. CASE conf.durable_subscriber
        <4>1. conn[Broker] \notin {"none", "connecting", "open"}
          BY <2>2, <3>2 DEF Satisfied
        <4>2. ~Listens BY <1>2, <1>4 DEF Limited
        <4>3. conn'[Broker] = conn[Broker] \/ conn'[Broker] \in {"ended", "down"}
          BY <4>1, <4>2, PeersAssumption DEF TypeOK
        <4> QED BY <2>2, <4>3, StaysSatisfied, PeersAssumption
      <3> QED BY <3>1, <3>2
    <2> QED BY <1>2, <1>4, <2>1, <2>2 DEF CountInv
  <1>5. \A p \in Peers : ~started' \/ (~Listens' /\ p # Broker)
                           => link'[p] = "none"
    BY <1>2 DEF CountInv
  <1> QED BY <1>2, <1>3, <1>4, <1>5 DEF CountInv

(* A message that is handled is one of those the client may still be        *)
(* handed, and at the count-th the link is closed or detached.              *)
LEMMA MessageKeepsCount ==
    ASSUME TypeOK, CountInv, NEW p \in Peers, NEW m \in Messages,
           on_message(p, m)
    PROVE  CountInv'
  <1>1. /\ Running /\ conn[p] \in {"open", "closing"}
        /\ link[p] \in {"open", "detached"}
        /\ incoming[p] > 0
        /\ incoming' = [incoming EXCEPT ![p] = @ - 1]
        /\ msg_received_cnt' = msg_received_cnt + 1
        /\ UNCHANGED <<conf, started>>
    BY DEF on_message
  <1>2. /\ msg_received_cnt \in Nat /\ conf.count \in Int /\ Window \in Nat
        /\ \A x \in Peers : incoming[x] \in Nat /\ incoming[x] <= Window
        /\ Broker \in Peers
    BY WindowType, PeersAssumption DEF TypeOK, Confs, CountInv
  <1>3. Window' = Window /\ Limited' = Limited /\ Listens' = Listens
    BY <1>1 DEF Window, Limited, Listens
  <1>4. /\ \A x \in Peers : incoming'[x] <= Window'
        /\ incoming'[p] = incoming[p] - 1
    <2>1. \A x \in Peers : incoming'[x] = IF x = p THEN incoming[x] - 1
                                                  ELSE incoming[x]
      BY <1>1 DEF TypeOK
    <2> QED BY <1>2, <1>3, <2>1
  <1>5. started /\ (Listens \/ p = Broker) BY <1>1 DEF CountInv
  <1>6. \/ UNCHANGED <<link, conn>>
        \/ link' = [link EXCEPT ![p] = IF conf.durable_subscriber
                                       THEN "detached" ELSE "closed"]
    BY DEF on_message, HandleMessage
  <1>7. \A x \in Peers : ~started' \/ (~Listens' /\ x # Broker)
                           => link'[x] = "none"
    <2>1. \A x \in Peers : x # p => link'[x] = link[x]
      BY <1>6 DEF TypeOK
    <2> QED BY <1>1, <1>3, <1>5, <2>1 DEF CountInv
  <1>8. ASSUME Limited
        PROVE  /\ Running' => msg_received_cnt' < conf'.count \/ Satisfied'
               /\ NeverOverreceives'
    <2>1. p = Broker BY <1>5, <1>8 DEF Limited
    <2>2. msg_received_cnt < conf.count \/ Satisfied
      BY <1>1, <1>8 DEF CountInv
    <2>3. CASE msg_received_cnt < conf.count
      <3>1. msg_received_cnt' <= conf'.count BY <1>1, <1>2, <2>3
      <3>2. NeverOverreceives' BY <3>1 DEF NeverOverreceives
      <3>3. ASSUME Running', ~(msg_received_cnt' < conf'.count)
            PROVE  Satisfied'
        <4>1. msg_received_cnt' = conf.count BY <1>1, <1>2, <3>1, <3>3
        <4>2. HandleMessage(p, m, msg_received_cnt')
          BY <3>3 DEF on_message, Running
        <4>3. CountReached(msg_received_cnt')
          BY <1>8, <4>1 DEF CountReached, Limited
        <4>4. /\ link' = [link EXCEPT ![p] = IF conf.durable_subscriber
                                             THEN "detached" ELSE "closed"]
              /\ conn' = [conn EXCEPT ![p] = "closing"]
          BY <4>2, <4>3 DEF HandleMessage
        <4>5. /\ link'[Broker] = IF conf.durable_subscriber
                                 THEN "detached" ELSE "closed"
              /\ conn'[Broker] = "closing"
          BY <1>2, <2>1, <4>4 DEF TypeOK
        <4>6. conf.count + incoming'[Broker] < conf.count + Window
          BY <1>1, <1>2, <1>4, <2>1
        <4> QED BY <1>1, <1>3, <4>1, <4>5, <4>6 DEF Satisfied
      <3> QED BY <3>2, <3>3
    <2>4. CASE Satisfied
      <3>1. /\ conf.durable_subscriber /\ link[Broker] = "detached"
            /\ conn[Broker] \notin {"none", "connecting", "open"}
            /\ msg_received_cnt + incoming[Broker] < conf.count + Window
        BY <1>1, <2>1, <2>4 DEF Satisfied
      <3>2. /\ msg_received_cnt' < conf.count + Window
            /\ msg_received_cnt' + incoming'[Broker] < conf.count + Window
        BY <1>1, <1>2, <1>4, <2>1, <3>1
      <3>3. link'[Broker] = "detached"
        BY <1>2, <1>6, <2>1, <3>1 DEF TypeOK
      <3>4. conn'[Broker] \notin {"none", "connecting", "open"}
        <4>1. \/ conn' = conn
              \/ conn' = [conn EXCEPT ![p] = "closing"]
          BY DEF on_message, HandleMessage
        <4> QED BY <1>2, <2>1, <3>1, <4>1 DEF TypeOK
      <3> QED BY <1>1, <1>3, <3>1, <3>2, <3>3, <3>4
              DEF Satisfied, NeverOverreceives
    <2> QED BY <2>2, <2>3, <2>4
  <1>9. ~Limited => NeverOverreceives'
    BY <1>3 DEF NeverOverreceives, Limited
  <1> QED BY <1>1, <1>3, <1>4, <1>5, <1>7, <1>8, <1>9 DEF CountInv

(* The count of messages, the state of the link and what is in flight agree *)
(* at all times.                                                            *)
THEOREM CountCorrect == Spec => []CountInv
  <1>1. Init /\ TypeOK => CountInv
    <2> SUFFICES ASSUME Init, TypeOK PROVE CountInv OBVIOUS
    <2>1. Window \in Nat /\ conf.count \in Int
      BY WindowType DEF TypeOK, Confs
    <2> QED BY <2>1 DEF Init, CountInv, Limited, NeverOverreceives
  <1>2. TypeOK /\ CountInv /\ [Next]_vars => CountInv'
    <2> SUFFICES ASSUME TypeOK, CountInv, [Next]_vars PROVE CountInv'
      OBVIOUS
    <2>t. /\ \A p \in Peers : incoming[p] \in Nat
          /\ msg_received_cnt \in Nat /\ conf.count \in Int
          /\ Window \in Nat /\ Broker \in Peers
      BY WindowType, PeersAssumption DEF TypeOK, Confs
    <2>k. ASSUME UNCHANGED <<conf, link, msg_received_cnt, started, incoming,
                             conn>>,
                 Running' => Running
          PROVE  CountInv'
      BY <2>k, <2>t, KeepCount
    <2>e. ASSUME NEW code, Exit(code), Running PROVE CountInv'
      BY <2>e, <2>k DEF Exit, handled
    <2>d. ASSUME NEW p \in Peers, NEW state \in {"ended", "down", "connecting"},
                 UNCHANGED <<conf, link, msg_received_cnt, started, status>>,
                 conn' = [conn EXCEPT ![p] = state],
                 incoming' = [incoming EXCEPT ![p] = 0],
                 state = "connecting" =>
                     ~Listens /\ conn[p] \in {"connecting", "open"}
          PROVE  CountInv'
      <3>1. \A x \in Peers : incoming'[x] \in Nat /\ incoming'[x] <= incoming[x]
        BY <2>d, <2>t DEF TypeOK
      <3>2. CASE state # "connecting"
        BY <2>d, <3>1, <3>2, KeepCount DEF Running
      <3>3. CASE state = "connecting" /\ p = Broker
        BY <2>d, <3>1, <3>3, KeepCount DEF Running
      <3>4. CASE state = "connecting" /\ p # Broker
        <4>1. /\ conn'[Broker] = conn[Broker]
              /\ incoming'[Broker] = incoming[Broker]
          BY <2>d, <2>t, <3>4 DEF TypeOK
        <4>2. /\ Window' = Window /\ Limited' = Limited
              /\ Listens' = Listens /\ Satisfied' = Satisfied
              /\ NeverOverreceives' = NeverOverreceives
          BY <2>d, <4>1
          DEF Window, Limited, Listens, Satisfied, NeverOverreceives
        <4>3. \A x \in Peers : incoming'[x] <= Window'
          BY <2>t, <3>1, <4>2 DEF CountInv
        <4> QED BY <2>d, <4>2, <4>3 DEF CountInv, Running
      <3> QED BY <3>2, <3>3, <3>4
    <2>1. CASE on_container_start
      <3>1. CASE Exit("failure") \/ Exit("crashed")
        BY <2>1, <2>e, <3>1 DEF on_container_start
      <3>2. CASE ~(Exit("failure") \/ Exit("crashed"))
        <4>1. /\ ~started /\ started'
              /\ UNCHANGED <<conf, msg_received_cnt, incoming>>
              /\ IF Listens THEN UNCHANGED link
                 ELSE \E s \in LinkStates : link' = [link EXCEPT ![Broker] = s]
          BY <2>1, <3>2 DEF on_container_start, handled, LinkStates
        <4>2. msg_received_cnt = 0 BY <4>1 DEF CountInv
        <4>3. \A p \in Peers : p # Broker => link'[p] = link[p]
          BY <4>1 DEF TypeOK
        <4>4. Window' = Window /\ Limited' = Limited /\ Listens' = Listens
          BY <4>1 DEF Window, Limited, Listens
        <4>5. Limited => msg_received_cnt' < conf'.count
          BY <2>t, <4>1, <4>2 DEF Limited
        <4>6. NeverOverreceives'
          BY <2>t, <4>1, <4>2 DEF NeverOverreceives
        <4> QED BY <4>1, <4>3, <4>4, <4>5, <4>6 DEF CountInv
      <3> QED BY <3>1, <3>2
    <2>2. CASE timerEvent
      BY <2>2, <2>e, <2>k DEF timerEvent, Running
    <2>3. CASE drain
      BY <2>3, <2>e, <2>k DEF drain, handled, Running
    <2>4. ASSUME NEW p \in Peers, NEW m \in Messages, on_message(p, m)
          PROVE  CountInv'
      BY <2>4, MessageKeepsCount
    <2>5. ASSUME NEW p \in Peers, Arrives(p) PROVE CountInv'
      <3>1. /\ UNCHANGED <<conf, link, msg_received_cnt, started, conn, status>>
            /\ conn[p] = "open" /\ incoming[p] < Window
            /\ incoming' = [incoming EXCEPT ![p] = @ + 1]
        BY <2>5 DEF Arrives, handled
      <3>2. /\ Window' = Window /\ Limited' = Limited /\ Listens' = Listens
            /\ NeverOverreceives' = NeverOverreceives
        BY <3>1 DEF Window, Limited, Listens, NeverOverreceives
      <3>3. \A x \in Peers : incoming'[x] <= Window'
        <4>1. \A x \in Peers : incoming'[x] = IF x = p THEN incoming[x] + 1
                                                      ELSE incoming[x]
          BY <3>1 DEF TypeOK
        <4> QED BY <2>t, <3>1, <3>2, <4>1 DEF CountInv
      <3>4. Satisfied => Satisfied'
        <4>1. CASE p = Broker
          BY <3>1, <3>2, <4>1 DEF Satisfied
        <4>2. CASE p # Broker
          <5>1. incoming'[Broker] = incoming[Broker]
            BY <2>t, <3>1, <4>2 DEF TypeOK
          <5> QED BY <3>1, <3>2, <5>1 DEF Satisfied
        <4> QED BY <4>1, <4>2
      <3> QED BY <3>1, <3>2, <3>3, <3>4 DEF CountInv, Running
    <2>6. ASSUME NEW p \in Peers, ConnectionOpens(p) PROVE CountInv'
      <3>1. /\ UNCHANGED <<conf, link, msg_received_cnt, started, status, incoming>>
            /\ conn[p] = "connecting"
            /\ conn' = [conn EXCEPT ![p] = "open"]
        BY <2>6 DEF ConnectionOpens, handled
      <3>2. /\ Window' = Window /\ Limited' = Limited /\ Listens' = Listens
            /\ NeverOverreceives' = NeverOverreceives
        BY <3>1 DEF Window, Limited, Listens, NeverOverreceives
      <3>3. Satisfied => Satisfied'
        BY <2>t, <3>1, <3>2 DEF Satisfied, TypeOK
      <3> QED BY <3>1, <3>2, <3>3 DEF CountInv, Running
    <2>7. ASSUME NEW p \in Peers, PeerConnects(p) PROVE CountInv'
      <3>1. /\ UNCHANGED <<conf, msg_received_cnt, started, incoming>>
            /\ started /\ Listens
        BY <2>7 DEF PeerConnects, handled
      <3> QED BY <3>1 DEF CountInv, Limited, NeverOverreceives, Listens, Window
    <2>8. ASSUME NEW p \in Peers, ConnectionEnds(p) PROVE CountInv'
      BY <2>8, <2>d DEF ConnectionEnds, handled
    <2>9. ASSUME NEW p \in Peers, Running, on_transport_close(p) PROVE CountInv'
      BY <2>9, <2>e, <2>d DEF on_transport_close, handled
    <2>10. ASSUME NEW p \in Peers, NEW u \in BOOLEAN, on_transport_error(p, u)
           PROVE  CountInv'
      BY <2>10, <2>9, <2>e, <2>d DEF on_transport_error, Reconnects, handled
    <2>11. CASE Tick BY <2>11, <2>k DEF Tick, Running
    <2>12. CASE UNCHANGED vars BY <2>12, <2>k DEF vars, Running
    <2>13. ASSUME NEW p \in Peers, NEW u \in BOOLEAN,
                  on_connection_close(p) \/ on_connection_error(p, u)
                      \/ TransportCloses(p) \/ on_error(p)
           PROVE  CountInv'
      BY <2>8, <2>9, <2>e, <2>13
      DEF on_connection_close, on_connection_error, TransportCloses, on_error
    <2> QED BY <2>1, <2>2, <2>3, <2>4, <2>5, <2>6, <2>7, <2>10, <2>11, <2>12,
               <2>13, <2>e
            DEF Next, RunReturns, Exited
  <1> QED BY <1>1, <1>2, TypeCorrect, PTL DEF Spec

(* NeverOverreceives: reconnections included, a client of a broker handles  *)
(* no message past its count, or a durable one less than a window of them.  *)
THEOREM NeverOverreceivesCorrect == Spec => []NeverOverreceives
  <1>1. CountInv => NeverOverreceives BY DEF CountInv
  <1> QED BY <1>1, CountCorrect, PTL
=============================================================================
