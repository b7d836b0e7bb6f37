--------------------------- MODULE ConnectorProofs ---------------------------
(***************************************************************************)
(* Theorems about the connector, for every set of command lines, tick,     *)
(* delay and number of reconnections.                                      *)
(***************************************************************************)
EXTENDS Connector, TimingProofs

(* The constants: the job and the delays it is scheduled with.              *)
LEMMA JobTypes == /\ 0 \in Delays /\ IMMEDIATE \in Delays
                  /\ SECOND \in Delays /\ SECOND \in Nat \ {0}
                  /\ MaxDelay \in Nat
                  /\ "timerEvent" \in Jobs
  BY SecondAssumption DEF Delays, Jobs, IMMEDIATE

(* conf is what run() read, and stays it.                                   *)
LEMMA ConfConstant == [Next]_vars => conf' = conf
  BY DEF Next, vars, on_container_start, on_connection_open, timerEvent,
         on_session_error, on_error, on_connection_close, on_connection_error,
         TransportCloses, on_transport_close, on_transport_error, RunReturns,
         Tick, Exited, Exit

(* The end of the process.                                                  *)
LEMMA ExitType ==
    ASSUME TypeOK, NEW code \in {"success", "failure"}, Exit(code)
    PROVE  TypeOK'
  BY DEF TypeOK, Exit, history

(* Whatever the state of the connection, closing what was asked for leaves  *)
(* nothing of it open.                                                      *)
LEMMA CloseFacts ==
    ASSUME TypeOK, closeObjects
    PROVE  /\ objects' \in [Objects -> {"uninitialized", "open", "closed"}]
           /\ \A o \in Objects \ conf.objectControl : objects'[o] = "uninitialized"
           /\ \A o \in Objects : objects'[o] # "open"
           /\ conn' \in ConnStates
           /\ conn' \notin {"connecting", "open"}
           /\ conn' = "none" => conn = "none"
           /\ conn' \in {"aborting", "closing"} => conn \notin {"none", "ended", "down"}
           /\ conn' = "aborting" => conn \in {"connecting", "aborting"}
  <1>1. \A o \in Objects :
            objects'[o] = IF o \in conf.objectControl /\ objects[o] = "open"
                          THEN "closed" ELSE objects[o]
    BY DEF closeObjects
  <1>2. objects' \in [Objects -> {"uninitialized", "open", "closed"}]
    <2>1. objects' = [o \in Objects |->
              IF o \in conf.objectControl /\ objects[o] = "open"
              THEN "closed" ELSE objects[o]]
      BY DEF closeObjects
    <2> QED BY <2>1 DEF TypeOK
  <1>3. /\ \A o \in Objects \ conf.objectControl : objects'[o] = "uninitialized"
        /\ \A o \in Objects : objects'[o] # "open"
    BY <1>1 DEF TypeOK
  <1>4. conn' = CASE conn = "connecting" -> "aborting"
                  [] conn = "open"       -> "closing"
                  [] OTHER               -> conn
    BY DEF closeObjects
  <1>5. conn \in ConnStates BY DEF TypeOK
  <1> QED BY <1>2, <1>3, <1>4, <1>5 DEF ConnStates

(* TypeOK: the fields of ConnectorHandler keep their types, and nothing is  *)
(* opened that was not asked for.                                           *)
THEOREM TypeCorrect == Spec => []TypeOK
  <1>1. Init => TypeOK
    <2> SUFFICES ASSUME Init PROVE TypeOK OBVIOUS
    <2>1. conf \in Confs BY CommandLinesAssumption DEF Init
    <2>2. timer \in Timers BY <2>1, NewTimerFacts DEF Init, Confs
    <2>3. work_q \in Queues(Jobs, Delays) BY DEF Init, NoJobs, Queues
    <2>4. /\ objects \in [Objects -> {"uninitialized", "open", "closed"}]
          /\ \A o \in Objects \ conf.objectControl : objects[o] = "uninitialized"
      BY DEF Init
    <2>5. opens \in 0..MaxOpens BY OpensAssumption DEF Init
    <2> QED BY <2>1, <2>2, <2>3, <2>4, <2>5 DEF Init, TypeOK, ConnStates
  <1>2. TypeOK /\ [Next]_vars => TypeOK'
    <2> SUFFICES ASSUME TypeOK, [Next]_vars PROVE TypeOK' OBVIOUS
    <2>1. CASE on_container_start
      BY <2>1, ExitType DEF on_container_start, TypeOK, history, ConnStates
    <2>2. CASE on_connection_open
      <3>1. work_q' \in Queues(Jobs, Delays)
        BY <2>2, ScheduleType, JobTypes DEF on_connection_open, TypeOK
      <3>2. objects' = [o \in Objects |->
                IF o \in conf.objectControl THEN "open" ELSE objects[o]]
        BY <2>2 DEF on_connection_open, OpenObjects
      <3>3. /\ objects' \in [Objects -> {"uninitialized", "open", "closed"}]
            /\ \A o \in Objects \ conf.objectControl : objects'[o] = "uninitialized"
        BY <3>2 DEF TypeOK
      <3>4. opens' \in 0..MaxOpens
        BY <2>2, OpensAssumption DEF on_connection_open, TypeOK
      <3> QED BY <2>2, <3>1, <3>3, <3>4
              DEF on_connection_open, TypeOK, ConnStates
    <2>3. CASE timerEvent
      <3>1. work_q \in Queues(Jobs, Delays) /\ timer \in Timers BY DEF TypeOK
      <3>2. Take(work_q, "timerEvent") \in Queues(Jobs, Delays)
        BY <2>3, <3>1, TakeType, JobTypes DEF timerEvent
      <3>3. Reschedule("timerEvent", SECOND) \in Queues(Jobs, Delays)
        BY <3>2, ScheduleType, JobTypes DEF Reschedule
      <3>4. work_q' \in Queues(Jobs, Delays) /\ timer' \in Timers
        BY <2>3, <3>1, <3>2, <3>3, DecrementFacts DEF timerEvent
      <3>5. CASE closeObjects
        BY <2>3, <3>4, <3>5, CloseFacts DEF timerEvent, TypeOK, history
      <3>6. CASE UNCHANGED <<objects, conn>>
        BY <2>3, <3>4, <3>6 DEF timerEvent, TypeOK, history
      <3> QED BY <2>3, <3>5, <3>6 DEF timerEvent
    <2>4. CASE on_session_error
      BY <2>4, CloseFacts DEF on_session_error, TypeOK
    <2>5. CASE on_error \/ RunReturns
      BY <2>5, ExitType DEF on_error, RunReturns
    <2>6. CASE on_connection_close
      BY <2>6 DEF on_connection_close, TypeOK, history, ConnStates
    <2>7. ASSUME NEW u \in BOOLEAN, on_connection_error(u) PROVE TypeOK'
      BY <2>7, ExitType DEF on_connection_error, TypeOK, history, ConnStates
    <2>8. CASE on_transport_close
      BY <2>8, ExitType DEF on_transport_close, TypeOK, history, ConnStates
    <2>9. CASE on_transport_error
      BY <2>8, <2>9 DEF on_transport_error, TypeOK, history, ConnStates
    <2>10. CASE Tick
      <3>1. work_q' \in Queues(Jobs, Delays)
        BY <2>10, ElapseType DEF Tick, TypeOK
      <3> QED BY <2>10, <3>1 DEF Tick, TypeOK
    <2>11. CASE UNCHANGED vars BY <2>11 DEF vars, TypeOK
    <2> QED BY <2>1, <2>2, <2>3, <2>4, <2>5, <2>6, <2>7, <2>8, <2>9, <2>10,
               <2>11
            DEF Next, TransportCloses, Exited
  <1> QED BY <1>1, <1>2, PTL DEF Spec
-----------------------------------------------------------------------------
SomeOpen == \E o \in Objects : objects[o] = "open"

(* The countdown.  It only moves while it has not expired, so a timer that  *)
(* has expired stays so, and a connection that was given up before it       *)
(* opened is closed again by the job its opening schedules.                 *)
CountdownInv ==
    /\ timer.timeout = conf.timeout
    /\ WithinBounds(timer)
    /\ conn = "none" => opens = 0
    /\ conn = "aborting" => IsExpired(timer) /\ ~SomeOpen
    /\ conn = "closing" /\ SomeOpen => IsExpired(timer)
    /\ CountsDown
    /\ ClosesEverything

(* Until the connection is made again, there is one chain of jobs, and what *)
(* it has counted off the timer is never more than the ticks since the      *)
(* connection opened, the rest of the running second included.              *)
HoldInv ==
    /\ opens = 0 => /\ timer.remaining = conf.timeout
                    /\ ~Pending(work_q, "timerEvent")
    /\ opens <= 1 =>
          /\ AtMostOne(work_q, "timerEvent")
          /\ conf.timeout >= 0 =>
                \A d \in Delays : work_q["timerEvent"][d] > 0
                    => (conf.timeout - timer.remaining) * SECOND <= age + d
    /\ HoldsForTimeout
-----------------------------------------------------------------------------
(* A step that leaves the countdown alone and neither opens the connection, *)
(* nor starts closing it, nor touches the objects.                          *)
LEMMA KeepCountdown ==
    ASSUME TypeOK, CountdownInv,
           UNCHANGED <<conf, timer, objects, work_q, opens, sessionFailed>>,
           Running' => Running,
           \/ conn' = conn
           \/ conn' \in {"ended", "down"}
           \/ conn = "none" /\ conn' = "connecting"
           \/ conn \in {"connecting", "open"} /\ conn' = "connecting"
    PROVE  CountdownInv'
  <1>1. /\ timer'.timeout = conf'.timeout
        /\ WithinBounds(timer')
        /\ conn' = "none" => opens' = 0
        /\ conn' = "aborting" => IsExpired(timer') /\ ~SomeOpen'
        /\ conn' = "closing" /\ SomeOpen' => IsExpired(timer')
    BY DEF CountdownInv, SomeOpen
  <1>2. CountsDown' BY DEF CountdownInv, CountsDown, TypeOK
  <1>3. ClosesEverything' BY DEF CountdownInv, ClosesEverything
  <1> QED BY <1>1, <1>2, <1>3 DEF CountdownInv

(* The end of the process.                                                  *)
LEMMA ExitKeepsCountdown ==
    ASSUME TypeOK, CountdownInv, NEW code, Exit(code), Running
    PROVE  CountdownInv'
  BY KeepCountdown DEF Exit, history

(* An expired countdown closes everything; one that has not expired goes on,*)
(* and nothing it could have to close is open on a closed connection.       *)
LEMMA TimerEventKeepsCountdown ==
    ASSUME TypeOK, CountdownInv, timerEvent PROVE CountdownInv'
  <1>1. /\ UNCHANGED <<conf, status, opens, age, sessionFailed>>
        /\ Running /\ Runnable(work_q, "timerEvent")
        /\ timer \in Timers /\ work_q \in Queues(Jobs, Delays)
    BY DEF timerEvent, history, TypeOK
  <1>2. CASE IsExpired(timer)
    <2>1. closeObjects /\ UNCHANGED timer BY <1>2 DEF timerEvent
    <2>2. /\ \A o \in Objects : objects'[o] # "open"
          /\ conn' \notin {"connecting", "open"}
          /\ conn' = "none" => conn = "none"
      BY <2>1, CloseFacts
    <2>3. ~SomeOpen' BY <2>2 DEF SomeOpen
    <2>4. CountsDown' BY <2>2 DEF CountsDown
    <2>5. ClosesEverything' BY <2>2 DEF ClosesEverything
    <2> QED BY <1>1, <1>2, <2>1, <2>2, <2>3, <2>4, <2>5 DEF CountdownInv
  <1>3. CASE ~IsExpired(timer)
    <2>1. /\ timer' = Decrement(timer)
          /\ UNCHANGED <<objects, conn>>
          /\ work_q' = IF DecrementThrows(timer)
                       THEN Take(work_q, "timerEvent")
                       ELSE Reschedule("timerEvent", SECOND)
      BY <1>3 DEF timerEvent
    <2>2. timer'.timeout = conf'.timeout /\ WithinBounds(timer')
      BY <1>1, <1>3, <2>1, DecrementFacts DEF CountdownInv
    <2>3. /\ conn' # "aborting"
          /\ ~(conn' = "closing" /\ SomeOpen')
          /\ conn' = "none" => opens' = 0
      BY <1>1, <1>3, <2>1 DEF CountdownInv, SomeOpen
    <2>4. ClosesEverything' BY <2>3 DEF ClosesEverything, SomeOpen
    <2>5. conf.timeout >= FOREVER => ~DecrementThrows(timer)
      BY <1>1, <1>3, NoThrow DEF CountdownInv
    <2>6. Pending(Reschedule("timerEvent", SECOND), "timerEvent")
      <3>1. Take(work_q, "timerEvent") \in Queues(Jobs, Delays)
        BY <1>1, TakeType, JobTypes
      <3> QED BY <3>1, SchedulePending, JobTypes DEF Reschedule
    <2>7. CountsDown' BY <1>1, <2>1, <2>5, <2>6 DEF CountsDown
    <2> QED BY <2>2, <2>3, <2>4, <2>7 DEF CountdownInv
  <1> QED BY <1>2, <1>3

(* While the connection is up its countdown goes on, and when it is over    *)
(* nothing that was opened is left open.                                    *)
THEOREM CountdownCorrect == Spec => []CountdownInv
  <1>1. Init /\ TypeOK => CountdownInv
    <2> SUFFICES ASSUME Init, TypeOK PROVE CountdownInv OBVIOUS
    <2>1. timer.timeout = conf.timeout /\ WithinBounds(timer)
      BY NewTimerFacts DEF Init, TypeOK, Confs
    <2> QED BY <2>1 DEF Init, CountdownInv, CountsDown, ClosesEverything
  <1>2. TypeOK /\ CountdownInv /\ [Next]_vars => CountdownInv'
    <2> SUFFICES ASSUME TypeOK, CountdownInv, [Next]_vars
                 PROVE  CountdownInv'
      OBVIOUS
    <2>e. ASSUME NEW code, Exit(code), Running PROVE CountdownInv'
      BY <2>e, ExitKeepsCountdown
    <2>1. CASE on_container_start
      BY <2>1, <2>e, KeepCountdown DEF on_container_start, history, Running
    <2>2. CASE on_connection_open
      <3>1. /\ work_q' = Schedule(work_q, "timerEvent", IMMEDIATE)
            /\ conn' = IF conn = "connecting" THEN "open" ELSE "closing"
            /\ conn \in {"connecting", "aborting"}
            /\ UNCHANGED <<conf, timer>>
        BY <2>2 DEF on_connection_open
      <3>2. work_q \in Queues(Jobs, Delays) BY DEF TypeOK
      <3>3. /\ Pending(work_q', "timerEvent")
            /\ Runnable(work_q', "timerEvent")
        BY <3>1, <3>2, SchedulePending, JobTypes DEF Runnable, IMMEDIATE
      <3>4. CountsDown' /\ ClosesEverything'
        BY <3>3 DEF CountsDown, ClosesEverything
      <3> QED BY <3>1, <3>4 DEF CountdownInv
    <2>3. CASE timerEvent BY <2>3, TimerEventKeepsCountdown
    <2>4. CASE on_session_error
      <3>1. /\ closeObjects /\ sessionFailed'
            /\ conn \in {"open", "closing"}
            /\ UNCHANGED <<conf, timer, work_q>>
        BY <2>4 DEF on_session_error
      <3>2. \A o \in Objects : objects'[o] # "open" BY <3>1, CloseFacts
      <3>3. conn' # "none" /\ conn' # "aborting" BY <3>1, CloseFacts
      <3>4. CountsDown' BY <3>1 DEF CountsDown
      <3>5. ClosesEverything' BY <3>2 DEF ClosesEverything
      <3> QED BY <3>1, <3>2, <3>3, <3>4, <3>5 DEF CountdownInv, SomeOpen
    <2>5. CASE on_error \/ RunReturns BY <2>5, <2>e DEF on_error, RunReturns
    <2>6. CASE on_connection_close
      BY <2>6, KeepCountdown DEF on_connection_close, history, Running
    <2>7. ASSUME NEW u \in BOOLEAN, on_connection_error(u) PROVE CountdownInv'
      BY <2>7, <2>e, KeepCountdown DEF on_connection_error, history, Running
    <2>8. CASE Running /\ on_transport_close
      BY <2>8, <2>e, KeepCountdown DEF on_transport_close, history, Running
    <2>9. CASE on_transport_error
      BY <2>8, <2>9, KeepCountdown DEF on_transport_error, history, Running
    <2>10. CASE Tick
      <3>1. /\ work_q' = Elapse(work_q)
            /\ UNCHANGED <<conf, timer, objects, conn, status, opens,
                           sessionFailed>>
        BY <2>10 DEF Tick
      <3>2. work_q \in Queues(Jobs, 0..MaxDelay) BY DEF TypeOK, Delays
      <3>3. /\ Pending(work_q, "timerEvent") => Pending(work_q', "timerEvent")
            /\ Runnable(work_q, "timerEvent") => Runnable(work_q', "timerEvent")
        BY <3>1, <3>2, ElapseOne, ElapseRunnable, JobTypes
      <3>4. CountsDown' /\ ClosesEverything'
        BY <3>1, <3>3 DEF CountdownInv, CountsDown, ClosesEverything, Running
      <3> QED BY <3>1, <3>4 DEF CountdownInv, SomeOpen
    <2>11. CASE UNCHANGED vars BY <2>11, KeepCountdown DEF vars, Running
    <2> QED BY <2>1, <2>2, <2>3, <2>4, <2>5, <2>6, <2>7, <2>8, <2>9, <2>10,
               <2>11
            DEF Next, TransportCloses, Exited
  <1> QED BY <1>1, <1>2, TypeCorrect, PTL DEF Spec

(* CountsDown, for any number of reconnections.                             *)
THEOREM CountsDownCorrect == Spec => []CountsDown
  <1>1. CountdownInv => CountsDown BY DEF CountdownInv
  <1> QED BY <1>1, CountdownCorrect, PTL

(* ClosesEverything, for any number of reconnections.                       *)
THEOREM ClosesEverythingCorrect == Spec => []ClosesEverything
  <1>1. CountdownInv => ClosesEverything BY DEF CountdownInv
  <1> QED BY <1>1, CountdownCorrect, PTL
-----------------------------------------------------------------------------
(* A step that leaves the countdown alone and starts no close, unless for   *)
(* the error of the session.                                                *)
LEMMA KeepHold ==
    ASSUME TypeOK, HoldInv, UNCHANGED <<conf, timer, work_q, opens, age>>,
           \/ sessionFailed'
           \/ /\ sessionFailed' = sessionFailed
              /\ \/ conn' = conn
                 \/ conn' \notin {"aborting", "closing"}
    PROVE  HoldInv'
  <1>1. HoldsForTimeout' BY DEF HoldInv, HoldsForTimeout, ClosedTooEarly
  <1> QED BY <1>1 DEF HoldInv

(* The first opening starts the only chain, with nothing counted off yet;   *)
(* an opening the handler no longer waits for was given up in time.         *)
LEMMA OpenKeepsHold ==
    ASSUME TypeOK, HoldInv, on_connection_open PROVE HoldInv'
  <1>1. /\ work_q' = Schedule(work_q, "timerEvent", IMMEDIATE)
        /\ conn' = IF conn = "connecting" THEN "open" ELSE "closing"
        /\ conn \in {"connecting", "aborting"}
        /\ opens' = opens + 1
        /\ UNCHANGED <<conf, timer, age, sessionFailed>>
    BY DEF on_connection_open
  <1>2. /\ opens \in Nat /\ age \in Nat /\ conf.timeout \in Int
        /\ work_q \in Queues(Jobs, Delays)
    BY OpensAssumption DEF TypeOK, Confs
  <1>3. HoldsForTimeout'
    BY <1>1, <1>2 DEF HoldInv, HoldsForTimeout, ClosedTooEarly
  <1>4. CASE opens = 0
    <2>1. ~Pending(work_q, "timerEvent") /\ timer.remaining = conf.timeout
      BY <1>4 DEF HoldInv
    <2>2. AtMostOne(work_q', "timerEvent")
      BY <1>1, <1>2, <2>1, ScheduleOne, JobTypes
    <2>3. (conf'.timeout - timer'.remaining) * SECOND = 0
      BY <1>1, <1>2, <2>1, JobTypes
    <2>4. \A d \in Delays :
              (conf'.timeout - timer'.remaining) * SECOND <= age' + d
      BY <1>1, <1>2, <2>3 DEF Delays
    <2> QED BY <1>1, <1>3, <1>4, <2>2, <2>4 DEF HoldInv
  <1>5. CASE opens # 0
    <2>1. ~(opens' <= 1) BY <1>1, <1>2, <1>5
    <2>2. opens' # 0 BY <1>1, <1>2
    <2> QED BY <1>3, <2>1, <2>2 DEF HoldInv
  <1> QED BY <1>4, <1>5

(* Each run of the job counts one second off the timer and waits for one    *)
(* more; the one that finds the timer expired closes the connection.        *)
LEMMA TimerEventKeepsHold ==
    ASSUME TypeOK, CountdownInv, HoldInv, timerEvent PROVE HoldInv'
  <1>1. /\ UNCHANGED <<conf, opens, age, sessionFailed>>
        /\ Runnable(work_q, "timerEvent")
    BY DEF timerEvent, history
  <1>2. /\ timer \in Timers /\ work_q \in Queues(Jobs, Delays)
        /\ age \in Nat /\ opens \in Nat /\ conf.timeout \in Int
    BY OpensAssumption DEF TypeOK, Confs
  <1>3. opens # 0
    BY <1>1, <1>2, RunnableIsPending, JobTypes DEF HoldInv
  <1> SUFFICES ASSUME opens = 1 PROVE HoldInv'
    <2>1. opens # 1 => ~(opens' <= 1) /\ opens' # 0 BY <1>1, <1>2, <1>3
    <2> QED BY <2>1 DEF HoldInv, HoldsForTimeout
  <1>4. /\ AtMostOne(work_q, "timerEvent")
        /\ opens' # 0
        /\ conf.timeout >= 0
              => (conf.timeout - timer.remaining) * SECOND <= age
    BY <1>1, <1>2, JobTypes DEF HoldInv, Runnable
  <1>5. /\ AtMostOne(Take(work_q, "timerEvent"), "timerEvent")
        /\ \A d \in Delays :
              ~(Take(work_q, "timerEvent")["timerEvent"][d] > 0)
    <2>1. Take(work_q, "timerEvent") \in Queues(Jobs, Delays)
      BY <1>1, <1>2, TakeType, JobTypes
    <2>2. ~Pending(Take(work_q, "timerEvent"), "timerEvent")
      BY <1>1, <1>2, <1>4, TakeOne, JobTypes
    <2>3. DOMAIN Take(work_q, "timerEvent")["timerEvent"] = Delays
      BY <2>1, JobTypes DEF Queues
    <2> QED BY <2>2, <2>3 DEF Pending, AtMostOne
  <1>6. CASE IsExpired(timer)
    <2>1. work_q' = Take(work_q, "timerEvent") BY <1>6 DEF timerEvent
    <2>2. conf.timeout * SECOND <= age
      <3>1. timer.remaining = 0 BY <1>6 DEF IsExpired
      <3>2. CASE conf.timeout >= 0 BY <1>2, <1>4, <3>1, <3>2
      <3>3. CASE conf.timeout < 0
        BY <1>2, <3>3, SecondFacts, JobTypes
      <3> QED BY <1>2, <3>2, <3>3
    <2>3. HoldsForTimeout'
      BY <1>1, <1>2, <2>2, JobTypes DEF HoldsForTimeout, ClosedTooEarly
    <2> QED BY <1>4, <1>5, <2>1, <2>3 DEF HoldInv
  <1>7. CASE ~IsExpired(timer)
    <2>1. /\ timer' = Decrement(timer)
          /\ conn' = conn
          /\ work_q' = IF DecrementThrows(timer)
                       THEN Take(work_q, "timerEvent")
                       ELSE Reschedule("timerEvent", SECOND)
      BY <1>7 DEF timerEvent
    <2>2. HoldsForTimeout'
      BY <1>1, <2>1 DEF HoldInv, HoldsForTimeout, ClosedTooEarly
    <2>3. CASE DecrementThrows(timer)
      BY <1>4, <1>5, <2>1, <2>2, <2>3 DEF HoldInv
    <2>4. CASE ~DecrementThrows(timer)
      <3>1. /\ AtMostOne(work_q', "timerEvent")
            /\ \A d \in Delays : work_q'["timerEvent"][d] > 0 => d = SECOND
        BY <1>1, <1>2, <1>4, <2>1, <2>4, RunAgain, JobTypes DEF Reschedule
      <3>2. conf.timeout >= 0
               => (conf'.timeout - timer'.remaining) * SECOND <= age' + SECOND
        <4> SUFFICES ASSUME conf.timeout >= 0
                     PROVE  (conf'.timeout - timer'.remaining) * SECOND
                                <= age' + SECOND
          OBVIOUS
        <4>1. timer.timeout = conf.timeout /\ timer.remaining \in Int
          BY <1>2 DEF CountdownInv, Timers
        <4>2. timer'.remaining = timer.remaining - 1
          BY <1>2, <2>1, <4>1, DecrementFacts DEF FOREVER
        <4>3. conf'.timeout - timer'.remaining
                  = (conf.timeout - timer.remaining) + 1
          BY <1>1, <1>2, <4>1, <4>2
        <4>4. (conf.timeout - timer.remaining) \in Int BY <1>2, <4>1
        <4>5. (conf'.timeout - timer'.remaining) * SECOND
                  = (conf.timeout - timer.remaining) * SECOND + SECOND
          BY <4>3, <4>4, SecondFacts, JobTypes
        <4>6. (conf.timeout - timer.remaining) * SECOND \in Int
          BY <4>4, SecondFacts, JobTypes
        <4> QED BY <1>1, <1>2, <1>4, <4>5, <4>6, JobTypes
      <3> QED BY <1>1, <1>4, <2>2, <3>1, <3>2 DEF HoldInv
    <2> QED BY <2>3, <2>4
  <1> QED BY <1>6, <1>7

(* A tick brings the job one tick nearer and is counted, or the timeout is  *)
(* made up already.                                                         *)
LEMMA TickKeepsHold ==
    ASSUME TypeOK, CountdownInv, HoldInv, Tick PROVE HoldInv'
  <1>1. /\ work_q' = Elapse(work_q)
        /\ age' = IF age < conf.timeout * SECOND THEN age + 1 ELSE age
        /\ UNCHANGED <<conf, timer, conn, opens, sessionFailed>>
    BY DEF Tick
  <1>2. /\ timer \in Timers /\ work_q \in Queues(Jobs, 0..MaxDelay)
        /\ age \in Nat /\ opens \in Nat /\ conf.timeout \in Int
        /\ timer.remaining \in Int
        /\ work_q' \in Queues(Jobs, 0..MaxDelay)
    BY <1>1, OpensAssumption, ElapseType DEF TypeOK, Confs, Delays, Timers
  <1>3. conf.timeout * SECOND \in Int BY <1>2, SecondFacts, JobTypes
  <1>4. HoldsForTimeout'
    BY <1>1, <1>2, <1>3 DEF HoldInv, HoldsForTimeout, ClosedTooEarly
  <1>5. opens = 0 => ~Pending(work_q', "timerEvent")
    <2> SUFFICES ASSUME opens = 0, Pending(work_q', "timerEvent") PROVE FALSE
      OBVIOUS
    <2>1. PICK d \in 0..MaxDelay : Elapse(work_q)["timerEvent"][d] > 0
      BY <1>1, <1>2, JobTypes DEF Pending, Queues
    <2>2. \E e \in 0..MaxDelay : work_q["timerEvent"][e] > 0
      BY <1>2, <2>1, ElapseFrom, JobTypes
    <2>3. Pending(work_q, "timerEvent")
      BY <1>2, <2>2, JobTypes DEF Pending, Queues
    <2> QED BY <2>3 DEF HoldInv
  <1>6. opens <= 1 => AtMostOne(work_q', "timerEvent")
    BY <1>1, <1>2, ElapseOne, JobTypes DEF HoldInv
  <1>7. ASSUME opens <= 1, conf.timeout >= 0, NEW d \in Delays,
               work_q'["timerEvent"][d] > 0
        PROVE  (conf.timeout - timer.remaining) * SECOND <= age' + d
    <2> DEFINE counted == (conf.timeout - timer.remaining) * SECOND
    <2>1. counted \in Int /\ counted <= conf.timeout * SECOND
      <3>1. timer.remaining >= 0 BY <1>7 DEF CountdownInv, WithinBounds
      <3>2. /\ conf.timeout - timer.remaining \in Int
            /\ conf.timeout - timer.remaining <= conf.timeout
        BY <1>2, <3>1
      <3> QED BY <1>2, <3>2, SecondFacts, JobTypes
    <2>2. \A e \in Delays : work_q["timerEvent"][e] > 0 => counted <= age + e
      BY <1>7 DEF HoldInv
    <2>3. d \in Nat /\ age' \in {age, age + 1} BY <1>1, <1>7 DEF Delays
    <2> HIDE DEF counted
    <2>4. \/ d + 1 \in Delays /\ work_q["timerEvent"][d + 1] > 0
          \/ d = 0 /\ work_q["timerEvent"][0] > 0
      BY <1>1, <1>2, <1>7, ElapseFrom, JobTypes DEF Delays
    <2>5. counted <= age + d \/ counted <= age + (d + 1) BY <2>2, <2>4, JobTypes
    <2>6. CASE age < conf.timeout * SECOND
      <3>1. age' = age + 1 BY <1>1, <2>6
      <3> QED BY <1>2, <2>1, <2>3, <2>5, <3>1 DEF counted
    <2>7. CASE ~(age < conf.timeout * SECOND)
      <3>1. age' = age BY <1>1, <2>7
      <3>2. counted <= age BY <1>2, <1>3, <2>1, <2>7
      <3>3. counted <= age' + d BY <1>2, <2>1, <2>3, <3>1, <3>2
      <3> QED BY <3>3 DEF counted
    <2> QED BY <2>6, <2>7
  <1> QED BY <1>1, <1>4, <1>5, <1>6, <1>7 DEF HoldInv

(* Until a reconnection, the countdown never runs ahead of the clock.       *)
THEOREM HoldCorrect == Spec => []HoldInv
  <1>1. Init /\ TypeOK => HoldInv
    <2> SUFFICES ASSUME Init, TypeOK PROVE HoldInv OBVIOUS
    <2>1. conf.timeout \in Int BY DEF TypeOK, Confs
    <2>2. timer.remaining = conf.timeout BY <2>1, NewTimerFacts DEF Init
    <2>3. \A d \in Delays : ~(work_q["timerEvent"][d] > 0)
      BY JobTypes DEF Init, NoJobs
    <2>4. DOMAIN work_q["timerEvent"] = Delays
      BY JobTypes DEF TypeOK, Queues
    <2>5. HoldsForTimeout BY DEF Init, HoldsForTimeout, ClosedTooEarly
    <2> QED BY <2>2, <2>3, <2>4, <2>5 DEF HoldInv, Pending, AtMostOne
  <1>2. TypeOK /\ CountdownInv /\ HoldInv /\ [Next]_vars => HoldInv'
    <2> SUFFICES ASSUME TypeOK, CountdownInv, HoldInv, [Next]_vars
                 PROVE  HoldInv'
      OBVIOUS
    <2>e. ASSUME NEW code, Exit(code) PROVE HoldInv'
      BY <2>e, KeepHold DEF Exit, history
    <2>1. CASE on_container_start
      BY <2>1, <2>e, KeepHold DEF on_container_start, history
    <2>2. CASE on_connection_open BY <2>2, OpenKeepsHold
    <2>3. CASE timerEvent BY <2>3, TimerEventKeepsHold
    <2>4. CASE on_session_error BY <2>4, KeepHold DEF on_session_error
    <2>5. CASE on_error \/ RunReturns BY <2>5, <2>e DEF on_error, RunReturns
    <2>6. CASE on_connection_close
      BY <2>6, KeepHold DEF on_connection_close, history
    <2>7. ASSUME NEW u \in BOOLEAN, on_connection_error(u) PROVE HoldInv'
      BY <2>7, <2>e, KeepHold DEF on_connection_error, history
    <2>8. CASE on_transport_close
      BY <2>8, <2>e, KeepHold DEF on_transport_close, history
    <2>9. CASE on_transport_error
      BY <2>8, <2>9, KeepHold DEF on_transport_error, history
    <2>10. CASE Tick BY <2>10, TickKeepsHold
    <2>11. CASE UNCHANGED vars BY <2>11, KeepHold DEF vars
    <2> QED BY <2>1, <2>2, <2>3, <2>4, <2>5, <2>6, <2>7, <2>8, <2>9, <2>10,
               <2>11
            DEF Next, TransportCloses, Exited
  <1> QED BY <1>1, <1>2, TypeCorrect, CountdownCorrect, PTL DEF Spec

(* HoldsForTimeout, for every timeout, tick and delay.                      *)
THEOREM HoldsForTimeoutCorrect == Spec => []HoldsForTimeout
  <1>1. HoldInv => HoldsForTimeout BY DEF HoldInv
  <1> QED BY <1>1, HoldCorrect, PTL
=============================================================================
