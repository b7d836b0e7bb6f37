------------------------------- MODULE Sender -------------------------------
(***************************************************************************)
(* The sender client (SendingClient::run and SenderHandler): one process   *)
(* that opens one connection and one sending link, sends `count' copies of *)
(* a message, counts the accepted ones and closes the connection when all  *)
(* of them are.  Two jobs keep rescheduling themselves on the work queue   *)
(* of the connection, timerEvent (the countdown) and checkIfCanSend (the   *)
(* polling that paces the sends); the broker's flow frames, outcomes,      *)
(* closes and transport failures call the other handlers in any order.     *)
(***************************************************************************)
EXTENDS ClientOptions, Timer, WorkQueue

CONSTANTS
    CommandLines,   \* the option records the client may be started with
    SECOND,         \* ticks in a second
    MaxDelay,       \* the longest delay, in ticks, a job is scheduled with
    MaxCredit       \* the largest credit the broker grants at once

VARIABLES
    conf,           \* the fields run() fills from the command line
    timer, interval, ready, sent, confirmedSent,    \* other handler fields
    work_q,         \* the jobs pending on the connection's work queue
    conn,           \* how far the connection is
    credit,         \* sndr.credit()
    unsettled,      \* messages sent whose outcome has not arrived
    forgotten,      \* messages sent whose acceptance will never be reported
    status,         \* "running", or the status the process exited with
    quiet           \* history: ticks since the last send (or the start),
                    \* no longer counted once they make up the timeout

options == <<conf, interval>>
progress == <<timer, ready, sent, quiet>>
vars == <<conf, timer, interval, ready, sent, confirmedSent, work_q, conn,
          credit, unsettled, forgotten, status, quiet>>

Jobs == {"timerEvent", "checkIfCanSend"}
Delays == 0..MaxDelay

(* none: run() has not started the container; connecting: also between two  *)
(* attempts; closing: the handler closed it and the broker has not answered; *)
(* ended: the broker closed it; down: the transport is closed for good.     *)
ConnStates == {"none", "connecting", "open", "closing", "ended", "down"}

Modes == {"before-send", "after-send"}
Confs == [count : Int, timeout : Int, duration_time : Int,
          duration_mode : Modes, conn_reconnect : {"true", "false"},
          conn_reconnect_custom : BOOLEAN, conn_use_config_file : BOOLEAN]

(* The defaults of SendingClient::run.                                      *)
SenderFields(cl) ==
    [count                 |-> OptionOr(cl.count, 1),
     timeout               |-> OptionOr(cl.timeout, 1),
     duration_time         |-> OptionOr(cl.duration, 0),
     duration_mode         |-> OptionOr(cl.duration_mode, "after-send"),
     conn_reconnect        |-> ConnReconnect(cl),
     conn_reconnect_custom |-> ConnReconnectCustom(cl),
     conn_use_config_file  |-> cl.conn_use_config_file]

IntervalOf(c) == IF c.duration_time > 0 /\ c.count > 0
                 THEN (c.duration_time * SECOND) \div c.count
                 ELSE IMMEDIATE

ASSUME CommandLinesAssumption ==
    \A cl \in CommandLines : SenderFields(cl) \in Confs
ASSUME DelayAssumption ==
    /\ MaxDelay \in Nat
    /\ SECOND \in 1..MaxDelay
    /\ \A cl \in CommandLines : IntervalOf(SenderFields(cl)) \in Delays
ASSUME CreditAssumption == MaxCredit \in Nat \ {0}

Running == status = "running"
Started == conn # "none"

(* exit(code), or the return of run(): nothing happens after it.            *)
Exit(code) ==
    /\ status' = code
    /\ UNCHANGED <<conf, timer, interval, ready, sent, confirmedSent, work_q,
                   conn, credit, unsettled, forgotten, quiet>>
-----------------------------------------------------------------------------
Init ==
    /\ conf \in {SenderFields(cl) : cl \in CommandLines}
    /\ timer = NewTimer(conf.timeout)
    /\ interval = IMMEDIATE
    /\ ready = FALSE
    /\ sent = 0
    /\ confirmedSent = 0
    /\ work_q = NoJobs(Jobs, Delays)
    /\ conn = "none"
    /\ credit = 0
    /\ unsettled = 0
    /\ forgotten = 0
    /\ status = "running"
    /\ quiet = 0

(* Connect, open the link, start both chains of jobs.  A connect() that     *)
(* throws makes run() return 1.                                             *)
on_container_start ==
    /\ Running
    /\ conn = "none"
    /\ \/ /\ conn' = "connecting"
          /\ interval' = IntervalOf(conf)
          /\ LET first == IF conf.duration_time > 0
                             /\ conf.duration_mode = "before-send"
                          THEN IntervalOf(conf) ELSE IMMEDIATE
             IN  work_q' = Schedule(Schedule(work_q, "timerEvent", IMMEDIATE),
                                    "checkIfCanSend", first)
          /\ UNCHANGED <<conf, progress, confirmedSent, credit, unsettled,
                         forgotten, status>>
       \/ Exit("failure")

Reschedule_unlessSent(job, delay) ==        \* mutant: polls again only in vain
    IF job = "checkIfCanSend" /\ credit > 0
    THEN Take(work_q, job)
    ELSE Schedule(Take(work_q, job), job, delay)

(* A job schedules itself again.                                            *)
Reschedule(job, delay) == Schedule(Take(work_q, job), job, delay)

(* A decrement that throws leaves the job before it reschedules itself; the *)
(* work queue drops the exception.                                          *)
timerEvent ==
    /\ Running
    /\ Runnable(work_q, "timerEvent")
    /\ \/ IsExpired(timer) /\ Exit("success")
       \/ /\ ~IsExpired(timer)
          /\ timer' = Decrement(timer)
          /\ work_q' = IF DecrementThrows(timer)
                       THEN Take(work_q, "timerEvent")
                       ELSE Reschedule("timerEvent", SECOND)
          /\ UNCHANGED <<options, ready, sent, quiet, confirmedSent, conn,
                         credit, unsettled, forgotten, status>>

send_noTimerReset(c) ==                     \* mutant
    /\ sent' = sent + 1
    /\ unsettled' = unsettled + 1
    /\ credit' = c - 1
    /\ quiet' = 0
    /\ ready' = FALSE
    /\ UNCHANGED timer

send_staysReady(c) ==                       \* mutant
    /\ sent' = sent + 1
    /\ unsettled' = unsettled + 1
    /\ credit' = c - 1
    /\ timer' = Reset(timer)
    /\ quiet' = 0
    /\ UNCHANGED ready

send_uncounted(c) ==                        \* mutant
    /\ UNCHANGED sent
    /\ unsettled' = unsettled + 1
    /\ credit' = c - 1
    /\ timer' = Reset(timer)
    /\ quiet' = 0
    /\ ready' = FALSE

(* send(), with c the credit of the link when it is called.                 *)
send(c) ==
    /\ sent' = sent + 1
    /\ unsettled' = unsettled + 1
    /\ credit' = c - 1
    /\ timer' = Reset(timer)
    /\ quiet' = 0
    /\ ready' = FALSE

MoreToSend_offByOne == sent <= conf.count   \* mutant

MoreToSend == sent < conf.count

checkIfCanSend_creditUnchecked ==           \* mutant
    /\ Running
    /\ Runnable(work_q, "checkIfCanSend")
    /\ \/ /\ MoreToSend
          /\ work_q' = Reschedule("checkIfCanSend", interval)
          /\ send(credit)
       \/ /\ ~MoreToSend
          /\ work_q' = Take(work_q, "checkIfCanSend")
          /\ UNCHANGED <<progress, credit, unsettled>>
    /\ UNCHANGED <<options, confirmedSent, conn, forgotten, status>>

checkIfCanSend ==
    /\ Running
    /\ Runnable(work_q, "checkIfCanSend")
    /\ \/ /\ MoreToSend
          /\ work_q' = Reschedule("checkIfCanSend", interval)
          /\ \/ credit > 0 /\ send(credit)
             \/ /\ credit = 0
                /\ ready' = TRUE
                /\ UNCHANGED <<timer, sent, quiet, credit, unsettled>>
       \/ /\ ~MoreToSend
          /\ work_q' = Take(work_q, "checkIfCanSend")
          /\ UNCHANGED <<progress, credit, unsettled>>
    /\ UNCHANGED <<options, confirmedSent, conn, forgotten, status>>

(* A flow frame sets the link's credit to c.  The handler looks at ready     *)
(* only; that it is called with some credit, never without, is Proton's.    *)
on_sendable(c) ==
    /\ Running
    /\ conn \in {"open", "closing"}
    /\ \/ ready /\ c > 0 /\ send(c)
       \/ /\ ~(ready /\ c > 0)
          /\ credit' = c
          /\ UNCHANGED <<progress, unsettled>>
    /\ UNCHANGED <<options, confirmedSent, work_q, conn, forgotten, status>>

LastConfirmation_bySent(n) == sent = conf.count     \* mutant

LastConfirmation(n) == n = conf.count

on_tracker_accept ==
    /\ Running
    /\ conn \in {"open", "closing"}
    /\ unsettled > 0
    /\ unsettled' = unsettled - 1
    /\ confirmedSent' = confirmedSent + 1
    /\ conn' = IF LastConfirmation(confirmedSent') THEN "closing" ELSE conn
    /\ UNCHANGED <<options, progress, work_q, credit, forgotten, status>>

on_tracker_reject ==
    /\ Running
    /\ conn \in {"open", "closing"}
    /\ unsettled > 0
    /\ Exit("failure")

(* A released or modified delivery: the handler has no callback for it.     *)
on_tracker_release ==
    /\ Running
    /\ conn \in {"open", "closing"}
    /\ unsettled > 0
    /\ unsettled' = unsettled - 1
    /\ forgotten' = forgotten + 1
    /\ UNCHANGED <<options, progress, confirmedSent, work_q, conn, credit,
                   status>>
-----------------------------------------------------------------------------
(* The connection.                                                          *)

ConnectionOpens ==
    /\ Running
    /\ conn = "connecting"
    /\ conn' = "open"
    /\ UNCHANGED <<options, progress, confirmedSent, work_q, credit,
                   unsettled, forgotten, status>>

(* The broker closes the connection, or answers the handler's close.        *)
on_connection_close ==
    /\ Running
    /\ conn \in {"open", "closing"}
    /\ conn' = "ended"
    /\ UNCHANGED <<options, progress, confirmedSent, work_q, credit,
                   unsettled, forgotten, status>>

(* ... with an error: the process exits when the user is not accepted.      *)
on_connection_error(invalidUser) ==
    /\ Running
    /\ conn \in {"connecting", "open", "closing"}
    /\ IF invalidUser
       THEN Exit("failure")
       ELSE /\ conn' = "ended"
            /\ UNCHANGED <<options, progress, confirmedSent, work_q, credit,
                           unsettled, forgotten, status>>

(* What is left when the transport is gone: no credit, and no outcome for   *)
(* the deliveries that were open on it.                                     *)
LinkLost ==
    /\ credit' = 0
    /\ unsettled' = 0
    /\ forgotten' = forgotten + unsettled

on_transport_close ==
    IF conf.conn_reconnect = "false"
    THEN Exit("failure")
    ELSE /\ conn' = "down"
         /\ LinkLost
         /\ UNCHANGED <<options, progress, confirmedSent, work_q, status>>

TransportCloses ==
    /\ Running
    /\ conn \in {"closing", "ended"}
    /\ on_transport_close

(* Proton reconnects a connection nobody has closed, if it was told to, and *)
(* opens the link again; otherwise it closes the transport.                 *)
on_transport_error(unauthorized) ==
    /\ Running
    /\ conn \in {"connecting", "open", "closing", "ended"}
    /\ \/ unauthorized /\ Exit("failure")
       \/ /\ ~unauthorized
          /\ ProtonReconnects(conf) /\ conn \in {"connecting", "open"}
          /\ conn' = "connecting"
          /\ LinkLost
          /\ UNCHANGED <<options, progress, confirmedSent, work_q, status>>
       \/ /\ ~unauthorized
          /\ ~(ProtonReconnects(conf) /\ conn \in {"connecting", "open"})
          /\ on_transport_close

(* An error of the link or the session has no handler in the class; the one *)
(* it inherits throws, and run() returns 1.                                 *)
on_error ==
    /\ Running
    /\ conn \in {"open", "closing"}
    /\ Exit("failure")

(* container.run() returns once the connection is down.                     *)
RunReturns ==
    /\ Running
    /\ conn = "down"
    /\ Exit("success")

Tick ==
    /\ Running
    /\ Waiting(work_q)
    /\ work_q' = Elapse(work_q)
    /\ quiet' = IF quiet < conf.timeout * SECOND THEN quiet + 1 ELSE quiet
    /\ UNCHANGED <<options, timer, ready, sent, confirmedSent, conn, credit,
                   unsettled, forgotten, status>>

Exited == ~Running /\ UNCHANGED vars

Next ==
    \/ on_container_start
    \/ timerEvent
    \/ checkIfCanSend
    \/ \E c \in 0..MaxCredit : on_sendable(c)
    \/ on_tracker_accept
    \/ on_tracker_reject
    \/ on_tracker_release
    \/ ConnectionOpens
    \/ on_connection_close
    \/ \E invalidUser \in BOOLEAN : on_connection_error(invalidUser)
    \/ TransportCloses
    \/ \E unauthorized \in BOOLEAN : on_transport_error(unauthorized)
    \/ on_error
    \/ RunReturns
    \/ Tick
    \/ Exited

Spec == Init /\ [][Next]_vars
-----------------------------------------------------------------------------
(* Fairness of the process alone: the event loop runs the jobs that are due *)
(* and time passes.  Nothing is assumed of the broker.                      *)
LoopFairness ==
    /\ WF_vars(on_container_start)
    /\ WF_vars(timerEvent)
    /\ WF_vars(checkIfCanSend)
    /\ WF_vars(RunReturns)
    /\ WF_vars(Tick)

(* A broker that serves the client: it lets it connect, answers its close,  *)
(* grants credit again and again and settles what it receives.              *)
BrokerFairness ==
    /\ WF_vars(ConnectionOpens)
    /\ WF_vars(TransportCloses)
    /\ WF_vars(conn = "closing" /\ on_connection_close)
    /\ SF_vars(\E c \in 1..MaxCredit : on_sendable(c))
    /\ WF_vars(on_tracker_accept \/ on_tracker_release \/ on_tracker_reject)

LiveSpec == Spec /\ LoopFairness
-----------------------------------------------------------------------------
(* Properties.                                                              *)

(* The fields keep the types of the class, and every job waits for a delay  *)
(* of the queue.                                                            *)
TypeOK ==
    /\ conf \in Confs
    /\ timer \in Timers
    /\ interval \in Delays
    /\ ready \in BOOLEAN
    /\ sent \in Nat
    /\ confirmedSent \in Nat
    /\ work_q \in Queues(Jobs, Delays)
    /\ conn \in ConnStates
    /\ credit \in 0..MaxCredit
    /\ unsettled \in Nat
    /\ forgotten \in Nat
    /\ status \in {"running", "success", "failure"}
    /\ quiet \in Nat

(* Two triggers send: the polling job, and on_sendable when the polling     *)
(* found no credit and left `ready'.  Whatever their order, reconnections   *)
(* included, they never send more than count messages between them, and     *)
(* `ready' never survives the last one.                                     *)
NeverOversends ==
    /\ conf.count <= 0 => sent = 0
    /\ conf.count > 0 => sent <= conf.count
    /\ ready => sent < conf.count

(* The handler closes the connection only when the broker has accepted every *)
(* message: none is unsent, without an outcome, released or lost.           *)
CloseMeansDelivered ==
    conn = "closing" => /\ confirmedSent = conf.count
                        /\ sent = conf.count
                        /\ unsettled + forgotten = 0

(* Neither chain of jobs ever forks, the countdown never dies while the     *)
(* process runs (for the timeouts the option is meant for), and polling     *)
(* goes on as long as a message is unsent.                                  *)
ChainsAlive ==
    /\ \A j \in Jobs : AtMostOne(work_q, j)
    /\ Running /\ Started /\ conf.timeout >= FOREVER => Pending(work_q, "timerEvent")
    /\ Running /\ Started /\ sent < conf.count => Pending(work_q, "checkIfCanSend")

(* A countdown that is about to end the process with "Timed out" has seen    *)
(* no send for `timeout' whole seconds, however late the jobs run.          *)
PatientTimer ==
    Runnable(work_q, "timerEvent") /\ IsExpired(timer)
        => quiet >= conf.timeout * SECOND

(* The countdown is about to end the process while the client has credit    *)
(* and only waits for the slot --duration gives its next message.           *)
TimesOutWhilePacing ==
    /\ Running
    /\ Runnable(work_q, "timerEvent")
    /\ IsExpired(timer)
    /\ sent < conf.count
    /\ credit > 0
    /\ ~Runnable(work_q, "checkIfCanSend")

(* Pacing and countdown do not collide as long as a slot is no longer than   *)
(* the timeout: the client never gives up between two slots.                *)
PacingFitsTimeout ==
    interval <= conf.timeout * SECOND => ~TimesOutWhilePacing

(* With a finite timeout the process ends, whatever the broker does.        *)
TimesOut == conf.timeout >= 0 ~> ~Running

(* With a broker that serves it, a client without a timeout never hangs     *)
(* between its two triggers: every message is sent and confirmed, unless    *)
(* the process ends before or an outcome was lost or was no acceptance.     *)
DeliversAll ==
    BrokerFairness =>
        (conf.count > 0
            ~> ~Running \/ confirmedSent = conf.count \/ forgotten > 0)

(* What the option's help promises (ModernOptionsParser.cpp:108): a client  *)
(* whose reconnect setting is true reconnects after a transport error       *)
(* instead of giving the connection up.                                     *)
ReconnectHonoured ==
    [][(conn \in {"connecting", "open"} /\ conn' = "down")
           => conf.conn_reconnect = "false"]_vars

(* The client implements the job: one SendJob step, or none, per event.     *)
Phase == IF ~Running THEN "stopped"
         ELSE IF confirmedSent > 0 /\ confirmedSent = conf.count
         THEN "complete" ELSE "working"

Job == INSTANCE SendJob WITH
           Goals <- Int, goal <- conf.count, submitted <- sent,
           confirmed <- confirmedSent, phase <- Phase

ImplementsJob == Job!JobSpec
=============================================================================
