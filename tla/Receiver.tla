------------------------------ MODULE Receiver ------------------------------
(***************************************************************************)
(* The receiver client (ReceivingClient::run and ReceiverHandler).  It     *)
(* connects to a broker and opens a link, or (--recv-listen) waits for     *)
(* peers that connect to it; it counts the messages, applies its action to *)
(* the last one of each batch, can send a message on to its reply-to       *)
(* address, and closes the connection at the count-th message.  timerEvent *)
(* is the only chain of jobs; drain runs once, if at all.                  *)
(***************************************************************************)
EXTENDS ClientOptions, Timer, WorkQueue

CONSTANTS
    CommandLines,   \* the option records the client may be started with
    Peers,          \* the connections there can be
    Broker,         \* the one a client that does not listen makes
    ReplyTos,       \* the reply-to addresses of messages; NoReplyTo: none
    NoReplyTo,
    DefaultWindow,  \* Proton's credit window
    MaxMessages,    \* the messages the peers send in one run
    SECOND, MaxDelay

ASSUME PeersAssumption == Broker \in Peers /\ NoReplyTo \notin ReplyTos
ASSUME WindowAssumption == DefaultWindow \in Nat /\ MaxMessages \in Nat
ASSUME SecondAssumption == MaxDelay \in Nat /\ SECOND \in 1..MaxDelay

VARIABLES
    conf,           \* the fields run() fills from the command line
    timer, msg_received_cnt,
    senders,        \* the addresses a reply sender is open for
    work_q,         \* the pending jobs, of the container when it listens
    started,        \* on_container_start has run
    conn, link,     \* of every peer
    incoming,       \* messages of a peer the handler has not seen yet
    status,         \* "running", or how the process ended
    acted,          \* the messages the action was applied to
    quiet           \* history: ticks since a message was handled (or the
                    \* start), no longer counted once they make up the timeout

vars == <<conf, timer, msg_received_cnt, senders, work_q, started, conn, link,
          incoming, status, acted, quiet>>
handled == <<timer, msg_received_cnt, senders, acted, quiet>>

Jobs == {"timerEvent", "drain"}
Delays == 0..MaxDelay
ConnStates == {"none", "connecting", "open", "closing", "ended", "down"}
LinkStates == {"none", "open", "closed", "detached"}
Actions == {"no-action", "ack", "reject", "release"}

(* printable: --log-msgs dict can show it (interop catches what it throws).  *)
Messages == [reply_to : ReplyTos \union {NoReplyTo}, printable : BOOLEAN]

(* The subscription has a name when one is given or made up.                *)
HasSubscriptionName(cl) ==
    cl.named \/ (cl.topic /\ (cl.durable \/ cl.unsubscribe))

(* The defaults of ReceivingClient::run; log_msgs: the dict format is asked  *)
(* for.                                                                      *)
ReceiverFields(cl) ==
    [count                 |-> OptionOr(cl.count, 0),
     timeout               |-> OptionOr(cl.timeout, FOREVER),
     duration_time         |-> OptionOr(cl.duration, 0),
     msg_action            |-> OptionOr(cl.action, "no-action"),
     msg_action_size       |-> OptionOr(cl.action_size, 1),
     log_msgs              |-> cl.log_msgs,
     process_reply_to      |-> cl.process_reply_to,
     browse                |-> cl.browse,
     recv_listen           |-> OptionOr(cl.recv_listen, "false"),
     recv_credit_window    |-> OptionOr(cl.window, -1),
     recv_drain_after_credit_window |-> cl.drain,
     durable_subscriber    |-> cl.durable,
     unsubscribes          |-> cl.unsubscribe /\ HasSubscriptionName(cl),
     conn_reconnect        |-> ConnReconnect(cl),
     conn_reconnect_custom |-> ConnReconnectCustom(cl),
     conn_use_config_file  |-> cl.conn_use_config_file]

Confs == [count : Int, timeout : Int, duration_time : Int,
          msg_action : Actions, msg_action_size : Nat \ {0},
          log_msgs : BOOLEAN, process_reply_to : BOOLEAN, browse : BOOLEAN,
          recv_listen : {"true", "false"}, recv_credit_window : Nat \union {-1},
          recv_drain_after_credit_window : BOOLEAN,
          durable_subscriber : BOOLEAN, unsubscribes : BOOLEAN,
          conn_reconnect : {"true", "false"}, conn_reconnect_custom : BOOLEAN,
          conn_use_config_file : BOOLEAN]

ASSUME CommandLinesAssumption ==
    \A cl \in CommandLines : ReceiverFields(cl) \in Confs

(* A listening client opens no link itself: `recv' stays a null link.       *)
Listens == conf.recv_listen = "true" /\ ~conf.browse

(* The credit window of the links; the links of a listener keep Proton's.   *)
Window == IF Listens THEN DefaultWindow
          ELSE IF conf.recv_credit_window # -1 THEN conf.recv_credit_window
          ELSE IF conf.duration_time > 0 THEN 1 ELSE DefaultWindow

Running == status = "running"

(* The process ends: exit(code), run() returning, or a call on the null     *)
(* link, which the build turns into a crash.                                *)
Exit(code) ==
    /\ status' = code
    /\ UNCHANGED <<conf, handled, work_q, started, conn, link, incoming>>
-----------------------------------------------------------------------------
Init ==
    /\ conf \in {ReceiverFields(cl) : cl \in CommandLines}
    /\ timer = NewTimer(conf.timeout)
    /\ msg_received_cnt = 0
    /\ senders = {}
    /\ work_q = NoJobs(Jobs, Delays)
    /\ started = FALSE
    /\ conn = [p \in Peers |-> "none"]
    /\ link = [p \in Peers |-> "none"]
    /\ incoming = [p \in Peers |-> 0]
    /\ status = "running"
    /\ acted = 0
    /\ quiet = 0

ConnAtStart_linkOnly == "connecting"                            \* mutant

ConnAtStart == IF conf.unsubscribes THEN "closing" ELSE "connecting"

(* Connect and open the link, or listen; a call that fails makes run()      *)
(* return 1.  A client that unsubscribes closes both again at once and      *)
(* starts no countdown.                                                     *)
on_container_start ==
    /\ Running
    /\ ~started
    /\ \/ Exit("failure")
       \/ Listens /\ conf.unsubscribes /\ Exit("crashed")
       \/ /\ ~(Listens /\ conf.unsubscribes)
          /\ started' = TRUE
          /\ IF Listens
             THEN UNCHANGED <<conn, link>>
             ELSE /\ conn' = [conn EXCEPT ![Broker] = ConnAtStart]
                  /\ link' = [link EXCEPT ![Broker] =
                      IF conf.unsubscribes THEN "closed" ELSE "open"]
          /\ work_q' = IF conf.unsubscribes THEN work_q
                       ELSE Schedule(work_q, "timerEvent", IMMEDIATE)
          /\ UNCHANGED <<conf, handled, incoming, status>>

Reschedule_untilZero(job, delay) ==         \* mutant: not for the last second
    IF timer.remaining = 1
    THEN Take(work_q, job)
    ELSE Schedule(Take(work_q, job), job, delay)

(* A job schedules itself again.                                            *)
Reschedule(job, delay) == Schedule(Take(work_q, job), job, delay)

(* A decrement that throws leaves the job before it reschedules itself.  A  *)
(* work queue drops the exception; the container that runs the job of a     *)
(* listener does not, and run() returns 1.                                  *)
timerEvent ==
    /\ Running
    /\ Runnable(work_q, "timerEvent")
    /\ \/ IsExpired(timer) /\ Exit("success")
       \/ /\ ~IsExpired(timer)
          /\ timer' = Decrement(timer)
          /\ work_q' = IF DecrementThrows(timer)
                       THEN Take(work_q, "timerEvent")
                       ELSE Reschedule("timerEvent", SECOND)
          /\ status' = IF DecrementThrows(timer) /\ conf.recv_listen = "true"
                       THEN "failure" ELSE status
          /\ UNCHANGED <<conf, msg_received_cnt, senders, started, conn, link,
                         incoming, acted, quiet>>

drain ==
    /\ Running
    /\ Runnable(work_q, "drain")
    /\ \/ Listens /\ Exit("crashed")
       \/ /\ ~Listens
          /\ work_q' = Take(work_q, "drain")
          /\ UNCHANGED <<conf, handled, started, conn, link, incoming, status>>
-----------------------------------------------------------------------------
(* on_message                                                               *)

BatchEnd(n) == n % conf.msg_action_size = 0

do_message_action(n) ==
    acted' = IF BatchEnd(n) /\ conf.msg_action # "no-action"
             THEN acted + 1 ELSE acted

Replies_unchecked(m) == conf.process_reply_to                   \* mutant

Replies(m) == conf.process_reply_to /\ m.reply_to # NoReplyTo

(* The sender of a new address is opened on the connection of `recv'.       *)
do_process_reply_to(m) ==
    senders' = IF Replies(m) THEN senders \union {m.reply_to} ELSE senders

CountReached_offByOne(n) == ~conf.process_reply_to /\ n > conf.count   \* mutant

CountReached(n) == ~conf.process_reply_to /\ n = conf.count

DrainDue(n) ==
    conf.recv_drain_after_credit_window /\ n = conf.recv_credit_window

ResetTimer_never == UNCHANGED timer                             \* mutant

ResetTimer == timer' = Reset(timer)

(* The whole handler, for a message it can print and reply to.              *)
HandleMessage(p, m, n) ==
    /\ do_message_action(n)
    /\ do_process_reply_to(m)
    /\ work_q' = IF DrainDue(n) THEN Schedule(work_q, "drain", IMMEDIATE)
                 ELSE work_q
    /\ IF CountReached(n)
       THEN /\ link' = [link EXCEPT ![p] = IF conf.durable_subscriber
                                           THEN "detached" ELSE "closed"]
            /\ conn' = [conn EXCEPT ![p] = "closing"]
            /\ UNCHANGED timer
       ELSE /\ ResetTimer
            /\ UNCHANGED <<link, conn>>
    /\ UNCHANGED status

(* A message that cannot be printed throws out of the handler, and run()    *)
(* returns 1; a reply in a listener asks the null link for its connection.  *)
on_message(p, m) ==
    /\ Running
    /\ conn[p] \in {"open", "closing"}
    /\ link[p] \in {"open", "detached"}
    /\ incoming[p] > 0
    /\ incoming' = [incoming EXCEPT ![p] = @ - 1]
    /\ msg_received_cnt' = msg_received_cnt + 1
    /\ quiet' = 0
    /\ \/ /\ conf.log_msgs /\ ~m.printable
          /\ status' = "failure"
          /\ UNCHANGED <<timer, senders, acted, work_q, conn, link>>
       \/ /\ ~(conf.log_msgs /\ ~m.printable)
          /\ Listens /\ Replies(m)
          /\ do_message_action(msg_received_cnt')
          /\ status' = "crashed"
          /\ UNCHANGED <<timer, senders, work_q, conn, link>>
       \/ /\ ~(conf.log_msgs /\ ~m.printable)
          /\ ~(Listens /\ Replies(m))
          /\ HandleMessage(p, m, msg_received_cnt')
    /\ UNCHANGED <<conf, started>>
-----------------------------------------------------------------------------
(* The peers and the connections with them.                                 *)

(* A peer sends a message the link has credit for.                          *)
Arrives(p) ==
    /\ Running
    /\ conn[p] = "open"
    /\ link[p] = "open"
    /\ incoming[p] < Window
    /\ msg_received_cnt + incoming[p] < MaxMessages
    /\ incoming' = [incoming EXCEPT ![p] = @ + 1]
    /\ UNCHANGED <<conf, handled, work_q, started, conn, link, status>>

ConnectionOpens(p) ==
    /\ Running
    /\ conn[p] = "connecting"
    /\ conn' = [conn EXCEPT ![p] = "open"]
    /\ UNCHANGED <<conf, handled, work_q, started, link, incoming, status>>

(* A peer of a listener connects and attaches its link.                     *)
PeerConnects(p) ==
    /\ Running
    /\ started /\ Listens
    /\ conn[p] = "none"
    /\ conn' = [conn EXCEPT ![p] = "open"]
    /\ link' = [link EXCEPT ![p] = "open"]
    /\ UNCHANGED <<conf, handled, work_q, started, incoming, status>>

ConnectionEnds(p) ==
    /\ conn' = [conn EXCEPT ![p] = "ended"]
    /\ incoming' = [incoming EXCEPT ![p] = 0]
    /\ UNCHANGED <<conf, handled, work_q, started, link, status>>

(* The peer closes the connection, or answers the handler's close.          *)
on_connection_close(p) ==
    /\ Running
    /\ conn[p] \in {"open", "closing"}
    /\ ConnectionEnds(p)

on_connection_error(p, invalidUser) ==
    /\ Running
    /\ conn[p] \in {"connecting", "open", "closing"}
    /\ IF invalidUser THEN Exit("failure") ELSE ConnectionEnds(p)

on_transport_close(p) ==
    \/ conf.conn_reconnect = "false" /\ Exit("failure")
    \/ /\ conf.conn_reconnect # "false"
       /\ msg_received_cnt = conf.count
       /\ Exit("success")
    \/ /\ conf.conn_reconnect # "false"
       /\ msg_received_cnt # conf.count
       /\ conn' = [conn EXCEPT ![p] = "down"]
       /\ incoming' = [incoming EXCEPT ![p] = 0]
       /\ UNCHANGED <<conf, handled, work_q, started, link, status>>

TransportCloses(p) ==
    /\ Running
    /\ conn[p] \in {"closing", "ended"}
    /\ on_transport_close(p)

(* Only a connection the client made is made again.                         *)
Reconnects(p) ==
    ~Listens /\ ProtonReconnects(conf) /\ conn[p] \in {"connecting", "open"}

on_transport_error(p, unauthorized) ==
    /\ Running
    /\ conn[p] \in {"connecting", "open", "closing", "ended"}
    /\ \/ unauthorized /\ Exit("failure")
       \/ /\ ~unauthorized
          /\ Reconnects(p)
          /\ conn' = [conn EXCEPT ![p] = "connecting"]
          /\ incoming' = [incoming EXCEPT ![p] = 0]
          /\ UNCHANGED <<conf, handled, work_q, started, link, status>>
       \/ /\ ~unauthorized
          /\ ~Reconnects(p)
          /\ on_transport_close(p)

(* An error of a link or a session: the inherited handler throws.           *)
on_error(p) ==
    /\ Running
    /\ conn[p] \in {"open", "closing"}
    /\ Exit("failure")

(* container.run() returns once the only connection is down; a listener     *)
(* keeps it running.                                                        *)
RunReturns ==
    /\ Running
    /\ ~Listens
    /\ conn[Broker] = "down"
    /\ Exit("success")

Tick ==
    /\ Running
    /\ Waiting(work_q)
    /\ work_q' = Elapse(work_q)
    /\ quiet' = IF quiet < conf.timeout * SECOND THEN quiet + 1 ELSE quiet
    /\ UNCHANGED <<conf, timer, msg_received_cnt, senders, started, conn, link,
                   incoming, status, acted>>

Exited == ~Running /\ UNCHANGED vars

Next ==
    \/ on_container_start
    \/ timerEvent
    \/ drain
    \/ \E p \in Peers, m \in Messages : on_message(p, m)
    \/ \E p \in Peers : Arrives(p)
    \/ \E p \in Peers : ConnectionOpens(p)
    \/ \E p \in Peers : PeerConnects(p)
    \/ \E p \in Peers : on_connection_close(p)
    \/ \E p \in Peers, invalidUser \in BOOLEAN : on_connection_error(p, invalidUser)
    \/ \E p \in Peers : TransportCloses(p)
    \/ \E p \in Peers, unauthorized \in BOOLEAN : on_transport_error(p, unauthorized)
    \/ \E p \in Peers : on_error(p)
    \/ RunReturns
    \/ Tick
    \/ Exited

Spec == Init /\ [][Next]_vars
-----------------------------------------------------------------------------
(* Fairness of the process alone: the event loop runs the jobs that are due *)
(* and time passes.                                                         *)
LoopFairness ==
    /\ WF_vars(on_container_start)
    /\ WF_vars(timerEvent)
    /\ WF_vars(drain)
    /\ WF_vars(RunReturns)
    /\ WF_vars(Tick)

(* Peers that answer a close, after which the transport is closed.          *)
PeerFairness ==
    \A p \in Peers : /\ WF_vars(conn[p] = "closing" /\ on_connection_close(p))
                     /\ WF_vars(TransportCloses(p))

LiveSpec == Spec /\ LoopFairness
-----------------------------------------------------------------------------
(* Properties.                                                              *)

(* The fields keep the types of the class; a reply sender is only ever open *)
(* for an address a message named.                                          *)
TypeOK ==
    /\ conf \in Confs
    /\ timer \in Timers
    /\ msg_received_cnt \in Nat
    /\ senders \subseteq ReplyTos
    /\ work_q \in Queues(Jobs, Delays)
    /\ started \in BOOLEAN
    /\ conn \in [Peers -> ConnStates]
    /\ link \in [Peers -> LinkStates]
    /\ incoming \in [Peers -> Nat]
    /\ status \in {"running", "success", "failure", "crashed"}
    /\ acted \in 0..msg_received_cnt
    /\ quiet \in Nat

(* A client of a broker that is to stop after count messages handles no     *)
(* more of them, reconnections included.  A durable subscriber detaches its *)
(* link instead of closing it, and may still be handed what was in flight:  *)
(* less than a credit window.                                               *)
NeverOverreceives ==
    ~Listens /\ conf.count > 0 /\ ~conf.process_reply_to =>
        \/ msg_received_cnt <= conf.count
        \/ /\ conf.durable_subscriber
           /\ msg_received_cnt < conf.count + Window

(* The countdown never forks, and never dies while the process runs (for    *)
(* the timeouts the option is meant for) unless the client unsubscribes;    *)
(* a drain is never due twice, which Proton would refuse.                   *)
ChainsAlive ==
    /\ \A j \in Jobs : AtMostOne(work_q, j)
    /\ Running /\ started /\ ~conf.unsubscribes /\ conf.timeout >= FOREVER
           => Pending(work_q, "timerEvent")

(* A countdown about to end the process with "Timed out" has seen no        *)
(* message for `timeout' whole seconds, however late the jobs run.  The     *)
(* count-th message is the exception: its handler closes the connection     *)
(* and does not reset the timer.                                            *)
PatientTimer ==
    /\ Running
    /\ Runnable(work_q, "timerEvent")
    /\ IsExpired(timer)
    /\ conf.process_reply_to \/ msg_received_cnt # conf.count
           \/ msg_received_cnt = 0
    => quiet >= conf.timeout * SECOND

(* With a finite timeout the process ends once the messages stop, whatever  *)
(* else the peers do, unless it unsubscribes and so never counts down.      *)
TimesOut == conf.timeout >= 0 /\ ~conf.unsubscribes ~> ~Running

(* The client stops after COUNT messages (ReceiverOptionsParser.cpp:20),    *)
(* when the peers answer its close; one that replies never does.            *)
StopsAfterCount ==
    PeerFairness =>
        (conf.count > 0 /\ msg_received_cnt >= conf.count
            /\ ~conf.process_reply_to ~> ~Running)

(* A client that unsubscribes starts no countdown: it closes its link and   *)
(* its connection as soon as it has asked for them, and ends when its peer  *)
(* answers, whether the connection has opened by then or fails.             *)
UnsubscribingEnds ==
    PeerFairness => (started /\ conf.unsubscribes ~> ~Running)

(* A client never calls a link it has not opened: a message with a reply-to *)
(* address is answered (ReceiverOptionsParser.cpp:54), not fatal.           *)
NeverCrashes == status # "crashed"
=============================================================================
