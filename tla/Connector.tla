------------------------------ MODULE Connector ------------------------------
(***************************************************************************)
(* The connector client (ConnectingClient::run and ConnectorHandler).  It  *)
(* connects, opens the objects --obj-ctrl names, and closes them and the   *)
(* connection when the countdown that on_connection_open starts expires.   *)
(* Proton calls on_connection_open again after a reconnection, and each    *)
(* call adds a chain of timerEvent jobs to the same timer.                 *)
(***************************************************************************)
EXTENDS ClientOptions, Timer, WorkQueue

CONSTANTS
    CommandLines,   \* the option records the client may be started with
    SECOND, MaxDelay,
    MaxOpens        \* how often the connection opens in one run

ASSUME SecondAssumption == MaxDelay \in Nat /\ SECOND \in 1..MaxDelay
ASSUME OpensAssumption == MaxOpens \in Nat

VARIABLES
    conf,           \* the fields run() fills from the command line
    timer,
    objects,        \* sessionObj, senderObj and receiverObj
    work_q,         \* the jobs pending on the connection's work queue
    conn,           \* how far the connection is
    status,         \* "running", or the status the process exited with
    opens,          \* history: calls of on_connection_open
    age,            \* history: ticks since the first of them, no longer
                    \* counted once they make up the timeout
    sessionFailed   \* history: the peer closed the session with an error

history == <<opens, age, sessionFailed>>
vars == <<conf, timer, objects, work_q, conn, status, opens, age, sessionFailed>>

Jobs == {"timerEvent"}
Delays == 0..MaxDelay

(* As a sender's; aborting: closed by the handler before it was open.       *)
ConnStates == {"none", "connecting", "open", "aborting", "closing", "ended",
               "down"}

Objects == {"SESSION", "SENDER", "RECEIVER"}
Links == {"SENDER", "RECEIVER"}

(* The defaults of ConnectingClient::run; the letters E, S and R of         *)
(* --obj-ctrl are the bits of objectControl.                                *)
ConnectorFields(cl) ==
    [timeout               |-> OptionOr(cl.timeout, 0),
     objectControl         |-> OptionOr(cl.obj_ctrl, {}),
     conn_reconnect        |-> ConnReconnect(cl),
     conn_reconnect_custom |-> ConnReconnectCustom(cl),
     conn_use_config_file  |-> cl.conn_use_config_file]

Confs == [timeout : Int, objectControl : SUBSET Objects,
          conn_reconnect : {"true", "false"}, conn_reconnect_custom : BOOLEAN,
          conn_use_config_file : BOOLEAN]

ASSUME CommandLinesAssumption ==
    \A cl \in CommandLines : ConnectorFields(cl) \in Confs

Running == status = "running"

Exit(code) ==
    /\ status' = code
    /\ UNCHANGED <<conf, timer, objects, work_q, conn, history>>
-----------------------------------------------------------------------------
Init ==
    /\ conf \in {ConnectorFields(cl) : cl \in CommandLines}
    /\ timer = NewTimer(conf.timeout)
    /\ objects = [o \in Objects |-> "uninitialized"]
    /\ work_q = NoJobs(Jobs, Delays)
    /\ conn = "none"
    /\ status = "running"
    /\ opens = 0
    /\ age = 0
    /\ sessionFailed = FALSE

(* A connect() that throws makes run() return 1.                            *)
on_container_start ==
    /\ Running
    /\ conn = "none"
    /\ \/ Exit("failure")
       \/ /\ conn' = "connecting"
          /\ UNCHANGED <<conf, timer, objects, work_q, status, history>>

OpenObjects_all ==                          \* mutant: whatever was asked for
    objects' = [o \in Objects |-> "open"]

(* The objects that were asked for; after a reconnection, new links.        *)
OpenObjects ==
    objects' = [o \in Objects |->
                    IF o \in conf.objectControl THEN "open" ELSE objects[o]]

(* Proton also calls it for a connection the handler has closed meanwhile.  *)
on_connection_open ==
    /\ Running
    /\ conn \in {"connecting", "aborting"}
    /\ opens < MaxOpens
    /\ opens' = opens + 1
    /\ conn' = IF conn = "connecting" THEN "open" ELSE "closing"
    /\ OpenObjects
    /\ work_q' = Schedule(work_q, "timerEvent", IMMEDIATE)
    /\ UNCHANGED <<conf, timer, status, age, sessionFailed>>

closeObjects_linksOnly ==                   \* mutant: the session stays open
    /\ objects' = [o \in Objects |->
                       IF o \in Links /\ objects[o] = "open"
                       THEN "closed" ELSE objects[o]]
    /\ conn' = CASE conn = "connecting" -> "aborting"
                 [] conn = "open"       -> "closing"
                 [] OTHER               -> conn

(* Close what is open of the objects, then the connection.                  *)
closeObjects ==
    /\ objects' = [o \in Objects |->
                       IF o \in conf.objectControl /\ objects[o] = "open"
                       THEN "closed" ELSE objects[o]]
    /\ conn' = CASE conn = "connecting" -> "aborting"
                 [] conn = "open"       -> "closing"
                 [] OTHER               -> conn

Reschedule_untilZero(job, delay) ==         \* mutant: not for the last second
    IF timer.remaining = 1
    THEN Take(work_q, job)
    ELSE Schedule(Take(work_q, job), job, delay)

Reschedule_atOnce(job, delay) ==            \* mutant: the delay is ignored
    Schedule(Take(work_q, job), job, IMMEDIATE)

(* A job schedules itself again.                                            *)
Reschedule(job, delay) == Schedule(Take(work_q, job), job, delay)

(* The expired countdown closes everything and does not schedule itself     *)
(* again; a decrement that throws leaves the job before it does.            *)
timerEvent ==
    /\ Running
    /\ Runnable(work_q, "timerEvent")
    /\ \/ /\ IsExpired(timer)
          /\ closeObjects
          /\ work_q' = Take(work_q, "timerEvent")
          /\ UNCHANGED timer
       \/ /\ ~IsExpired(timer)
          /\ timer' = Decrement(timer)
          /\ work_q' = IF DecrementThrows(timer)
                       THEN Take(work_q, "timerEvent")
                       ELSE Reschedule("timerEvent", SECOND)
          /\ UNCHANGED <<objects, conn>>
    /\ UNCHANGED <<conf, status, history>>

(* The session of the links when none was asked for.                        *)
on_session_error ==
    /\ Running
    /\ conn \in {"open", "closing"}
    /\ conf.objectControl # {}
    /\ closeObjects
    /\ sessionFailed' = TRUE
    /\ UNCHANGED <<conf, timer, work_q, status, opens, age>>

(* The error of a link has no handler in the class: the inherited one       *)
(* throws, and run() returns 1.                                             *)
on_error ==
    /\ Running
    /\ conn \in {"open", "closing"}
    /\ conf.objectControl \intersect Links # {}
    /\ Exit("failure")
-----------------------------------------------------------------------------
(* The peer closes the connection, or answers the handler's close.          *)
on_connection_close ==
    /\ Running
    /\ conn \in {"open", "closing"}
    /\ conn' = "ended"
    /\ UNCHANGED <<conf, timer, objects, work_q, status, history>>

on_connection_error(invalidUser) ==
    /\ Running
    /\ conn \in {"connecting", "aborting", "open", "closing"}
    /\ IF invalidUser
       THEN Exit("failure")
       ELSE /\ conn' = "ended"
            /\ UNCHANGED <<conf, timer, objects, work_q, status, history>>

on_transport_close ==
    IF conf.conn_reconnect = "false"
    THEN Exit("failure")
    ELSE /\ conn' = "down"
         /\ UNCHANGED <<conf, timer, objects, work_q, status, history>>

TransportCloses ==
    /\ Running
    /\ conn \in {"closing", "ended"}
    /\ on_transport_close

(* Proton reconnects a connection nobody has closed, if it was told to;     *)
(* otherwise the transport closes.                                          *)
on_transport_error ==
    /\ Running
    /\ conn \in {"connecting", "aborting", "open", "closing", "ended"}
    /\ IF ProtonReconnects(conf) /\ conn \in {"connecting", "open"}
       THEN /\ conn' = "connecting"
            /\ UNCHANGED <<conf, timer, objects, work_q, status, history>>
       ELSE on_transport_close

(* container.run() returns once the connection is down.                     *)
RunReturns ==
    /\ Running
    /\ conn = "down"
    /\ Exit("success")

Tick ==
    /\ Running
    /\ Waiting(work_q)
    /\ work_q' = Elapse(work_q)
    /\ age' = IF age < conf.timeout * SECOND THEN age + 1 ELSE age
    /\ UNCHANGED <<conf, timer, objects, conn, status, opens, sessionFailed>>

Exited == ~Running /\ UNCHANGED vars

Next ==
    \/ on_container_start
    \/ on_connection_open
    \/ timerEvent
    \/ on_session_error
    \/ on_error
    \/ on_connection_close
    \/ \E invalidUser \in BOOLEAN : on_connection_error(invalidUser)
    \/ TransportCloses
    \/ on_transport_error
    \/ RunReturns
    \/ Tick
    \/ Exited

Spec == Init /\ [][Next]_vars

(* Fairness of the process alone: the event loop runs the jobs that are due *)
(* and time passes.                                                         *)
LoopFairness ==
    /\ WF_vars(on_container_start)
    /\ WF_vars(timerEvent)
    /\ WF_vars(RunReturns)
    /\ WF_vars(Tick)

LiveSpec == Spec /\ LoopFairness
-----------------------------------------------------------------------------
(* Properties.                                                              *)

(* The fields keep their types, and only the objects that were asked for    *)
(* are ever opened.                                                         *)
TypeOK ==
    /\ conf \in Confs
    /\ timer \in Timers
    /\ objects \in [Objects -> {"uninitialized", "open", "closed"}]
    /\ work_q \in Queues(Jobs, Delays)
    /\ conn \in ConnStates
    /\ status \in {"running", "success", "failure"}
    /\ opens \in 0..MaxOpens
    /\ age \in Nat
    /\ sessionFailed \in BOOLEAN
    /\ \A o \in Objects \ conf.objectControl : objects[o] = "uninitialized"

(* While the connection is open, or being made again, a countdown that is   *)
(* not over goes on (for the timeouts the option is meant for).             *)
CountsDown ==
    Running /\ opens > 0 /\ conn \in {"connecting", "open"} /\ ~sessionFailed
        /\ conf.timeout >= FOREVER
    => Pending(work_q, "timerEvent")

(* The handler never leaves an object of a connection it closed open: when  *)
(* the connection is reported open after that, a job to close it is due.    *)
ClosesEverything ==
    conn \in {"aborting", "closing"} /\ (\E o \in Objects : objects[o] = "open")
    => Runnable(work_q, "timerEvent")

(* A handler that closes the connection for the countdown has held it for   *)
(* `timeout' whole seconds, however late the jobs run ...                    *)
ClosedTooEarly ==
    /\ conn \in {"aborting", "closing"}
    /\ ~sessionFailed
    /\ age < conf.timeout * SECOND

(* ... as long as it opened only once.                                      *)
HoldsForTimeout == opens <= 1 => ~ClosedTooEarly

(* What the help of --timeout says of every run                             *)
(* (ConnectorOptionsParser.cpp:37), one with a reconnection included.       *)
HoldsAcrossReconnects == ~ClosedTooEarly

(* With a finite timeout a connection that has opened is given up, however  *)
(* often it is lost and made again.                                         *)
GivesUp ==
    conf.timeout >= 0 /\ opens > 0
        ~> ~Running \/ conn \notin {"connecting", "open"}
=============================================================================
