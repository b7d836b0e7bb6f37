----------------------------- MODULE PeerToPeer -----------------------------
(***************************************************************************)
(* A sender that connects to a listening receiver (--recv-listen true), no *)
(* broker between them.  Each event one client's module leaves to its peer *)
(* is here the step of the other client, or of the connection between them:*)
(* messages and outcomes travel in order, a process that exits or loses    *)
(* its transport takes the connection with it, and a sender that reconnects*)
(* makes a new one.                                                        *)
(***************************************************************************)
EXTENDS Integers, Sequences

CONSTANTS
    Unset, NoReplyTo,
    SenderLines, ReceiverLines,     \* the command lines of the two clients
    Peers,          \* the connections there can be, one after the other
    FirstPeer, NoPeer,
    Credit,         \* the credit window of the receiver's links
    MaxBreaks,      \* how often the network fails
    MaxMessages,    \* bounds the messages the receiver gets
    SECOND, MaxDelay

ASSUME PeersAssumption == FirstPeer \in Peers /\ NoPeer \notin Peers
ASSUME CreditAssumption == Credit \in Nat \ {0}
ASSUME MessagesAssumption == MaxMessages \in Nat

VARIABLES
    s_conf, s_timer, interval, ready, sent, confirmedSent, s_work_q, s_conn,
    credit, unsettled, forgotten, s_status, s_quiet,
    r_conf, r_timer, msg_received_cnt, senders, r_work_q, started, r_conn, link,
    incoming, r_status, acted, r_quiet,
    peer,           \* the connection the sender has, or NoPeer
    transit,        \* messages on it the receiver's side has not got
    outcomes,       \* what the receiver did, on its way back
    accepted,       \* history: the messages it accepted
    breaks          \* history: failures of the network so far

S == INSTANCE Sender WITH
        CommandLines <- SenderLines, MaxCredit <- Credit, conf <- s_conf,
        timer <- s_timer, work_q <- s_work_q, conn <- s_conn,
        status <- s_status, quiet <- s_quiet

R == INSTANCE Receiver WITH
        CommandLines <- ReceiverLines, Broker <- FirstPeer, ReplyTos <- {},
        DefaultWindow <- Credit, conf <- r_conf, timer <- r_timer,
        work_q <- r_work_q, conn <- r_conn,
        status <- r_status, quiet <- r_quiet

ASSUME LinesAssumption ==
    /\ \A cl \in SenderLines : S!SenderFields(cl) \in S!Confs
    /\ \A cl \in ReceiverLines : R!ReceiverFields(cl) \in R!Confs

s_vars == <<s_conf, s_timer, interval, ready, sent, confirmedSent, s_work_q,
            s_conn, credit, unsettled, forgotten, s_status, s_quiet>>
r_vars == <<r_conf, r_timer, msg_received_cnt, senders, r_work_q, started,
            r_conn, link, incoming, r_status, acted, r_quiet>>
wire == <<peer, transit, outcomes>>
vars == <<s_vars, r_vars, wire, accepted, breaks>>

Message == [reply_to |-> NoReplyTo, printable |-> TRUE]

Init ==
    /\ S!Init
    /\ R!Init
    /\ peer = NoPeer
    /\ transit = 0
    /\ outcomes = <<>>
    /\ accepted = 0
    /\ breaks = 0
-----------------------------------------------------------------------------
(* What the two clients do on their own.                                    *)

SenderAlone == UNCHANGED <<r_vars, wire, accepted, breaks>>
ReceiverAlone == UNCHANGED <<s_vars, wire, accepted, breaks>>

SenderStarts == S!on_container_start /\ SenderAlone
SenderCountsDown == S!timerEvent /\ SenderAlone
SenderReturns == S!RunReturns /\ SenderAlone
SenderTick == S!Tick /\ SenderAlone
ReceiverStarts == R!on_container_start /\ ReceiverAlone
ReceiverCountsDown == R!timerEvent /\ ReceiverAlone
ReceiverTick == R!Tick /\ ReceiverAlone

(* The polling may send.                                                    *)
SenderPolls ==
    /\ S!checkIfCanSend
    /\ transit' = transit + (unsettled' - unsettled)
    /\ UNCHANGED <<r_vars, peer, outcomes, accepted, breaks>>

(* The credit the receiver has given for messages that are not sent yet.    *)
Granted == Credit - incoming[peer] - transit

(* A flow frame; on_sendable may send.                                      *)
FlowArrives(c) ==
    /\ peer # NoPeer
    /\ c \in credit..Granted
    /\ S!on_sendable(c)
    /\ transit' = transit + (unsettled' - unsettled)
    /\ UNCHANGED <<r_vars, peer, outcomes, accepted, breaks>>

TransferArrives ==
    /\ transit > 0
    /\ peer # NoPeer
    /\ R!Arrives(peer)
    /\ transit' = transit - 1
    /\ UNCHANGED <<s_vars, peer, outcomes, accepted, breaks>>

(* The action of the handler, on the last message of a batch; a link opened *)
(* without other options accepts every message its handler has not settled. *)
Outcome(n) ==
    CASE R!BatchEnd(n) /\ r_conf.msg_action = "reject"  -> "rejected"
      [] R!BatchEnd(n) /\ r_conf.msg_action = "release" -> "released"
      [] OTHER -> "accepted"

ReceiverHandles(p) ==
    /\ R!on_message(p, Message)
    /\ outcomes' = IF p = peer THEN Append(outcomes, Outcome(msg_received_cnt'))
                               ELSE outcomes
    /\ accepted' = accepted + IF Outcome(msg_received_cnt') = "accepted" THEN 1 ELSE 0
    /\ UNCHANGED <<s_vars, peer, transit, breaks>>

OutcomeArrives ==
    /\ outcomes # <<>>
    /\ CASE Head(outcomes) = "accepted" -> S!on_tracker_accept
         [] Head(outcomes) = "rejected" -> S!on_tracker_reject
         [] Head(outcomes) = "released" -> S!on_tracker_release
    /\ outcomes' = Tail(outcomes)
    /\ UNCHANGED <<r_vars, peer, transit, accepted, breaks>>
-----------------------------------------------------------------------------
(* The connection.                                                          *)

Connects(p) ==
    /\ peer = NoPeer
    /\ S!ConnectionOpens
    /\ R!PeerConnects(p)
    /\ peer' = p
    /\ UNCHANGED <<transit, outcomes, accepted, breaks>>

(* The close of the receiver, behind the outcomes it has sent, or its       *)
(* answer to the sender's.                                                  *)
SenderHearsClose ==
    /\ peer # NoPeer
    /\ r_conn[peer] \in {"closing", "ended"}
    /\ outcomes = <<>>
    /\ S!on_connection_close
    /\ UNCHANGED <<r_vars, wire, accepted, breaks>>

ReceiverHearsClose ==
    /\ peer # NoPeer
    /\ s_conn \in {"closing", "ended"}
    /\ R!on_connection_close(peer)
    /\ UNCHANGED <<s_vars, wire, accepted, breaks>>

SenderIsGone(p) == p # peer \/ ~S!Running \/ s_conn = "down"
ReceiverIsGone == ~R!Running \/ (peer # NoPeer /\ r_conn[peer] = "down")

NoWire == peer' = NoPeer /\ transit' = 0 /\ outcomes' = <<>>

(* Both have closed the connection, or the other end is gone.               *)
SenderTransportCloses ==
    /\ s_conn = "ended" \/ ReceiverIsGone
    /\ S!TransportCloses
    /\ NoWire
    /\ UNCHANGED <<r_vars, accepted, breaks>>

ReceiverTransportCloses(p) ==
    /\ r_conn[p] = "ended" \/ SenderIsGone(p)
    /\ R!TransportCloses(p)
    /\ UNCHANGED <<s_vars, wire, accepted, breaks>>

(* A process that exits leaves the other with a broken connection; a        *)
(* connection attempt fails for as long as no receiver listens.             *)
SenderLosesTransport ==
    /\ \/ peer # NoPeer /\ ReceiverIsGone
       \/ s_conn = "connecting" /\ ~(R!Running /\ started)
    /\ S!on_transport_error(FALSE)
    /\ NoWire
    /\ UNCHANGED <<r_vars, accepted, breaks>>

ReceiverLosesTransport(p) ==
    /\ SenderIsGone(p)
    /\ R!on_transport_error(p, FALSE)
    /\ UNCHANGED <<s_vars, wire, accepted, breaks>>

(* The network fails; the receiver notices when it notices.                 *)
NetworkBreaks ==
    /\ breaks < MaxBreaks
    /\ peer # NoPeer
    /\ S!on_transport_error(FALSE)
    /\ NoWire
    /\ breaks' = breaks + 1
    /\ UNCHANGED <<r_vars, accepted>>

(* A run in which both processes have ended, or nothing is left to do.      *)
Ended == S!Exited /\ R!Exited /\ UNCHANGED <<wire, accepted, breaks>>

Next ==
    \/ SenderStarts \/ SenderCountsDown \/ SenderReturns \/ SenderTick
    \/ ReceiverStarts \/ ReceiverCountsDown \/ ReceiverTick
    \/ SenderPolls
    \/ \E c \in 1..Credit : FlowArrives(c)
    \/ TransferArrives
    \/ \E p \in Peers : ReceiverHandles(p)
    \/ OutcomeArrives
    \/ \E p \in Peers : Connects(p)
    \/ SenderHearsClose
    \/ ReceiverHearsClose
    \/ SenderTransportCloses
    \/ \E p \in Peers : ReceiverTransportCloses(p)
    \/ SenderLosesTransport
    \/ \E p \in Peers : ReceiverLosesTransport(p)
    \/ NetworkBreaks
    \/ Ended

(* The two event loops run, each at its own pace, and the network delivers  *)
(* what is sent.                                                            *)
Fairness ==
    /\ WF_vars(SenderStarts) /\ WF_vars(SenderCountsDown)
    /\ WF_vars(SenderReturns) /\ WF_vars(SenderTick)
    /\ WF_vars(SenderPolls)
    /\ WF_vars(ReceiverStarts) /\ WF_vars(ReceiverCountsDown)
    /\ WF_vars(ReceiverTick)
    /\ SF_vars(\E c \in 1..Credit : FlowArrives(c))
    /\ WF_vars(TransferArrives)
    /\ WF_vars(\E p \in Peers : ReceiverHandles(p))
    /\ WF_vars(OutcomeArrives)
    /\ WF_vars(\E p \in Peers : Connects(p))
    /\ WF_vars(SenderHearsClose)
    /\ WF_vars(ReceiverHearsClose)
    /\ WF_vars(SenderTransportCloses)
    /\ WF_vars(\E p \in Peers : ReceiverTransportCloses(p))
    /\ WF_vars(SenderLosesTransport)
    /\ WF_vars(\E p \in Peers : ReceiverLosesTransport(p))

Spec == Init /\ [][Next]_vars /\ Fairness
-----------------------------------------------------------------------------
(* Properties.                                                              *)

Connected == peer # NoPeer /\ s_conn = "open" /\ r_conn[peer] = "open"

(* On a connection that is up nothing is lost, doubled or overrun: every    *)
(* delivery the sender holds open is on its way, waiting for the handler or *)
(* answered, and credit is only ever given for messages the receiver's link *)
(* has room for, so what each client's module assumes of its peer is what   *)
(* the other one does.                                                      *)
Conserves ==
    Connected /\ S!Running /\ R!Running =>
        /\ unsettled = transit + incoming[peer] + Len(outcomes)
        /\ credit \in 0..Granted

(* The two clients implement Delivery over any number of connections, and   *)
(* whatever the receiver's action makes of the messages.                    *)
D == INSTANCE Delivery WITH
        submitted <- sent, handled <- msg_received_cnt, accepted <- accepted,
        confirmed <- confirmedSent

ImplementsDelivery == D!DeliverySpec

(* The same count on both sides, and nobody times out.                      *)
Matched ==
    /\ s_conf.count = r_conf.count
    /\ s_conf.count > 0
    /\ s_conf.timeout = S!FOREVER
    /\ r_conf.timeout = S!FOREVER

(* A connection that is refused makes the sender try again, or exit with a  *)
(* failure.  With any of the tuning options it does neither (see            *)
(* ReconnectHonoured): it gives up before it has sent anything, and exits   *)
(* with success.                                                            *)
GaveUp ==
    /\ s_conn = "down"
    /\ sent = 0
    /\ s_conf.conn_reconnect = "true" /\ ~S!ProtonReconnects(s_conf)

(* The ends of the two clients find each other: each closes the connection  *)
(* at its own count, in any order, and unless the network fails or the      *)
(* sender gave up both processes end, also when the receiver's action is no *)
(* acceptance.                                                              *)
BothEnd ==
    Matched ~> \/ ~S!Running /\ ~R!Running
               \/ breaks > 0
               \/ "failure" \in {s_status, r_status}
               \/ GaveUp

(* A sender that ends well, and did not give up, against a receiver that    *)
(* takes as many messages with the default action has delivered them all,   *)
(* and that receiver has handled each once.                                 *)
SuccessMeansDelivered ==
    /\ Matched
    /\ s_status = "success"
    /\ breaks = 0
    /\ r_conf.msg_action \in {"no-action", "ack"}
    /\ r_status # "failure"
    /\ ~GaveUp
    => /\ confirmedSent = s_conf.count
       /\ msg_received_cnt = s_conf.count
=============================================================================
