-------------------------- MODULE PeerToPeerProofs --------------------------
(***************************************************************************)
(* Theorems about a sender and a receiver without a broker, for every set  *)
(* of command lines, number of connections, credit window and number of    *)
(* network failures.                                                       *)
(***************************************************************************)
EXTENDS PeerToPeer, DataProofs

Outcomes == {"accepted", "rejected", "released"}

(* What both sides count, and the connections between them.                 *)
CountsOK ==
    /\ peer \in Peers \union {NoPeer}
    /\ transit \in Nat
    /\ outcomes \in Seq(Outcomes)
    /\ accepted \in Nat
    /\ sent \in Nat
    /\ confirmedSent \in Nat
    /\ unsettled \in Nat
    /\ credit \in Nat
    /\ msg_received_cnt \in Nat
    /\ incoming \in [Peers -> Nat]
    /\ r_conn \in [Peers -> R!ConnStates]

(* What CountsOK is about.                                                  *)
counts == <<peer, transit, outcomes, accepted, sent, confirmedSent, unsettled,
            credit, msg_received_cnt, incoming, r_conn>>

(* A batch ends or not; the handler's outcome is one of three.              *)
LEMMA OutcomeType == ASSUME NEW n PROVE Outcome(n) \in Outcomes
  BY DEF Outcome, Outcomes

(* send(c) moves one message from the sender to the wire.                   *)
LEMMA SendFacts ==
    ASSUME CountsOK, NEW c \in Nat, c > 0, S!send(c),
           transit' = transit + (unsettled' - unsettled)
    PROVE  /\ sent' = sent + 1
           /\ transit' = transit + 1
           /\ unsettled' = unsettled + 1
           /\ credit' = c - 1
  BY DEF CountsOK, S!send

(* The polling sends one message, or none.                                  *)
LEMMA PollFacts ==
    ASSUME CountsOK, SenderPolls
    PROVE  /\ UNCHANGED <<s_conf, confirmedSent, forgotten, s_conn, s_status>>
           /\ UNCHANGED <<r_vars, peer, outcomes, accepted, breaks>>
           /\ \/ /\ credit > 0
                 /\ sent < s_conf.count
                 /\ sent' = sent + 1
                 /\ transit' = transit + 1
                 /\ unsettled' = unsettled + 1
                 /\ credit' = credit - 1
              \/ UNCHANGED <<sent, transit, unsettled, credit>>
  <1>1. /\ UNCHANGED <<s_conf, confirmedSent, forgotten, s_conn, s_status>>
        /\ UNCHANGED <<r_vars, peer, outcomes, accepted, breaks>>
        /\ transit' = transit + (unsettled' - unsettled)
        /\ \/ credit > 0 /\ sent < s_conf.count /\ S!send(credit)
           \/ UNCHANGED <<sent, unsettled, credit>>
    BY DEF SenderPolls, S!checkIfCanSend, S!options, S!progress, S!MoreToSend
  <1>2. credit \in Nat BY DEF CountsOK
  <1>3. CASE credit > 0 /\ sent < s_conf.count /\ S!send(credit)
    BY <1>1, <1>2, <1>3, SendFacts
  <1>4. CASE UNCHANGED <<sent, unsettled, credit>>
    <2>1. transit' = transit BY <1>1, <1>4 DEF CountsOK
    <2> QED BY <1>1, <1>4, <2>1
  <1> QED BY <1>1, <1>3, <1>4

(* A flow frame with credit c makes the sender send one message, or keep    *)
(* the credit.                                                              *)
LEMMA FlowFacts ==
    ASSUME CountsOK, NEW c \in 1..Credit, FlowArrives(c)
    PROVE  /\ UNCHANGED <<s_conf, confirmedSent, forgotten, s_conn, s_status>>
           /\ UNCHANGED <<r_vars, peer, outcomes, accepted, breaks>>
           /\ c \in credit..Granted
           /\ \/ /\ ready
                 /\ sent' = sent + 1
                 /\ transit' = transit + 1
                 /\ unsettled' = unsettled + 1
                 /\ credit' = c - 1
              \/ UNCHANGED <<sent, transit, unsettled>> /\ credit' = c
  <1>1. /\ UNCHANGED <<s_conf, confirmedSent, forgotten, s_conn, s_status>>
        /\ UNCHANGED <<r_vars, peer, outcomes, accepted, breaks>>
        /\ transit' = transit + (unsettled' - unsettled)
        /\ c \in credit..Granted
        /\ \/ ready /\ S!send(c)
           \/ UNCHANGED <<sent, unsettled>> /\ credit' = c
    BY DEF FlowArrives, S!on_sendable, S!options, S!progress
  <1>2. c \in Nat /\ c > 0 BY CreditAssumption
  <1>3. CASE ready /\ S!send(c) BY <1>1, <1>2, <1>3, SendFacts
  <1>4. CASE UNCHANGED <<sent, unsettled>> /\ credit' = c
    <2>1. transit' = transit BY <1>1, <1>4 DEF CountsOK
    <2> QED BY <1>1, <1>4, <2>1
  <1> QED BY <1>1, <1>3, <1>4

(* The handler takes one message of its connection and answers it there, if *)
(* the sender still has that connection.                                    *)
LEMMA HandleFacts ==
    ASSUME CountsOK, NEW p \in Peers, ReceiverHandles(p)
    PROVE  /\ UNCHANGED <<s_vars, peer, transit, breaks, r_conf, started>>
           /\ incoming[p] > 0
           /\ incoming' = [incoming EXCEPT ![p] = @ - 1]
           /\ msg_received_cnt' = msg_received_cnt + 1
           /\ \E o \in Outcomes :
                 /\ outcomes' = IF p = peer THEN Append(outcomes, o) ELSE outcomes
                 /\ accepted' = accepted + IF o = "accepted" THEN 1 ELSE 0
           /\ \/ r_conn' = r_conn
              \/ r_conn' = [r_conn EXCEPT ![p] = "closing"]
  <1>1. /\ UNCHANGED <<s_vars, peer, transit, breaks, r_conf, started>>
        /\ incoming[p] > 0
        /\ incoming' = [incoming EXCEPT ![p] = @ - 1]
        /\ msg_received_cnt' = msg_received_cnt + 1
    BY DEF ReceiverHandles, R!on_message
  <1>2. \E o \in Outcomes :
            /\ outcomes' = IF p = peer THEN Append(outcomes, o) ELSE outcomes
            /\ accepted' = accepted + IF o = "accepted" THEN 1 ELSE 0
    BY OutcomeType DEF ReceiverHandles
  <1>3. \/ r_conn' = r_conn
        \/ r_conn' = [r_conn EXCEPT ![p] = "closing"]
    BY DEF ReceiverHandles, R!on_message, R!HandleMessage
  <1> QED BY <1>1, <1>2, <1>3

(* An outcome is taken off the wire; the sender counts it, or exits.        *)
LEMMA OutcomeFacts ==
    ASSUME CountsOK, OutcomeArrives
    PROVE  /\ UNCHANGED <<r_vars, peer, transit, accepted, breaks, s_conf, sent,
                          credit>>
           /\ outcomes # <<>>
           /\ outcomes' = Tail(outcomes)
           /\ s_conn \in {"open", "closing"}
           /\ \/ /\ Head(outcomes) = "accepted"
                 /\ confirmedSent' = confirmedSent + 1
                 /\ unsettled > 0 /\ unsettled' = unsettled - 1
                 /\ s_conn' = IF confirmedSent' = s_conf.count
                              THEN "closing" ELSE s_conn
                 /\ UNCHANGED s_status
              \/ /\ Head(outcomes) = "released"
                 /\ unsettled > 0 /\ unsettled' = unsettled - 1
                 /\ UNCHANGED <<confirmedSent, s_conn, s_status>>
              \/ /\ s_status' = "failure"
                 /\ UNCHANGED <<confirmedSent, unsettled, s_conn>>
  <1>1. Head(outcomes) \in Outcomes
    BY DEF CountsOK, OutcomeArrives
  <1> QED
    BY <1>1 DEF OutcomeArrives, Outcomes, S!on_tracker_accept,
           S!on_tracker_reject, S!on_tracker_release, S!Exit, S!options,
           S!progress, S!LastConfirmation

(* Without its transport the sender exits, or is left with no credit and no *)
(* open delivery, whatever becomes of the connection.                       *)
LEMMA SenderLoses ==
    ASSUME S!TransportCloses \/ S!on_transport_error(FALSE)
    PROVE  /\ UNCHANGED <<s_conf, sent, confirmedSent>>
           /\ S!Running
           /\ s_conn # "none"
           /\ \/ /\ s_status' = "failure"
                 /\ UNCHANGED <<credit, unsettled, s_conn>>
              \/ /\ s_conn' \in {"connecting", "down"}
                 /\ s_conn' = "connecting" => /\ s_conn \in {"connecting", "open"}
                                              /\ S!ProtonReconnects(s_conf)
                 /\ s_conn' = "down" => /\ s_conf.conn_reconnect # "false"
                                        /\ ~(/\ s_conn \in {"connecting", "open"}
                                             /\ S!ProtonReconnects(s_conf))
                 /\ credit' = 0
                 /\ unsettled' = 0
                 /\ UNCHANGED s_status
  BY DEF S!TransportCloses, S!on_transport_error, S!on_transport_close, S!Exit,
         S!LinkLost, S!options, S!progress

(* Without its transport the receiver ends, well when it has all it waited  *)
(* for, or drops what the handler has not seen of that connection.          *)
LEMMA ReceiverLoses ==
    ASSUME NEW p, R!TransportCloses(p) \/ R!on_transport_error(p, FALSE)
    PROVE  /\ UNCHANGED <<r_conf, msg_received_cnt, started>>
           /\ R!Running
           /\ r_conn[p] # "none"
           /\ \/ /\ r_status' = "failure"
                 /\ UNCHANGED <<incoming, r_conn>>
              \/ /\ r_status' = "success"
                 /\ msg_received_cnt = r_conf.count
                 /\ UNCHANGED <<incoming, r_conn>>
              \/ /\ \/ r_conn' = [r_conn EXCEPT ![p] = "down"]
                    \/ /\ r_conn' = [r_conn EXCEPT ![p] = "connecting"]
                       /\ ~R!Listens
                 /\ incoming' = [incoming EXCEPT ![p] = 0]
                 /\ UNCHANGED r_status
  BY DEF R!TransportCloses, R!on_transport_error, R!on_transport_close, R!Exit,
         R!handled, R!Reconnects

(* A listener starts without a connection; any other makes its own.         *)
LEMMA ReceiverStartFacts ==
    ASSUME ReceiverStarts
    PROVE  /\ UNCHANGED <<s_vars, wire, accepted, breaks>>
           /\ UNCHANGED <<r_conf, incoming, msg_received_cnt>>
           /\ ~started
           /\ \/ r_conn' = r_conn
              \/ /\ ~R!Listens
                 /\ \/ r_conn' = [r_conn EXCEPT ![FirstPeer] = "connecting"]
                    \/ r_conn' = [r_conn EXCEPT ![FirstPeer] = "closing"]
           /\ \/ r_status' = "failure" /\ started' = started
              \/ r_status' = "crashed" /\ started' = started
              \/ r_status' = r_status /\ started'
  BY DEF ReceiverStarts, ReceiverAlone, R!on_container_start, R!Exit, R!handled,
         R!ConnAtStart

(* What CountsOK is about, in the steps no lemma above is about.            *)
LEMMA QuietSteps ==
    ASSUME \/ SenderStarts \/ SenderCountsDown \/ SenderReturns \/ SenderTick
           \/ ReceiverCountsDown \/ ReceiverTick \/ Ended \/ UNCHANGED vars
    PROVE  /\ UNCHANGED <<wire, accepted, breaks, sent, confirmedSent, unsettled,
                          credit, msg_received_cnt, incoming, r_conn, s_conf,
                          r_conf, started>>
           /\ \/ s_conn' = s_conn
              \/ s_conn = "none" /\ s_conn' = "connecting"
  BY DEF SenderStarts, SenderCountsDown, SenderReturns, SenderTick,
         ReceiverCountsDown, ReceiverTick, Ended, SenderAlone, ReceiverAlone,
         s_vars, r_vars, wire, vars, S!on_container_start, S!timerEvent,
         S!RunReturns, S!Tick, S!Exited, S!Exit, S!options, S!progress, S!vars,
         R!timerEvent, R!Tick, R!Exited, R!Exit, R!handled, R!vars

(* A connection is made with a peer that had none.                          *)
LEMMA ConnectFacts ==
    ASSUME NEW p \in Peers, Connects(p)
    PROVE  /\ UNCHANGED <<transit, outcomes, accepted, breaks, s_conf, sent,
                          confirmedSent, unsettled, credit, s_status, r_conf,
                          msg_received_cnt, incoming, r_status, started>>
           /\ peer = NoPeer /\ peer' = p
           /\ s_conn = "connecting" /\ s_conn' = "open"
           /\ R!Listens
           /\ r_conn[p] = "none" /\ r_conn' = [r_conn EXCEPT ![p] = "open"]
  BY DEF Connects, S!ConnectionOpens, R!PeerConnects, R!handled, S!options,
         S!progress

(* A message leaves the wire for the receiver's side of its connection.     *)
LEMMA TransferFacts ==
    ASSUME TransferArrives
    PROVE  /\ UNCHANGED <<s_vars, peer, outcomes, accepted, breaks, r_conf,
                          msg_received_cnt, r_conn, r_status, started>>
           /\ peer # NoPeer /\ r_conn[peer] = "open"
           /\ transit > 0 /\ transit' = transit - 1
           /\ incoming' = [incoming EXCEPT ![peer] = @ + 1]
  BY DEF TransferArrives, R!Arrives, R!handled

(* A close is heard on either side.                                         *)
LEMMA CloseFacts ==
    /\ SenderHearsClose =>
          /\ UNCHANGED <<r_vars, wire, accepted, breaks, s_conf, sent,
                         confirmedSent, unsettled, credit, s_status>>
          /\ peer # NoPeer /\ r_conn[peer] \in {"closing", "ended"}
          /\ outcomes = <<>>
          /\ s_conn \in {"open", "closing"} /\ s_conn' = "ended"
    /\ ReceiverHearsClose =>
          /\ UNCHANGED <<s_vars, wire, accepted, breaks, r_conf,
                         msg_received_cnt, r_status, started>>
          /\ peer # NoPeer /\ s_conn \in {"closing", "ended"}
          /\ r_conn[peer] \in {"open", "closing"}
          /\ r_conn' = [r_conn EXCEPT ![peer] = "ended"]
          /\ incoming' = [incoming EXCEPT ![peer] = 0]
  BY DEF SenderHearsClose, ReceiverHearsClose, S!on_connection_close,
         R!on_connection_close, R!ConnectionEnds, R!handled, S!options,
         S!progress

(* The counts on both sides and on the wire stay natural numbers, and only  *)
(* a peer there is is ever connected.                                       *)
THEOREM CountsCorrect == Spec => []CountsOK
  <1>1. Init => CountsOK
    <2> SUFFICES ASSUME Init PROVE CountsOK OBVIOUS
    <2>1. /\ peer = NoPeer /\ transit = 0 /\ outcomes = <<>> /\ accepted = 0
          /\ sent = 0 /\ confirmedSent = 0 /\ unsettled = 0 /\ credit = 0
          /\ msg_received_cnt = 0
          /\ incoming = [p \in Peers |-> 0]
          /\ r_conn = [p \in Peers |-> "none"]
      BY DEF Init, S!Init, R!Init
    <2> QED BY <2>1 DEF CountsOK, R!ConnStates
  <1>2. CountsOK /\ [Next]_vars => CountsOK'
    <2> SUFFICES ASSUME CountsOK, [Next]_vars PROVE CountsOK' OBVIOUS
    <2> USE DEF CountsOK
    <2>1. CASE \/ SenderStarts \/ SenderCountsDown \/ SenderReturns
               \/ SenderTick \/ ReceiverCountsDown \/ ReceiverTick
               \/ Ended \/ UNCHANGED vars
      BY <2>1, QuietSteps DEF wire
    <2>2. CASE ReceiverStarts
      BY <2>2, ReceiverStartFacts, PeersAssumption
         DEF s_vars, wire, R!ConnStates
    <2>3. CASE SenderPolls BY <2>3, PollFacts DEF r_vars
    <2>4. ASSUME NEW c \in 1..Credit, FlowArrives(c) PROVE CountsOK'
      <3>1. /\ UNCHANGED <<confirmedSent, msg_received_cnt, incoming, r_conn>>
            /\ UNCHANGED <<peer, outcomes, accepted>>
        BY <2>4, FlowFacts DEF r_vars
      <3>2. \/ /\ sent' = sent + 1 /\ transit' = transit + 1
               /\ unsettled' = unsettled + 1 /\ credit' = c - 1
            \/ UNCHANGED <<sent, transit, unsettled>> /\ credit' = c
        BY <2>4, FlowFacts
      <3>3. c \in Nat \ {0} BY CreditAssumption
      <3> QED BY <3>1, <3>2, <3>3
    <2>5. CASE TransferArrives BY <2>5, TransferFacts DEF s_vars
    <2>6. ASSUME NEW p \in Peers, ReceiverHandles(p) PROVE CountsOK'
      <3>1. PICK o \in Outcomes :
                /\ outcomes' = IF p = peer THEN Append(outcomes, o) ELSE outcomes
                /\ accepted' = accepted + IF o = "accepted" THEN 1 ELSE 0
        BY <2>6, HandleFacts
      <3>2. outcomes' \in Seq(Outcomes) /\ accepted' \in Nat BY <3>1
      <3>3. /\ UNCHANGED <<peer, transit, sent, confirmedSent, unsettled, credit>>
            /\ msg_received_cnt' = msg_received_cnt + 1
        BY <2>6, HandleFacts DEF s_vars
      <3>4. incoming' = [incoming EXCEPT ![p] = @ - 1] /\ incoming[p] > 0
        BY <2>6, HandleFacts
      <3>5. r_conn' = r_conn \/ r_conn' = [r_conn EXCEPT ![p] = "closing"]
        BY <2>6, HandleFacts
      <3>6. incoming' \in [Peers -> Nat] BY <3>4
      <3>7. r_conn' \in [Peers -> R!ConnStates] BY <3>5 DEF R!ConnStates
      <3> QED BY <3>2, <3>3, <3>6, <3>7
    <2>7. CASE OutcomeArrives
      <3>1. /\ UNCHANGED <<peer, transit, accepted, sent, credit>>
            /\ UNCHANGED <<msg_received_cnt, incoming, r_conn>>
        BY <2>7, OutcomeFacts DEF r_vars
      <3>2. outcomes # <<>> /\ outcomes' = Tail(outcomes)
        BY <2>7, OutcomeFacts
      <3>3. /\ confirmedSent' \in {confirmedSent, confirmedSent + 1}
            /\ \/ unsettled' = unsettled
               \/ unsettled > 0 /\ unsettled' = unsettled - 1
        BY <2>7, OutcomeFacts
      <3> QED BY <3>1, <3>2, <3>3
    <2>8. ASSUME NEW p \in Peers, Connects(p) PROVE CountsOK'
      BY <2>8, ConnectFacts DEF R!ConnStates
    <2>9. CASE SenderHearsClose \/ ReceiverHearsClose
      BY <2>9, CloseFacts DEF s_vars, r_vars, wire, R!ConnStates
    <2>10. CASE SenderTransportCloses \/ SenderLosesTransport \/ NetworkBreaks
      <3>1. /\ S!TransportCloses \/ S!on_transport_error(FALSE)
            /\ NoWire
            /\ UNCHANGED <<r_vars, accepted>>
        BY <2>10 DEF SenderTransportCloses, SenderLosesTransport, NetworkBreaks
      <3>2. peer' = NoPeer /\ transit' = 0 /\ outcomes' = <<>>
        BY <3>1 DEF NoWire
      <3>3. UNCHANGED <<sent, confirmedSent>>
        BY <3>1, SenderLoses
      <3>5. credit' \in Nat /\ unsettled' \in Nat
        <4>1. \/ credit' = credit /\ unsettled' = unsettled
              \/ credit' = 0 /\ unsettled' = 0
          BY <3>1, SenderLoses
        <4> QED BY <4>1
      <3>4. UNCHANGED <<msg_received_cnt, incoming, r_conn, accepted>>
        BY <3>1 DEF r_vars
      <3> QED BY <3>2, <3>3, <3>4, <3>5
    <2>11. ASSUME NEW p \in Peers,
                  ReceiverTransportCloses(p) \/ ReceiverLosesTransport(p)
           PROVE  CountsOK'
      <3>1. /\ R!TransportCloses(p) \/ R!on_transport_error(p, FALSE)
            /\ UNCHANGED <<s_vars, wire, accepted, breaks>>
        BY <2>11 DEF ReceiverTransportCloses, ReceiverLosesTransport
      <3>2. UNCHANGED <<peer, transit, outcomes, accepted, sent, confirmedSent,
                        unsettled, credit>>
        BY <3>1 DEF s_vars, wire
      <3>3. msg_received_cnt' = msg_received_cnt BY <3>1, ReceiverLoses
      <3>4. /\ incoming' \in {incoming, [incoming EXCEPT ![p] = 0]}
            /\ r_conn' \in {r_conn, [r_conn EXCEPT ![p] = "down"],
                            [r_conn EXCEPT ![p] = "connecting"]}
        BY <3>1, ReceiverLoses
      <3>5. incoming' \in [Peers -> Nat] BY <3>4
      <3>6. r_conn' \in [Peers -> R!ConnStates] BY <3>4 DEF R!ConnStates
      <3> QED BY <3>2, <3>3, <3>5, <3>6
    <2> QED BY <2>1, <2>2, <2>3, <2>4, <2>5, <2>6, <2>7, <2>8, <2>9, <2>10,
               <2>11
            DEF Next
  <1> QED BY <1>1, <1>2, PTL DEF Spec
-----------------------------------------------------------------------------
(* Where a message can be that was sent.  One that is lost stays where it   *)
(* was lost.                                                                *)
Handled == <<"handled", NoPeer>>
InTransit == <<"transit", NoPeer>>
AtReceiver(p) == <<"incoming", p>>
Places == {Handled, InTransit} \union {AtReceiver(p) : p \in Peers}

(* Every message one side counts is a message of its own the sender sent:   *)
(* there is a place for each of them so that no count exceeds its place.    *)
Fits(where) ==
    /\ msg_received_cnt <= Cardinality(HeldAt(sent, where, Handled))
    /\ transit <= Cardinality(HeldAt(sent, where, InTransit))
    /\ \A p \in Peers :
          incoming[p] <= Cardinality(HeldAt(sent, where, AtReceiver(p)))

Ledger == \E where \in [1..sent -> Places] : Fits(where)

(* The acceptances on their way and those that arrived were all given.      *)
Reported == confirmedSent + Cardinality(OfKind(outcomes, "accepted")) <= accepted

DeliveryInv == Ledger /\ Reported

(* No two places are the same.                                              *)
LEMMA PlacesDiffer ==
    /\ Handled \in Places /\ InTransit \in Places /\ Handled # InTransit
    /\ \A p \in Peers : /\ AtReceiver(p) \in Places
                        /\ AtReceiver(p) # Handled /\ AtReceiver(p) # InTransit
    /\ \A p, q \in Peers : p # q => AtReceiver(p) # AtReceiver(q)
  BY DEF Places, Handled, InTransit, AtReceiver

(* Messages that are lost free their places.                                *)
LEMMA LedgerLoses ==
    ASSUME CountsOK, CountsOK', Ledger, sent' = sent,
           msg_received_cnt' = msg_received_cnt, transit' <= transit,
           \A p \in Peers : incoming'[p] <= incoming[p]
    PROVE  Ledger'
  <1>1. PICK where : where \in [1..sent -> Places] /\ Fits(where) BY DEF Ledger
  <1>2. \A place : Cardinality(HeldAt(sent, where, place)) \in Nat
    BY HeldType DEF CountsOK
  <1>3. \A p \in Peers : incoming[p] \in Nat /\ incoming'[p] \in Nat
    BY DEF CountsOK
  <1>4. \A p \in Peers :
            incoming'[p] <= Cardinality(HeldAt(sent, where, AtReceiver(p)))
    <2> TAKE p \in Peers
    <2> DEFINE held == Cardinality(HeldAt(sent, where, AtReceiver(p)))
    <2>1. incoming[p] <= held BY <1>1 DEF Fits
    <2>2. held \in Nat BY <1>2
    <2> HIDE DEF held
    <2>3. incoming'[p] <= held BY <1>3, <2>1, <2>2
    <2> QED BY <2>3 DEF held
  <1>5. transit' <= Cardinality(HeldAt(sent, where, InTransit))
    <2> DEFINE held == Cardinality(HeldAt(sent, where, InTransit))
    <2>1. transit <= held BY <1>1 DEF Fits
    <2>2. held \in Nat BY <1>2
    <2> HIDE DEF held
    <2>3. transit' <= held BY <2>1, <2>2 DEF CountsOK
    <2> QED BY <2>3 DEF held
  <1> QED BY <1>1, <1>4, <1>5 DEF Ledger, Fits

(* A message that is sent takes a place on the wire.                        *)
LEMMA LedgerSends ==
    ASSUME CountsOK, Ledger, sent' = sent + 1, transit' = transit + 1,
           UNCHANGED <<msg_received_cnt, incoming>>
    PROVE  Ledger'
  <1>1. PICK where : where \in [1..sent -> Places] /\ Fits(where) BY DEF Ledger
  <1>0. PICK after : after = [m \in 1..(sent + 1) |->
                                 IF m = sent + 1 THEN InTransit ELSE where[m]]
    OBVIOUS
  <1>2. sent \in Nat BY DEF CountsOK
  <1>3. /\ after \in [1..(sent + 1) -> Places]
        /\ Cardinality(HeldAt(sent + 1, after, InTransit))
               = Cardinality(HeldAt(sent, where, InTransit)) + 1
        /\ \A place \in Places : place # InTransit =>
               HeldAt(sent + 1, after, place) = HeldAt(sent, where, place)
    BY <1>0, <1>1, <1>2, PlacesDiffer, HeldMore
  <1>4. transit + 1 <= Cardinality(HeldAt(sent + 1, after, InTransit))
    <2>1. Cardinality(HeldAt(sent, where, InTransit)) \in Nat BY <1>2, HeldType
    <2>2. transit <= Cardinality(HeldAt(sent, where, InTransit))
      BY <1>1 DEF Fits
    <2> QED BY <1>3, <2>1, <2>2 DEF CountsOK
  <1>5. msg_received_cnt <= Cardinality(HeldAt(sent + 1, after, Handled))
    BY <1>1, <1>3, PlacesDiffer DEF Fits
  <1>6. \A p \in Peers :
            incoming[p] <= Cardinality(HeldAt(sent + 1, after, AtReceiver(p)))
    BY <1>1, <1>3, PlacesDiffer DEF Fits
  <1>7. Fits(after)' BY <1>4, <1>5, <1>6 DEF Fits
  <1> QED BY <1>3, <1>7 DEF Ledger

(* A message that arrives leaves the wire for its connection.               *)
LEMMA LedgerMovesIn ==
    ASSUME CountsOK, Ledger, NEW p \in Peers, transit > 0,
           transit' = transit - 1,
           incoming' = [incoming EXCEPT ![p] = @ + 1],
           UNCHANGED <<sent, msg_received_cnt>>
    PROVE  Ledger'
  <1>1. PICK where : where \in [1..sent -> Places] /\ Fits(where) BY DEF Ledger
  <1>2. sent \in Nat /\ transit \in Nat /\ incoming \in [Peers -> Nat]
    BY DEF CountsOK
  <1>3. \A place : Cardinality(HeldAt(sent, where, place)) \in Nat
    BY <1>2, HeldType
  <1>4. Cardinality(HeldAt(sent, where, InTransit)) > 0
    BY <1>1, <1>2, <1>3 DEF Fits
  <1>5. PICK m \in 1..sent : where[m] = InTransit BY <1>2, <1>4, HeldSome
  <1>0. PICK after : after = [where EXCEPT ![m] = AtReceiver(p)] OBVIOUS
  <1>6. /\ after \in [1..sent -> Places]
        /\ Cardinality(HeldAt(sent, after, AtReceiver(p)))
               = Cardinality(HeldAt(sent, where, AtReceiver(p))) + 1
        /\ Cardinality(HeldAt(sent, after, InTransit))
               = Cardinality(HeldAt(sent, where, InTransit)) - 1
        /\ \A place \in Places : place # AtReceiver(p) /\ place # InTransit =>
               HeldAt(sent, after, place) = HeldAt(sent, where, place)
    <2>1. /\ AtReceiver(p) \in Places /\ AtReceiver(p) # InTransit
          /\ after[m] = AtReceiver(p)
          /\ \A k \in 1..sent : k # m => after[k] = where[k]
      BY <1>0, <1>1, <1>5, PlacesDiffer
    <2>2. /\ Cardinality(HeldAt(sent, after, AtReceiver(p)))
                 = Cardinality(HeldAt(sent, where, AtReceiver(p))) + 1
          /\ Cardinality(HeldAt(sent, after, InTransit))
                 = Cardinality(HeldAt(sent, where, InTransit)) - 1
          /\ \A place : place # AtReceiver(p) /\ place # InTransit =>
                 HeldAt(sent, after, place) = HeldAt(sent, where, place)
      BY <1>2, <1>5, <2>1, HeldMoves
    <2>3. after \in [1..sent -> Places] BY <1>0, <1>1, <2>1
    <2> QED BY <2>2, <2>3
  <1>7. transit - 1 <= Cardinality(HeldAt(sent, after, InTransit))
    <2>1. transit <= Cardinality(HeldAt(sent, where, InTransit))
      BY <1>1 DEF Fits
    <2>2. Cardinality(HeldAt(sent, where, InTransit)) \in Nat BY <1>3
    <2> QED BY <1>2, <1>6, <2>1, <2>2
  <1>8. msg_received_cnt <= Cardinality(HeldAt(sent, after, Handled))
    BY <1>1, <1>6, PlacesDiffer DEF Fits
  <1>9. ASSUME NEW q \in Peers
        PROVE  incoming'[q] <= Cardinality(HeldAt(sent, after, AtReceiver(q)))
    <2>1. incoming[q] <= Cardinality(HeldAt(sent, where, AtReceiver(q)))
      BY <1>1 DEF Fits
    <2>2. Cardinality(HeldAt(sent, where, AtReceiver(q))) \in Nat BY <1>3
    <2>3. CASE q = p
      <3>1. incoming'[q] = incoming[q] + 1 /\ incoming[q] \in Nat
        BY <1>2, <2>3
      <3>2. Cardinality(HeldAt(sent, after, AtReceiver(q)))
                = Cardinality(HeldAt(sent, where, AtReceiver(q))) + 1
        BY <1>6, <2>3
      <3> QED BY <2>1, <2>2, <3>1, <3>2
    <2>4. CASE q # p
      <3>1. incoming'[q] = incoming[q] BY <1>2, <2>4
      <3>2. HeldAt(sent, after, AtReceiver(q)) = HeldAt(sent, where, AtReceiver(q))
        BY <1>6, <2>4, PlacesDiffer
      <3> QED BY <2>1, <3>1, <3>2
    <2> QED BY <2>3, <2>4
  <1>10. Fits(after)' BY <1>7, <1>8, <1>9 DEF Fits
  <1> QED BY <1>6, <1>10 DEF Ledger

(* A message the handler takes has not been handled, so fewer are handled   *)
(* than were sent; and it leaves its connection for the handled ones.       *)
LEMMA LedgerHandles ==
    ASSUME CountsOK, Ledger, NEW p \in Peers, incoming[p] > 0,
           incoming' = [incoming EXCEPT ![p] = @ - 1],
           msg_received_cnt' = msg_received_cnt + 1,
           UNCHANGED <<sent, transit>>
    PROVE  Ledger' /\ msg_received_cnt < sent
  <1>1. PICK where : where \in [1..sent -> Places] /\ Fits(where) BY DEF Ledger
  <1>2. /\ sent \in Nat /\ msg_received_cnt \in Nat
        /\ incoming \in [Peers -> Nat]
    BY DEF CountsOK
  <1>3. \A place : Cardinality(HeldAt(sent, where, place)) \in Nat
    BY <1>2, HeldType
  <1>4. Cardinality(HeldAt(sent, where, AtReceiver(p))) > 0
    <2>1. incoming[p] <= Cardinality(HeldAt(sent, where, AtReceiver(p)))
      BY <1>1 DEF Fits
    <2> QED BY <1>2, <1>3, <2>1
  <1>5. PICK m \in 1..sent : where[m] = AtReceiver(p) BY <1>2, <1>4, HeldSome
  <1>6. where[m] # Handled BY <1>5, PlacesDiffer
  <1>7. msg_received_cnt < sent
    <2>1. Cardinality(HeldAt(sent, where, Handled)) < sent
      BY <1>2, <1>6, HeldNotAll
    <2>2. msg_received_cnt <= Cardinality(HeldAt(sent, where, Handled))
      BY <1>1 DEF Fits
    <2>3. Cardinality(HeldAt(sent, where, Handled)) \in Nat BY <1>3
    <2> QED BY <1>2, <2>1, <2>2, <2>3
  <1>0. PICK after : after = [where EXCEPT ![m] = Handled] OBVIOUS
  <1>8. /\ after \in [1..sent -> Places]
        /\ Cardinality(HeldAt(sent, after, Handled))
               = Cardinality(HeldAt(sent, where, Handled)) + 1
        /\ Cardinality(HeldAt(sent, after, AtReceiver(p)))
               = Cardinality(HeldAt(sent, where, AtReceiver(p))) - 1
        /\ \A place \in Places : place # Handled /\ place # AtReceiver(p) =>
               HeldAt(sent, after, place) = HeldAt(sent, where, place)
    <2>1. /\ Handled # AtReceiver(p) /\ Handled \in Places
          /\ after[m] = Handled
          /\ \A k \in 1..sent : k # m => after[k] = where[k]
      BY <1>0, <1>1, <1>5, PlacesDiffer
    <2>2. /\ Cardinality(HeldAt(sent, after, Handled))
                 = Cardinality(HeldAt(sent, where, Handled)) + 1
          /\ Cardinality(HeldAt(sent, after, AtReceiver(p)))
                 = Cardinality(HeldAt(sent, where, AtReceiver(p))) - 1
          /\ \A place : place # Handled /\ place # AtReceiver(p) =>
                 HeldAt(sent, after, place) = HeldAt(sent, where, place)
      BY <1>2, <1>5, <2>1, HeldMoves
    <2>3. after \in [1..sent -> Places] BY <1>0, <1>1, <2>1
    <2> QED BY <2>2, <2>3
  <1>9. msg_received_cnt + 1 <= Cardinality(HeldAt(sent, after, Handled))
    <2>1. msg_received_cnt <= Cardinality(HeldAt(sent, where, Handled))
      BY <1>1 DEF Fits
    <2>2. Cardinality(HeldAt(sent, where, Handled)) \in Nat BY <1>3
    <2> QED BY <1>2, <1>8, <2>1, <2>2
  <1>10. transit <= Cardinality(HeldAt(sent, after, InTransit))
    BY <1>1, <1>8, PlacesDiffer DEF Fits
  <1>11. ASSUME NEW q \in Peers
         PROVE  incoming'[q] <= Cardinality(HeldAt(sent, after, AtReceiver(q)))
    <2>1. incoming[q] <= Cardinality(HeldAt(sent, where, AtReceiver(q)))
      BY <1>1 DEF Fits
    <2>2. Cardinality(HeldAt(sent, where, AtReceiver(q))) \in Nat BY <1>3
    <2>3. CASE q = p
      <3>1. incoming'[q] = incoming[q] - 1 /\ incoming[q] \in Nat
        BY <1>2, <2>3
      <3>2. Cardinality(HeldAt(sent, after, AtReceiver(q)))
                = Cardinality(HeldAt(sent, where, AtReceiver(q))) - 1
        BY <1>8, <2>3
      <3> QED BY <2>1, <2>2, <3>1, <3>2
    <2>4. CASE q # p
      <3>1. incoming'[q] = incoming[q] BY <1>2, <2>4
      <3>2. HeldAt(sent, after, AtReceiver(q)) = HeldAt(sent, where, AtReceiver(q))
        BY <1>8, <2>4, PlacesDiffer
      <3> QED BY <2>1, <3>1, <3>2
    <2> QED BY <2>3, <2>4
  <1>12. Fits(after)' BY <1>9, <1>10, <1>11 DEF Fits
  <1> QED BY <1>7, <1>8, <1>12 DEF Ledger

(* The step of Delivery a step of the two clients is, with what it does to  *)
(* the counts of the proof.                                                 *)
Delivers ==
    /\ DeliveryInv'
    /\ \/ D!Submit \/ D!Handle \/ D!Confirm
       \/ UNCHANGED <<sent, msg_received_cnt, accepted, confirmedSent>>

(* A step that handles and sends nothing, and at most loses what is under   *)
(* way.                                                                     *)
LEMMA LosesDelivers ==
    ASSUME CountsOK, CountsOK', DeliveryInv,
           UNCHANGED <<sent, msg_received_cnt, accepted, confirmedSent>>,
           transit' <= transit, outcomes' \in {outcomes, <<>>},
           \A p \in Peers : incoming'[p] <= incoming[p]
    PROVE  Delivers
  <1>1. Ledger' BY LedgerLoses DEF DeliveryInv
  <1>2. Reported'
    <2>1. Cardinality(OfKind(outcomes, "accepted")) \in Nat
      BY KindType DEF CountsOK
    <2>2. CASE outcomes' = outcomes BY <2>2 DEF DeliveryInv, Reported
    <2>3. CASE outcomes' = <<>>
      <3>1. Cardinality(OfKind(outcomes', "accepted")) = 0 BY <2>3, KindEmpty
      <3>2. confirmedSent <= accepted
        BY <2>1 DEF DeliveryInv, Reported, CountsOK
      <3> QED BY <3>1, <3>2 DEF Reported, CountsOK
    <2> QED BY <2>2, <2>3
  <1> QED BY <1>1, <1>2 DEF Delivers, DeliveryInv

(* A message that is sent is submitted.                                     *)
LEMMA SendDelivers ==
    ASSUME CountsOK, DeliveryInv, sent' = sent + 1, transit' = transit + 1,
           UNCHANGED <<msg_received_cnt, accepted, confirmedSent, outcomes,
                       incoming>>
    PROVE  Delivers
  <1>1. Ledger' BY LedgerSends DEF DeliveryInv
  <1>2. Reported' BY DEF DeliveryInv, Reported
  <1>3. D!Submit BY DEF D!Submit
  <1> QED BY <1>1, <1>2, <1>3 DEF Delivers, DeliveryInv

(* A message the handler takes is one that was submitted and not handled,   *)
(* and its outcome is counted on its way back.                              *)
LEMMA HandleDelivers ==
    ASSUME CountsOK, DeliveryInv, NEW p \in Peers, ReceiverHandles(p)
    PROVE  Delivers
  <1>1. /\ UNCHANGED <<sent, confirmedSent, transit>>
        /\ incoming[p] > 0
        /\ incoming' = [incoming EXCEPT ![p] = @ - 1]
        /\ msg_received_cnt' = msg_received_cnt + 1
    BY HandleFacts DEF s_vars
  <1>2. PICK o \in Outcomes :
            /\ outcomes' = IF p = peer THEN Append(outcomes, o) ELSE outcomes
            /\ accepted' = accepted + IF o = "accepted" THEN 1 ELSE 0
    BY HandleFacts
  <1>3. Ledger' /\ msg_received_cnt < sent
    BY <1>1, LedgerHandles DEF DeliveryInv
  <1>4. Reported'
    <2> DEFINE onWay == Cardinality(OfKind(outcomes, "accepted"))
    <2>1. /\ onWay \in Nat /\ accepted \in Nat /\ confirmedSent \in Nat
          /\ confirmedSent + onWay <= accepted
      BY KindType DEF CountsOK, DeliveryInv, Reported
    <2>2. CASE p = peer
      <3>1. Cardinality(OfKind(outcomes', "accepted"))
                = onWay + (IF o = "accepted" THEN 1 ELSE 0)
        BY <1>2, <2>2, KindAppend DEF CountsOK
      <3> HIDE DEF onWay
      <3> QED BY <1>1, <1>2, <2>1, <3>1 DEF Reported
    <2>3. CASE p # peer
      <3>1. Cardinality(OfKind(outcomes', "accepted")) = onWay BY <1>2, <2>3
      <3> HIDE DEF onWay
      <3> QED BY <1>1, <1>2, <2>1, <3>1 DEF Reported
    <2> QED BY <2>2, <2>3
  <1>5. D!Handle
    <2>1. accepted' \in {accepted, accepted + 1}
      BY <1>2 DEF CountsOK
    <2> QED BY <1>1, <1>3, <2>1 DEF D!Handle
  <1> QED BY <1>3, <1>4, <1>5 DEF Delivers, DeliveryInv

(* An acceptance that arrives was given and not reported before.            *)
LEMMA OutcomeDelivers ==
    ASSUME CountsOK, CountsOK', DeliveryInv, OutcomeArrives PROVE Delivers
  <1>1. /\ UNCHANGED <<sent, msg_received_cnt, accepted, transit, incoming>>
        /\ outcomes # <<>> /\ outcomes' = Tail(outcomes)
        /\ \/ Head(outcomes) = "accepted" /\ confirmedSent' = confirmedSent + 1
           \/ confirmedSent' = confirmedSent
    BY OutcomeFacts DEF r_vars
  <1>2. Ledger'
    <2>1. transit' <= transit /\ \A p \in Peers : incoming'[p] <= incoming[p]
      BY <1>1 DEF CountsOK
    <2> QED BY <1>1, <2>1, LedgerLoses DEF DeliveryInv
  <1> DEFINE onWay == Cardinality(OfKind(outcomes, "accepted"))
             after == Cardinality(OfKind(outcomes', "accepted"))
  <1>3. /\ onWay \in Nat /\ after \in Nat
        /\ accepted \in Nat /\ confirmedSent \in Nat
        /\ confirmedSent + onWay <= accepted
    BY KindType DEF CountsOK, DeliveryInv, Reported
  <1>4. onWay = after + (IF Head(outcomes) = "accepted" THEN 1 ELSE 0)
    BY <1>1, KindTail DEF CountsOK
  <1>5. Reported' <=> confirmedSent' + after <= accepted'
    BY DEF Reported
  <1> HIDE DEF onWay, after
  <1>6. CASE Head(outcomes) = "accepted" /\ confirmedSent' = confirmedSent + 1
    <2>1. confirmedSent < accepted BY <1>3, <1>4, <1>6
    <2>2. D!Confirm BY <1>1, <1>6, <2>1 DEF D!Confirm
    <2>3. Reported' BY <1>1, <1>3, <1>4, <1>5, <1>6
    <2> QED BY <1>2, <2>2, <2>3 DEF Delivers, DeliveryInv
  <1>7. CASE confirmedSent' = confirmedSent
    <2>1. Reported' BY <1>1, <1>3, <1>4, <1>5, <1>7
    <2> QED BY <1>1, <1>2, <1>7, <2>1 DEF Delivers, DeliveryInv
  <1> QED BY <1>1, <1>6, <1>7

(* Every step of the two clients is a step of Delivery or none.             *)
LEMMA StepDelivers ==
    ASSUME CountsOK, CountsOK', DeliveryInv, [Next]_vars PROVE Delivers
  <1>0. ASSUME UNCHANGED <<sent, msg_received_cnt, accepted, confirmedSent>>,
               UNCHANGED <<transit, outcomes, incoming>>
        PROVE  Delivers
    <2>1. transit' <= transit /\ \A p \in Peers : incoming'[p] <= incoming[p]
      BY <1>0 DEF CountsOK
    <2> QED BY <1>0, <2>1, LosesDelivers
  <1>1. CASE \/ SenderStarts \/ SenderCountsDown \/ SenderReturns
             \/ SenderTick \/ ReceiverCountsDown \/ ReceiverTick
             \/ Ended \/ UNCHANGED vars
    BY <1>0, <1>1, QuietSteps DEF wire
  <1>2. CASE ReceiverStarts
    BY <1>0, <1>2, ReceiverStartFacts DEF s_vars, wire
  <1>3. CASE SenderPolls
    <2>1. UNCHANGED <<msg_received_cnt, accepted, confirmedSent, outcomes,
                      incoming>>
      BY <1>3, PollFacts DEF r_vars
    <2>2. \/ sent' = sent + 1 /\ transit' = transit + 1
          \/ UNCHANGED <<sent, transit>>
      BY <1>3, PollFacts
    <2> QED BY <1>0, <2>1, <2>2, SendDelivers
  <1>4. ASSUME NEW c \in 1..Credit, FlowArrives(c) PROVE Delivers
    <2>1. UNCHANGED <<msg_received_cnt, accepted, confirmedSent, outcomes,
                      incoming>>
      BY <1>4, FlowFacts DEF r_vars
    <2>2. \/ sent' = sent + 1 /\ transit' = transit + 1
          \/ UNCHANGED <<sent, transit>>
      BY <1>4, FlowFacts
    <2> QED BY <1>0, <2>1, <2>2, SendDelivers
  <1>5. CASE TransferArrives
    <2>1. /\ UNCHANGED <<sent, confirmedSent, outcomes, accepted,
                         msg_received_cnt>>
          /\ transit > 0 /\ transit' = transit - 1
          /\ peer # NoPeer
          /\ incoming' = [incoming EXCEPT ![peer] = @ + 1]
      BY <1>5, TransferFacts DEF s_vars
    <2>2. peer \in Peers BY <2>1 DEF CountsOK
    <2>3. Ledger' BY <2>1, <2>2, LedgerMovesIn DEF DeliveryInv
    <2>4. Reported' BY <2>1 DEF DeliveryInv, Reported
    <2> QED BY <2>1, <2>3, <2>4 DEF Delivers, DeliveryInv
  <1>6. ASSUME NEW p \in Peers, ReceiverHandles(p) PROVE Delivers
    BY <1>6, HandleDelivers
  <1>7. CASE OutcomeArrives BY <1>7, OutcomeDelivers
  <1>8. ASSUME NEW p \in Peers, Connects(p) PROVE Delivers
    BY <1>0, <1>8, ConnectFacts
  <1>9. CASE SenderHearsClose BY <1>0, <1>9, CloseFacts DEF r_vars, wire
  <1>10. CASE ReceiverHearsClose
    <2>1. /\ UNCHANGED <<sent, msg_received_cnt, accepted, confirmedSent,
                         transit, outcomes>>
          /\ incoming' = [incoming EXCEPT ![peer] = 0]
      BY <1>10, CloseFacts DEF s_vars, wire
    <2>2. transit' <= transit /\ \A p \in Peers : incoming'[p] <= incoming[p]
      BY <2>1 DEF CountsOK
    <2> QED BY <2>1, <2>2, LosesDelivers
  <1>11. CASE SenderTransportCloses \/ SenderLosesTransport \/ NetworkBreaks
    <2>1. /\ S!TransportCloses \/ S!on_transport_error(FALSE)
          /\ NoWire
          /\ UNCHANGED <<r_vars, accepted>>
      BY <1>11 DEF SenderTransportCloses, SenderLosesTransport, NetworkBreaks
    <2>2. UNCHANGED <<sent, msg_received_cnt, accepted, confirmedSent, incoming>>
      BY <2>1, SenderLoses DEF r_vars
    <2>3. transit' = 0 /\ outcomes' = <<>> BY <2>1 DEF NoWire
    <2>4. transit' <= transit BY <2>3 DEF CountsOK
    <2>5. \A p \in Peers : incoming'[p] <= incoming[p] BY <2>2 DEF CountsOK
    <2> QED BY <2>2, <2>3, <2>4, <2>5, LosesDelivers
  <1>12. ASSUME NEW p \in Peers,
                ReceiverTransportCloses(p) \/ ReceiverLosesTransport(p)
         PROVE  Delivers
    <2>1. /\ R!TransportCloses(p) \/ R!on_transport_error(p, FALSE)
          /\ UNCHANGED <<s_vars, wire, accepted, breaks>>
      BY <1>12 DEF ReceiverTransportCloses, ReceiverLosesTransport
    <2>2. UNCHANGED <<sent, accepted, confirmedSent, transit, outcomes>>
      BY <2>1 DEF s_vars, wire
    <2>3. /\ msg_received_cnt' = msg_received_cnt
          /\ incoming' = incoming \/ incoming' = [incoming EXCEPT ![p] = 0]
      BY <2>1, ReceiverLoses
    <2>4. transit' <= transit BY <2>2 DEF CountsOK
    <2>5. \A q \in Peers : incoming'[q] <= incoming[q] BY <2>3 DEF CountsOK
    <2> QED BY <2>2, <2>3, <2>4, <2>5, LosesDelivers
  <1> QED BY <1>1, <1>2, <1>3, <1>4, <1>5, <1>6, <1>7, <1>8, <1>9, <1>10,
             <1>11, <1>12
          DEF Next

(* The counts that relate the two sides hold.                               *)
THEOREM DeliveryCorrect == Spec => []DeliveryInv
  <1>1. Init /\ CountsOK => DeliveryInv
    <2> SUFFICES ASSUME Init, CountsOK PROVE DeliveryInv OBVIOUS
    <2>1. /\ transit = 0 /\ outcomes = <<>> /\ accepted = 0
          /\ sent = 0 /\ confirmedSent = 0 /\ msg_received_cnt = 0
          /\ incoming = [p \in Peers |-> 0]
      BY DEF Init, S!Init, R!Init
    <2>2. PICK where : where = [m \in 1..0 |-> Handled] OBVIOUS
    <2>3. where \in [1..sent -> Places] BY <2>1, <2>2, PlacesDiffer
    <2>4. \A place : Cardinality(HeldAt(sent, where, place)) \in Nat
      BY HeldType DEF CountsOK
    <2>5. Fits(where) BY <2>1, <2>4 DEF Fits
    <2>6. Ledger BY <2>3, <2>5 DEF Ledger
    <2>7. Cardinality(OfKind(outcomes, "accepted")) = 0 BY <2>1, KindEmpty
    <2> QED BY <2>1, <2>6, <2>7 DEF DeliveryInv, Reported
  <1>2. CountsOK /\ CountsOK' /\ DeliveryInv /\ [Next]_vars => DeliveryInv'
    BY StepDelivers DEF Delivers
  <1> QED BY <1>1, <1>2, CountsCorrect, PTL DEF Spec

(* ImplementsDelivery: over any number of connections, whatever is lost,    *)
(* nothing is handled that was not sent, and nothing confirmed that was not *)
(* accepted.                                                                *)
THEOREM DeliveryImplemented == Spec => ImplementsDelivery
  <1>1. Init => D!DeliveryInit
    BY DEF Init, S!Init, R!Init, D!DeliveryInit
  <1>2. CountsOK /\ CountsOK' /\ DeliveryInv /\ [Next]_vars
            => [D!Submit \/ D!Handle \/ D!Confirm]_D!deliveryVars
    BY StepDelivers DEF Delivers, D!deliveryVars
  <1> QED BY <1>1, <1>2, CountsCorrect, DeliveryCorrect, PTL
          DEF Spec, ImplementsDelivery, D!DeliverySpec
-----------------------------------------------------------------------------
(* A sender that has no connection has nothing open on one, and a peer that *)
(* never connected has nothing waiting: a new connection starts clean.      *)
CleanStart ==
    /\ peer = NoPeer => /\ transit = 0 /\ outcomes = <<>>
                        /\ S!Running => unsettled = 0 /\ credit = 0
    /\ s_conn \in {"none", "connecting"} => peer = NoPeer
    /\ \A p \in Peers : r_conn[p] = "none" => incoming[p] = 0

ConnectionInv == CleanStart /\ Conserves

(* A process that has ended does not run again.                             *)
LEMMA StaysEnded ==
    ASSUME CountsOK, [Next]_vars
    PROVE  /\ S!Running' => S!Running
           /\ R!Running' => R!Running
           /\ S!Running \/ s_status' = s_status
           /\ R!Running \/ r_status' = r_status
  <1>1. S!Running \/ s_status' = s_status
    <2>1. CASE \/ SenderStarts \/ SenderCountsDown \/ SenderReturns
               \/ SenderTick \/ SenderPolls \/ SenderHearsClose
               \/ \E c \in 1..Credit : FlowArrives(c)
               \/ \E p \in Peers : Connects(p)
      BY <2>1 DEF SenderStarts, SenderCountsDown, SenderReturns, SenderTick,
           SenderPolls, FlowArrives, Connects, SenderHearsClose,
           S!on_container_start, S!timerEvent, S!RunReturns, S!Tick,
           S!checkIfCanSend, S!on_sendable, S!ConnectionOpens,
           S!on_connection_close
    <2>3. CASE \/ SenderTransportCloses \/ SenderLosesTransport \/ NetworkBreaks
      BY <2>3, SenderLoses
         DEF SenderTransportCloses, SenderLosesTransport, NetworkBreaks
    <2>4. CASE OutcomeArrives
      <3>1. Head(outcomes) \in Outcomes BY <2>4 DEF CountsOK, OutcomeArrives
      <3> QED
        BY <2>4, <3>1 DEF OutcomeArrives, Outcomes, S!on_tracker_accept,
             S!on_tracker_reject, S!on_tracker_release
    <2>2. CASE \/ ReceiverStarts \/ ReceiverCountsDown \/ ReceiverTick
               \/ TransferArrives \/ ReceiverHearsClose \/ Ended
               \/ UNCHANGED vars
               \/ \E p \in Peers : \/ ReceiverHandles(p)
                                   \/ ReceiverTransportCloses(p)
                                   \/ ReceiverLosesTransport(p)
      BY <2>2 DEF vars, s_vars, ReceiverStarts, ReceiverCountsDown,
           ReceiverTick, TransferArrives, ReceiverHandles, ReceiverHearsClose,
           ReceiverTransportCloses, ReceiverLosesTransport, Ended,
           ReceiverAlone, S!Exited, S!vars
    <2> QED BY <2>1, <2>2, <2>3, <2>4 DEF Next
  <1>2. R!Running \/ r_status' = r_status
    BY DEF Next, vars, r_vars, SenderStarts, SenderCountsDown, SenderReturns,
           SenderTick, ReceiverStarts, ReceiverCountsDown, ReceiverTick,
           SenderPolls, FlowArrives, TransferArrives, ReceiverHandles,
           OutcomeArrives, Connects, SenderHearsClose, ReceiverHearsClose,
           SenderTransportCloses, ReceiverTransportCloses,
           SenderLosesTransport, ReceiverLosesTransport, NetworkBreaks, Ended,
           SenderAlone, R!on_container_start, R!timerEvent, R!Tick,
           R!on_message, R!Arrives, R!PeerConnects, R!on_connection_close,
           R!TransportCloses, R!on_transport_error, R!Exited, R!vars
  <1> QED BY <1>1, <1>2 DEF S!Running, R!Running

(* A step that leaves the deliveries of the sender's connection alone.      *)
LEMMA KeepConnection ==
    ASSUME CountsOK, ConnectionInv, [Next]_vars,
           UNCHANGED <<peer, transit, outcomes, unsettled, credit>>,
           \/ s_conn' = s_conn
           \/ s_conn' \in {"closing", "ended"}
           \/ s_conn = "none" /\ s_conn' = "connecting",
           \A p \in Peers :
              \/ r_conn'[p] = r_conn[p] /\ incoming'[p] = incoming[p]
              \/ r_conn'[p] \notin {"none", "open"}
    PROVE  ConnectionInv'
  <1>1. CleanStart' BY StaysEnded DEF ConnectionInv, CleanStart
  <1>2. Conserves'
    <2> SUFFICES ASSUME Connected', S!Running', R!Running'
                 PROVE  /\ unsettled' = transit' + incoming'[peer'] + Len(outcomes')
                        /\ credit' \in 0..Granted'
      BY DEF Conserves
    <2>1. S!Running /\ R!Running BY StaysEnded
    <2>2. /\ peer \in Peers /\ peer # NoPeer
          /\ s_conn' = "open" /\ r_conn'[peer] = "open"
      BY DEF Connected, CountsOK
    <2>3. Connected /\ incoming'[peer] = incoming[peer]
      BY <2>2 DEF Connected
    <2> QED BY <2>1, <2>3 DEF ConnectionInv, Conserves, Granted
  <1> QED BY <1>1, <1>2 DEF ConnectionInv

(* Without its connection the sender is back where none has been made.      *)
LEMMA LosesConnection ==
    ASSUME CountsOK, ConnectionInv, NoWire,
           S!TransportCloses \/ S!on_transport_error(FALSE),
           UNCHANGED <<incoming, r_conn>>
    PROVE  ConnectionInv'
  <1>1. peer' = NoPeer /\ transit' = 0 /\ outcomes' = <<>> BY DEF NoWire
  <1>2. ~S!Running' \/ (credit' = 0 /\ unsettled' = 0)
    BY SenderLoses DEF S!Running
  <1>3. CleanStart' BY <1>1, <1>2 DEF ConnectionInv, CleanStart
  <1>4. Conserves' BY <1>1 DEF Conserves, Connected
  <1> QED BY <1>3, <1>4 DEF ConnectionInv

(* What is sent on a connection uses up credit the receiver gave, and is on *)
(* its way.                                                                 *)
LEMMA SendKeepsConnection ==
    ASSUME CountsOK, ConnectionInv, [Next]_vars, NEW c \in Nat, c > 0,
           UNCHANGED <<s_conn, peer, outcomes, incoming, r_conn>>,
           peer # NoPeer,
           Connected /\ S!Running /\ R!Running => c <= Granted,
           \/ /\ transit' = transit + 1 /\ unsettled' = unsettled + 1
              /\ credit' = c - 1
           \/ UNCHANGED <<transit, unsettled>> /\ credit' = c
    PROVE  ConnectionInv'
  <1>1. CleanStart' BY DEF ConnectionInv, CleanStart
  <1>2. Conserves'
    <2> SUFFICES ASSUME Connected', S!Running', R!Running'
                 PROVE  /\ unsettled' = transit' + incoming'[peer'] + Len(outcomes')
                        /\ credit' \in 0..Granted'
      BY DEF Conserves
    <2>1. S!Running /\ R!Running BY StaysEnded
    <2>2. Connected /\ peer \in Peers BY DEF Connected, CountsOK
    <2>3. /\ unsettled = transit + incoming[peer] + Len(outcomes)
          /\ c <= Granted
      BY <2>1, <2>2 DEF ConnectionInv, Conserves
    <2>4. /\ transit \in Nat /\ incoming[peer] \in Nat /\ Len(outcomes) \in Nat
          /\ unsettled \in Nat /\ Credit \in Nat
      BY <2>2, CreditAssumption DEF CountsOK
    <2>5. /\ Len(outcomes') = Len(outcomes)
          /\ incoming'[peer'] = incoming[peer]
          /\ Granted' = Credit - incoming[peer] - transit'
      BY DEF Granted
    <2>6. \/ /\ transit' = transit + 1 /\ unsettled' = unsettled + 1
             /\ credit' = c - 1
          \/ /\ transit' = transit /\ unsettled' = unsettled /\ credit' = c
      OBVIOUS
    <2>7. unsettled' = transit' + incoming'[peer'] + Len(outcomes')
      BY <2>3, <2>4, <2>5, <2>6
    <2>8. c <= Credit - incoming[peer] - transit BY <2>3 DEF Granted
    <2>9. credit' >= 0 /\ credit' <= Granted' BY <2>4, <2>5, <2>6, <2>8
    <2>10. credit' \in Int /\ Granted' \in Int BY <2>4, <2>5, <2>6
    <2> QED BY <2>7, <2>9, <2>10
  <1> QED BY <1>1, <1>2 DEF ConnectionInv

(* A message and its outcome change places on the connection they are on.   *)
LEMMA HandleKeepsConnection ==
    ASSUME CountsOK, ConnectionInv, [Next]_vars, NEW p \in Peers,
           ReceiverHandles(p)
    PROVE  ConnectionInv'
  <1>1. /\ UNCHANGED <<s_conn, s_status, unsettled, credit, peer, transit>>
        /\ incoming[p] > 0
        /\ incoming' = [incoming EXCEPT ![p] = @ - 1]
        /\ r_conn' = r_conn \/ r_conn' = [r_conn EXCEPT ![p] = "closing"]
    BY HandleFacts DEF s_vars
  <1>2. PICK o \in Outcomes :
            outcomes' = IF p = peer THEN Append(outcomes, o) ELSE outcomes
    BY HandleFacts
  <1>3. CleanStart'
    <2>1. peer = NoPeer => outcomes' = outcomes BY <1>2, PeersAssumption
    <2>2. \A q \in Peers : r_conn'[q] = "none" => incoming'[q] = 0
      BY <1>1 DEF CountsOK, ConnectionInv, CleanStart
    <2> QED BY <1>1, <2>1, <2>2 DEF ConnectionInv, CleanStart, S!Running
  <1>4. Conserves'
    <2> SUFFICES ASSUME Connected', S!Running', R!Running'
                 PROVE  /\ unsettled' = transit' + incoming'[peer'] + Len(outcomes')
                        /\ credit' \in 0..Granted'
      BY DEF Conserves
    <2>1. S!Running /\ R!Running BY StaysEnded
    <2>2. peer \in Peers BY <1>1 DEF Connected, CountsOK
    <2>3. Connected BY <1>1, <2>2 DEF Connected, CountsOK
    <2>4. /\ unsettled = transit + incoming[peer] + Len(outcomes)
          /\ credit \in 0..(Credit - incoming[peer] - transit)
      BY <2>1, <2>3 DEF ConnectionInv, Conserves, Granted
    <2>5. /\ transit \in Nat /\ incoming[peer] \in Nat /\ Len(outcomes) \in Nat
          /\ credit \in Nat /\ Credit \in Nat
      BY <2>2, CreditAssumption DEF CountsOK
    <2>6. \/ /\ incoming'[peer'] = incoming[peer]
             /\ Len(outcomes') = Len(outcomes)
          \/ /\ incoming'[peer'] = incoming[peer] - 1
             /\ Len(outcomes') = Len(outcomes) + 1
      BY <1>1, <1>2, <2>2 DEF CountsOK
    <2>7. Granted' = Credit - incoming'[peer'] - transit BY <1>1 DEF Granted
    <2>8. credit' = credit /\ unsettled' = unsettled /\ transit' = transit
      BY <1>1
    <2>9. unsettled' = transit' + incoming'[peer'] + Len(outcomes')
      <3>1. PICK i, j, n, m \in Int :
              /\ i = incoming[peer] /\ j = incoming'[peer']
              /\ n = Len(outcomes) /\ m = Len(outcomes')
        BY <2>5, <2>6
      <3>2. (j = i /\ m = n) \/ (j = i - 1 /\ m = n + 1) BY <2>6, <3>1
      <3>4. transit \in Nat BY <2>5
      <3>5. i \in Int /\ n \in Int OBVIOUS
      <3>6. transit + i + n = transit + (i - 1) + (n + 1) BY <3>4, <3>5
      <3>7. transit + i + n = transit + j + m BY <3>2, <3>6
      <3>3. unsettled = transit + i + n BY <2>4, <3>1
      <3> QED BY <2>8, <3>1, <3>3, <3>7
    <2>10. credit' \in 0..Granted' BY <2>4, <2>5, <2>6, <2>7, <2>8
    <2> QED BY <2>9, <2>10
  <1> QED BY <1>3, <1>4 DEF ConnectionInv

(* An outcome that is counted is one open delivery less.                    *)
LEMMA OutcomeKeepsConnection ==
    ASSUME CountsOK, ConnectionInv, [Next]_vars, OutcomeArrives
    PROVE  ConnectionInv'
  <1>1. /\ UNCHANGED <<peer, transit, incoming, r_conn, r_status, credit>>
        /\ outcomes # <<>> /\ outcomes' = Tail(outcomes)
        /\ s_conn \in {"open", "closing"}
        /\ s_conn' \in {s_conn, "closing"}
        /\ \/ unsettled > 0 /\ unsettled' = unsettled - 1
           \/ ~S!Running'
    BY OutcomeFacts DEF r_vars, S!Running
  <1>2. peer # NoPeer BY <1>1 DEF ConnectionInv, CleanStart
  <1>3. CleanStart' BY <1>1, <1>2 DEF ConnectionInv, CleanStart
  <1>4. Conserves'
    <2> SUFFICES ASSUME Connected', S!Running', R!Running'
                 PROVE  /\ unsettled' = transit' + incoming'[peer'] + Len(outcomes')
                        /\ credit' \in 0..Granted'
      BY DEF Conserves
    <2>1. S!Running /\ R!Running BY StaysEnded
    <2>2. Connected /\ peer \in Peers BY <1>1 DEF Connected, CountsOK
    <2>3. /\ unsettled = transit + incoming[peer] + Len(outcomes)
          /\ credit \in 0..Granted
      BY <2>1, <2>2 DEF ConnectionInv, Conserves
    <2>4. Len(outcomes) \in Nat \ {0} /\ Len(outcomes') = Len(outcomes) - 1
      BY <1>1 DEF CountsOK
    <2>5. unsettled' = unsettled - 1 BY <1>1
    <2>6. transit \in Nat /\ incoming[peer] \in Nat BY <2>2 DEF CountsOK
    <2>7. Granted' = Granted BY <1>1 DEF Granted
    <2>8. UNCHANGED <<peer, transit, incoming, credit>> BY <1>1
    <2> QED BY <2>3, <2>4, <2>5, <2>6, <2>7, <2>8
  <1> QED BY <1>3, <1>4 DEF ConnectionInv

(* On every connection that is up each open delivery is accounted for, and  *)
(* the credit of the sender is room the receiver has.                       *)
THEOREM ConnectionCorrect == Spec => []ConnectionInv
  <1>1. Init => ConnectionInv
    <2> SUFFICES ASSUME Init PROVE ConnectionInv OBVIOUS
    <2>1. /\ peer = NoPeer /\ transit = 0 /\ outcomes = <<>>
          /\ unsettled = 0 /\ credit = 0
          /\ incoming = [p \in Peers |-> 0]
      BY DEF Init, S!Init, R!Init
    <2> QED BY <2>1 DEF ConnectionInv, CleanStart, Conserves, Connected
  <1>2. CountsOK /\ CountsOK' /\ ConnectionInv /\ [Next]_vars => ConnectionInv'
    <2> SUFFICES ASSUME CountsOK, CountsOK', ConnectionInv, [Next]_vars
                 PROVE  ConnectionInv'
      OBVIOUS
    <2>1. CASE \/ SenderStarts \/ SenderCountsDown \/ SenderReturns
               \/ SenderTick \/ ReceiverCountsDown \/ ReceiverTick
               \/ Ended \/ UNCHANGED vars
      BY <2>1, QuietSteps, KeepConnection DEF wire
    <2>2. CASE ReceiverStarts
      <3>1. UNCHANGED <<s_conn, peer, transit, outcomes, unsettled, credit,
                        incoming>>
        BY <2>2, ReceiverStartFacts DEF s_vars, wire
      <3>2. \A p \in Peers : \/ r_conn'[p] = r_conn[p]
                            \/ r_conn'[p] \notin {"none", "open"}
        BY <2>2, ReceiverStartFacts DEF CountsOK
      <3> QED BY <3>1, <3>2, KeepConnection
    <2>3. CASE SenderPolls
      <3>1. UNCHANGED <<s_conn, peer, outcomes, incoming, r_conn>>
        BY <2>3, PollFacts DEF r_vars
      <3>2. CASE UNCHANGED <<transit, unsettled, credit>>
        BY <3>1, <3>2, KeepConnection
      <3>3. CASE /\ credit > 0 /\ transit' = transit + 1
                 /\ unsettled' = unsettled + 1 /\ credit' = credit - 1
        <4>1. S!Running BY <2>3 DEF SenderPolls, S!checkIfCanSend
        <4>2. peer # NoPeer BY <3>3, <4>1 DEF ConnectionInv, CleanStart
        <4>3. Connected /\ S!Running /\ R!Running => credit <= Granted
          <5>1. Connected => peer \in Peers BY DEF Connected, CountsOK
          <5> QED BY <5>1 DEF ConnectionInv, Conserves
        <4>4. credit \in Nat BY DEF CountsOK
        <4> QED BY <3>1, <3>3, <4>2, <4>3, <4>4, SendKeepsConnection
      <3> QED BY <2>3, <3>2, <3>3, PollFacts
    <2>4. ASSUME NEW c \in 1..Credit, FlowArrives(c) PROVE ConnectionInv'
      <3>1. /\ UNCHANGED <<s_conn, peer, outcomes, incoming, r_conn>>
            /\ c \in credit..Granted
        BY <2>4, FlowFacts DEF r_vars
      <3>2. \/ /\ transit' = transit + 1 /\ unsettled' = unsettled + 1
               /\ credit' = c - 1
            \/ UNCHANGED <<transit, unsettled>> /\ credit' = c
        BY <2>4, FlowFacts
      <3>3. peer # NoPeer BY <2>4 DEF FlowArrives
      <3>4. c \in Nat /\ c > 0 BY CreditAssumption
      <3>5. c <= Granted BY <3>1
      <3> QED BY <3>1, <3>2, <3>3, <3>4, <3>5, SendKeepsConnection
    <2>5. CASE TransferArrives
      <3>1. /\ UNCHANGED <<s_conn, s_status, unsettled, credit, peer, outcomes,
                           r_conn>>
            /\ peer # NoPeer /\ r_conn[peer] = "open"
            /\ transit > 0 /\ transit' = transit - 1
            /\ incoming' = [incoming EXCEPT ![peer] = @ + 1]
        BY <2>5, TransferFacts DEF s_vars
      <3>2. peer \in Peers BY <3>1 DEF CountsOK
      <3>3. CleanStart'
        <4>1. \A p \in Peers : r_conn'[p] = "none" => incoming'[p] = 0
          BY <3>1 DEF CountsOK, ConnectionInv, CleanStart
        <4> QED BY <3>1, <4>1 DEF ConnectionInv, CleanStart
      <3>4. Conserves'
        <4> SUFFICES ASSUME Connected', S!Running', R!Running'
                     PROVE  /\ unsettled' = transit' + incoming'[peer'] + Len(outcomes')
                            /\ credit' \in 0..Granted'
          BY DEF Conserves
        <4>1. S!Running /\ R!Running BY StaysEnded
        <4>2. Connected BY <3>1 DEF Connected
        <4>3. /\ unsettled = transit + incoming[peer] + Len(outcomes)
              /\ credit \in 0..(Credit - incoming[peer] - transit)
          BY <4>1, <4>2 DEF ConnectionInv, Conserves, Granted
        <4>4. /\ transit \in Nat /\ incoming[peer] \in Nat
              /\ Len(outcomes) \in Nat /\ Credit \in Nat
          BY <3>2, CreditAssumption DEF CountsOK
        <4>5. incoming'[peer'] = incoming[peer] + 1
          BY <3>1, <3>2 DEF CountsOK
        <4>6. Granted' = Credit - (incoming[peer] + 1) - (transit - 1)
          BY <3>1, <4>5 DEF Granted
        <4>7. Granted' = Credit - incoming[peer] - transit BY <4>4, <4>6
        <4>8. /\ unsettled' = unsettled /\ credit' = credit
              /\ Len(outcomes') = Len(outcomes)
          BY <3>1
        <4>9. unsettled' = transit' + incoming'[peer'] + Len(outcomes')
          BY <3>1, <4>3, <4>4, <4>5, <4>8
        <4> QED BY <4>3, <4>7, <4>8, <4>9
      <3> QED BY <3>3, <3>4 DEF ConnectionInv
    <2>6. ASSUME NEW p \in Peers, ReceiverHandles(p) PROVE ConnectionInv'
      BY <2>6, HandleKeepsConnection
    <2>7. CASE OutcomeArrives BY <2>7, OutcomeKeepsConnection
    <2>8. ASSUME NEW p \in Peers, Connects(p) PROVE ConnectionInv'
      <3>1. /\ UNCHANGED <<transit, outcomes, unsettled, credit, incoming>>
            /\ peer = NoPeer /\ peer' = p
            /\ s_conn' = "open"
            /\ r_conn[p] = "none" /\ r_conn' = [r_conn EXCEPT ![p] = "open"]
        BY <2>8, ConnectFacts
      <3>2. S!Running BY <2>8 DEF Connects, S!ConnectionOpens
      <3>3. transit = 0 /\ outcomes = <<>> /\ unsettled = 0 /\ credit = 0
        BY <3>1, <3>2 DEF ConnectionInv, CleanStart
      <3>4. incoming[p] = 0 BY <3>1 DEF ConnectionInv, CleanStart
      <3>5. CleanStart'
        <4>1. \A q \in Peers : r_conn'[q] = "none" => incoming'[q] = 0
          BY <3>1 DEF CountsOK, ConnectionInv, CleanStart
        <4>2. peer' # NoPeer BY <3>1, PeersAssumption
        <4> QED BY <3>1, <4>1, <4>2 DEF CleanStart
      <3>6. Len(outcomes') = 0 /\ Granted' = Credit
        BY <3>1, <3>3, <3>4, CreditAssumption DEF Granted
      <3>7. Conserves'
        BY <3>1, <3>3, <3>4, <3>6, CreditAssumption DEF Conserves
      <3> QED BY <3>5, <3>7 DEF ConnectionInv
    <2>9. CASE SenderHearsClose
      BY <2>9, CloseFacts, KeepConnection DEF r_vars, wire
    <2>10. CASE ReceiverHearsClose
      <3>1. UNCHANGED <<s_conn, peer, transit, outcomes, unsettled, credit>>
        BY <2>10, CloseFacts DEF s_vars, wire
      <3>2. \A p \in Peers :
                \/ r_conn'[p] = r_conn[p] /\ incoming'[p] = incoming[p]
                \/ r_conn'[p] \notin {"none", "open"}
        BY <2>10, CloseFacts DEF CountsOK
      <3> QED BY <3>1, <3>2, KeepConnection
    <2>11. CASE SenderTransportCloses \/ SenderLosesTransport \/ NetworkBreaks
      <3>1. /\ S!TransportCloses \/ S!on_transport_error(FALSE)
            /\ NoWire
            /\ UNCHANGED r_vars
        BY <2>11 DEF SenderTransportCloses, SenderLosesTransport, NetworkBreaks
      <3> QED BY <3>1, LosesConnection DEF r_vars
    <2>12. ASSUME NEW p \in Peers,
                  ReceiverTransportCloses(p) \/ ReceiverLosesTransport(p)
           PROVE  ConnectionInv'
      <3>1. /\ R!TransportCloses(p) \/ R!on_transport_error(p, FALSE)
            /\ UNCHANGED <<s_vars, wire, accepted, breaks>>
        BY <2>12 DEF ReceiverTransportCloses, ReceiverLosesTransport
      <3>2. UNCHANGED <<s_conn, peer, transit, outcomes, unsettled, credit>>
        BY <3>1 DEF s_vars, wire
      <3>3. \A q \in Peers :
                \/ r_conn'[q] = r_conn[q] /\ incoming'[q] = incoming[q]
                \/ r_conn'[q] \notin {"none", "open"}
        BY <3>1, ReceiverLoses DEF CountsOK
      <3> QED BY <3>2, <3>3, KeepConnection
    <2> QED BY <2>1, <2>2, <2>3, <2>4, <2>5, <2>6, <2>7, <2>8, <2>9, <2>10,
               <2>11, <2>12
            DEF Next
  <1> QED BY <1>1, <1>2, CountsCorrect, PTL DEF Spec

(* Conserves, for every credit window and any number of connections.        *)
THEOREM ConservesCorrect == Spec => []Conserves
  <1>1. ConnectionInv => Conserves BY DEF ConnectionInv
  <1> QED BY <1>1, ConnectionCorrect, PTL
-----------------------------------------------------------------------------
(* What the two clients know on their own: a sender never sends more than   *)
(* its count, and a countdown without a timeout does not move.              *)
SidesInv ==
    /\ s_conf \in S!Confs
    /\ breaks \in Nat
    /\ s_conf.count > 0 => sent <= s_conf.count
    /\ ready => sent < s_conf.count
    /\ s_conf.timeout = S!FOREVER => s_timer = S!NewTimer(S!FOREVER)
    /\ r_conf.timeout = S!FOREVER => r_timer = S!NewTimer(S!FOREVER)

(* The runs SuccessMeansDelivered is about, and those of them in which the  *)
(* sender still waits for an outcome.                                       *)
Served ==
    /\ Matched
    /\ breaks = 0
    /\ r_conf.msg_action \in {"no-action", "ack"}
    /\ "failure" \notin {s_status, r_status}

Waits == Served /\ confirmedSent < s_conf.count

(* While the sender waits its connection is up, or it has not had one and   *)
(* has sent nothing.                                                        *)
SenderWaits ==
    /\ s_status = "running" \/ GaveUp
    /\ s_conn \in {"none", "connecting", "open"} \/ GaveUp
    /\ s_conn # "open" => sent = 0 /\ credit = 0 /\ peer = NoPeer

(* No outcome is lost, and none is other than an acceptance.                *)
NothingLost ==
    /\ accepted = confirmedSent + Len(outcomes)
    /\ msg_received_cnt = accepted
    /\ \A i \in 1..Len(outcomes) : outcomes[i] = "accepted"

(* The receiver has no connection but the sender's, and closes it only at   *)
(* its count.                                                               *)
ReceiverWaits ==
    /\ peer # NoPeer => R!Listens /\ started /\ R!Running
    /\ R!Listens => \A p \in Peers :
          /\ r_conn[p] \in {"none", "open", "closing"}
          /\ r_conn[p] # "none" => p = peer
          /\ r_conn[p] = "closing" => msg_received_cnt >= r_conf.count
    /\ \A p \in Peers : p # peer => incoming[p] = 0

WaitsInv == SenderWaits /\ NothingLost /\ ReceiverWaits

SuccessInv ==
    /\ SidesInv
    /\ accepted <= msg_received_cnt
    /\ Waits => WaitsInv

(* What any step does to the two command lines, the sends and the timers.   *)
LEMMA SidesFacts ==
    ASSUME CountsOK, [Next]_vars
    PROVE  /\ UNCHANGED <<s_conf, r_conf>>
           /\ breaks' = breaks \/ breaks' = breaks + 1
           /\ \/ UNCHANGED <<sent, ready>>
              \/ sent' = sent + 1 /\ ~ready' /\ (ready \/ sent < s_conf.count)
              \/ sent' = sent /\ sent < s_conf.count
           /\ \/ s_timer' = s_timer
              \/ s_timer' = S!Decrement(s_timer)
              \/ s_timer' = S!Reset(s_timer)
           /\ \/ r_timer' = r_timer
              \/ r_timer' = R!Decrement(r_timer)
              \/ r_timer' = R!Reset(r_timer)
  <1>1. CASE \/ SenderStarts \/ SenderCountsDown \/ SenderReturns \/ SenderTick
             \/ SenderPolls \/ SenderHearsClose \/ OutcomeArrives
             \/ \E c \in 1..Credit : FlowArrives(c)
    <2>1. UNCHANGED <<r_conf, breaks, r_timer>>
      BY <1>1 DEF SenderStarts, SenderCountsDown, SenderReturns, SenderTick,
           SenderPolls, SenderHearsClose, OutcomeArrives, FlowArrives,
           SenderAlone, r_vars
    <2>2. CASE \/ SenderStarts \/ SenderCountsDown \/ SenderReturns
               \/ SenderTick \/ SenderHearsClose
      BY <2>1, <2>2 DEF SenderStarts, SenderCountsDown, SenderReturns,
           SenderTick, SenderHearsClose, S!on_container_start, S!timerEvent,
           S!RunReturns, S!Tick, S!on_connection_close, S!Exit, S!options,
           S!progress
    <2>3. CASE SenderPolls
      BY <2>1, <2>3 DEF SenderPolls, S!checkIfCanSend, S!send, S!MoreToSend,
           S!options, S!progress
    <2>4. CASE \E c \in 1..Credit : FlowArrives(c)
      BY <2>1, <2>4 DEF FlowArrives, S!on_sendable, S!send, S!options,
           S!progress
    <2>5. CASE OutcomeArrives
      <3>1. Head(outcomes) \in Outcomes BY <2>5 DEF CountsOK, OutcomeArrives
      <3> QED
        BY <2>1, <2>5, <3>1 DEF OutcomeArrives, Outcomes, S!on_tracker_accept,
             S!on_tracker_reject, S!on_tracker_release, S!Exit, S!options,
             S!progress
    <2> QED BY <1>1, <2>2, <2>3, <2>4, <2>5
  <1>2. CASE \/ ReceiverStarts \/ ReceiverCountsDown \/ ReceiverTick
             \/ TransferArrives \/ ReceiverHearsClose \/ Ended
             \/ UNCHANGED vars
             \/ \E p \in Peers : \/ ReceiverHandles(p)
                                 \/ ReceiverTransportCloses(p)
                                 \/ ReceiverLosesTransport(p)
    <2>1. UNCHANGED <<s_conf, breaks, sent, ready, s_timer>>
      BY <1>2 DEF ReceiverStarts, ReceiverCountsDown, ReceiverTick,
           TransferArrives, ReceiverHearsClose, Ended, vars, ReceiverHandles,
           ReceiverTransportCloses, ReceiverLosesTransport, ReceiverAlone,
           s_vars, S!Exited, S!vars
    <2>2. /\ r_conf' = r_conf
          /\ \/ r_timer' = r_timer
             \/ r_timer' = R!Decrement(r_timer)
             \/ r_timer' = R!Reset(r_timer)
      BY <1>2 DEF ReceiverStarts, ReceiverCountsDown, ReceiverTick,
           TransferArrives, ReceiverHearsClose, Ended, vars, ReceiverHandles,
           ReceiverTransportCloses, ReceiverLosesTransport, r_vars,
           R!on_container_start, R!timerEvent, R!Tick, R!Arrives,
           R!on_connection_close, R!ConnectionEnds, R!on_message,
           R!HandleMessage, R!ResetTimer, R!TransportCloses,
           R!on_transport_error, R!on_transport_close, R!Exit, R!handled,
           R!Exited, R!vars
    <2> QED BY <2>1, <2>2
  <1>3. CASE \/ SenderTransportCloses \/ SenderLosesTransport \/ NetworkBreaks
             \/ \E p \in Peers : Connects(p)
    BY <1>3 DEF SenderTransportCloses, SenderLosesTransport, NetworkBreaks,
         Connects, S!TransportCloses, S!on_transport_error, S!LinkLost,
         S!on_transport_close, S!ConnectionOpens, S!Exit, S!options,
         S!progress, r_vars, R!PeerConnects, R!handled
  <1> QED BY <1>1, <1>2, <1>3 DEF Next

(* Every step preserves what each client knows on its own.                  *)
LEMMA SidesStep ==
    ASSUME CountsOK, SidesInv, [Next]_vars PROVE SidesInv'
  <1>1. s_conf' = s_conf /\ r_conf' = r_conf /\ breaks' \in Nat
    BY SidesFacts DEF SidesInv
  <1>2. s_conf.count \in Int BY DEF SidesInv, S!Confs
  <1>3. /\ s_conf.count > 0 => sent' <= s_conf.count
        /\ ready' => sent' < s_conf.count
    <2>1. \/ UNCHANGED <<sent, ready>>
          \/ sent' = sent + 1 /\ ~ready' /\ (ready \/ sent < s_conf.count)
          \/ sent' = sent /\ sent < s_conf.count
      BY SidesFacts
    <2> QED BY <1>2, <2>1 DEF SidesInv, CountsOK
  <1>4. s_conf.timeout = S!FOREVER => s_timer' = S!NewTimer(S!FOREVER)
    <2>1. \/ s_timer' = s_timer
          \/ s_timer' = S!Decrement(s_timer)
          \/ s_timer' = S!Reset(s_timer)
      BY SidesFacts
    <2> QED BY <2>1 DEF SidesInv, S!NewTimer, S!Decrement, S!Reset
  <1>5. r_conf.timeout = S!FOREVER => r_timer' = S!NewTimer(S!FOREVER)
    <2>1. \/ r_timer' = r_timer
          \/ r_timer' = R!Decrement(r_timer)
          \/ r_timer' = R!Reset(r_timer)
      BY SidesFacts
    <2> QED BY <2>1 DEF SidesInv, S!NewTimer, R!Decrement, R!Reset, S!FOREVER,
               R!FOREVER
  <1> QED BY <1>1, <1>3, <1>4, <1>5 DEF SidesInv

(* A sender that waits after a step waited before it.                       *)
LEMMA WaitedBefore ==
    ASSUME CountsOK, CountsOK', DeliveryInv, SidesInv, [Next]_vars, Waits'
    PROVE  Waits
  <1>1. /\ UNCHANGED <<s_conf, r_conf>>
        /\ breaks' = breaks \/ breaks' = breaks + 1
    BY SidesFacts
  <1>2. breaks' = 0 /\ confirmedSent' < s_conf'.count
        /\ "failure" \notin {s_status', r_status'}
    BY DEF Waits, Served
  <1>3. breaks = 0 BY <1>1, <1>2 DEF SidesInv
  <1>4. "failure" \notin {s_status, r_status}
    BY <1>2, StaysEnded DEF S!Running, R!Running
  <1>5. confirmedSent' = confirmedSent \/ confirmedSent' = confirmedSent + 1
    BY StepDelivers DEF Delivers, D!Submit, D!Handle, D!Confirm
  <1>6. confirmedSent < s_conf.count
    BY <1>1, <1>2, <1>5 DEF SidesInv, S!Confs, CountsOK
  <1> QED BY <1>1, <1>3, <1>4, <1>6 DEF Waits, Served, Matched

(* What a step of one side leaves alone is still as it was.                 *)
LEMMA SenderKeepsWaiting ==
    ASSUME SenderWaits,
           UNCHANGED <<s_conf, s_status, s_conn, sent, credit, peer>>
    PROVE  SenderWaits'
  BY DEF SenderWaits, GaveUp, S!ProtonReconnects

(* Likewise of what is on its way back.                                     *)
LEMMA NothingLostAlone ==
    ASSUME NothingLost,
           UNCHANGED <<accepted, confirmedSent, outcomes, msg_received_cnt>>
    PROVE  NothingLost'
  BY DEF NothingLost

(* Likewise of the receiver.                                                *)
LEMMA ReceiverKeepsWaiting ==
    ASSUME ReceiverWaits,
           UNCHANGED <<peer, r_conf, started, r_status, r_conn,
                       msg_received_cnt, incoming>>
    PROVE  ReceiverWaits'
  BY DEF ReceiverWaits, R!Listens, R!Running

(* Without a timeout a countdown ends neither side.                         *)
LEMMA NeverTimesOut ==
    ASSUME SidesInv, Matched
    PROVE  ~S!IsExpired(s_timer) /\ ~R!IsExpired(r_timer)
  BY DEF SidesInv, Matched, S!NewTimer, S!FOREVER, R!FOREVER, S!IsExpired,
         R!IsExpired

(* Steps that move no message: they change nothing of what a waiting sender *)
(* waits for.                                                               *)
LEMMA QuietKeepsWaiting ==
    ASSUME CountsOK, ConnectionInv, SidesInv, Waits, Waits', WaitsInv,
           \/ SenderStarts \/ SenderCountsDown \/ SenderReturns \/ SenderTick
           \/ ReceiverCountsDown \/ ReceiverTick \/ Ended \/ UNCHANGED vars
    PROVE  WaitsInv'
  <1>1. /\ UNCHANGED <<accepted, sent, confirmedSent, credit, msg_received_cnt,
                       incoming, r_conn, s_conf, r_conf, started>>
        /\ UNCHANGED <<peer, transit, outcomes>>
        /\ \/ s_conn' = s_conn
           \/ s_conn = "none" /\ s_conn' = "connecting"
    BY QuietSteps DEF wire
  <1>2. /\ ~S!IsExpired(s_timer) /\ ~R!IsExpired(r_timer)
        /\ s_status' # "failure" /\ r_status' # "failure"
    BY NeverTimesOut DEF Waits, Served
  <1>3. r_status' = r_status
    BY <1>2 DEF SenderStarts, SenderCountsDown, SenderReturns, SenderTick,
         ReceiverCountsDown, ReceiverTick, Ended, SenderAlone, r_vars, vars,
         R!timerEvent, R!Tick, R!Exited, R!Exit, R!vars
  <1>4. s_status' = s_status \/ SenderReturns
    BY <1>2 DEF SenderStarts, SenderCountsDown, SenderTick, ReceiverCountsDown,
         ReceiverTick, Ended, ReceiverAlone, s_vars, vars,
         S!on_container_start, S!timerEvent, S!Tick, S!Exited, S!Exit, S!vars
  <1>5. SenderWaits'
    <2>1. CASE s_conn' # s_conn
      <3>1. s_conn = "none" /\ s_conn' = "connecting" BY <1>1, <2>1
      <3>2. ~SenderReturns BY <2>1 DEF SenderReturns, S!RunReturns, S!Exit
      <3> QED
        BY <1>1, <1>4, <3>1, <3>2 DEF WaitsInv, SenderWaits, GaveUp
    <2>2. CASE s_conn' = s_conn /\ s_status' = s_status
      BY <1>1, <2>2, SenderKeepsWaiting DEF WaitsInv
    <2>3. CASE s_conn' = s_conn /\ SenderReturns
      <3>1. s_conn = "down" BY <2>3 DEF SenderReturns, S!RunReturns
      <3>2. GaveUp BY <3>1 DEF WaitsInv, SenderWaits
      <3>3. GaveUp' BY <1>1, <2>3, <3>2 DEF GaveUp, S!ProtonReconnects
      <3> QED BY <1>1, <2>3, <3>3 DEF WaitsInv, SenderWaits
    <2> QED BY <1>4, <2>1, <2>2, <2>3
  <1>6. NothingLost' BY <1>1, NothingLostAlone DEF WaitsInv
  <1>7. ReceiverWaits' BY <1>1, <1>3, ReceiverKeepsWaiting DEF WaitsInv
  <1> QED BY <1>5, <1>6, <1>7 DEF WaitsInv

(* A sender that sends is connected.                                        *)
LEMMA SendKeepsWaiting ==
    ASSUME WaitsInv, s_conn = "open",
           UNCHANGED <<s_conf, s_conn, s_status, peer, accepted, confirmedSent,
                       outcomes>>,
           UNCHANGED r_vars
    PROVE  WaitsInv'
  <1>1. s_status = "running" BY DEF WaitsInv, SenderWaits, GaveUp
  <1>2. SenderWaits' BY <1>1 DEF SenderWaits
  <1>3. NothingLost' BY NothingLostAlone DEF WaitsInv, r_vars
  <1>4. ReceiverWaits' BY ReceiverKeepsWaiting DEF WaitsInv, r_vars
  <1> QED BY <1>2, <1>3, <1>4 DEF WaitsInv

(* What the handler takes comes from the sender's connection; the answer is *)
(* an acceptance, and only the count-th message closes.                     *)
LEMMA HandleKeepsWaiting ==
    ASSUME CountsOK, SidesInv, Waits, Waits', WaitsInv, NEW p \in Peers,
           ReceiverHandles(p)
    PROVE  WaitsInv'
  <1>1. /\ UNCHANGED <<s_vars, peer, transit, breaks, r_conf, started>>
        /\ incoming[p] > 0
        /\ incoming' = [incoming EXCEPT ![p] = @ - 1]
        /\ msg_received_cnt' = msg_received_cnt + 1
    BY HandleFacts
  <1>2. p = peer /\ peer # NoPeer
    BY <1>1, PeersAssumption DEF WaitsInv, ReceiverWaits
  <1>3. R!Listens /\ started /\ R!Running
    BY <1>2 DEF WaitsInv, ReceiverWaits
  <1>4. SenderWaits'
    BY <1>1, SenderKeepsWaiting DEF WaitsInv, s_vars
  <1>5. r_conf.msg_action \in {"no-action", "ack"} BY DEF Waits, Served
  <1>6. Outcome(msg_received_cnt') = "accepted" BY <1>5 DEF Outcome
  <1>7. /\ outcomes' = Append(outcomes, "accepted")
        /\ accepted' = accepted + 1
    BY <1>2, <1>6 DEF ReceiverHandles
  <1>8. NothingLost'
    <2>1. /\ Len(outcomes') = Len(outcomes) + 1
          /\ \A i \in 1..Len(outcomes) : outcomes'[i] = outcomes[i]
          /\ outcomes'[Len(outcomes) + 1] = "accepted"
      BY <1>7 DEF CountsOK
    <2>2. \A i \in 1..Len(outcomes') : outcomes'[i] = "accepted"
      BY <2>1 DEF WaitsInv, NothingLost, CountsOK
    <2>3. confirmedSent' = confirmedSent BY <1>1 DEF s_vars
    <2> QED BY <1>1, <1>7, <2>1, <2>2, <2>3
            DEF WaitsInv, NothingLost, CountsOK
  <1>9. /\ r_status' = r_status
        /\ \/ r_conn' = r_conn
           \/ /\ r_conn' = [r_conn EXCEPT ![p] = "closing"]
              /\ msg_received_cnt' = r_conf.count
    <2>1. r_status' # "failure" BY DEF Waits, Served
    <2> QED BY <2>1 DEF ReceiverHandles, R!on_message, R!HandleMessage,
               R!CountReached, R!Replies, Message
  <1>10. ReceiverWaits'
    <2>1. R!Listens' /\ started' /\ R!Running'
      BY <1>1, <1>3, <1>9 DEF R!Listens, R!Running
    <2>2. \A q \in Peers :
              /\ r_conn'[q] \in {"none", "open", "closing"}
              /\ r_conn'[q] # "none" => q = peer
              /\ r_conn'[q] = "closing" => msg_received_cnt' >= r_conf.count
      <3>1. r_conf.count \in Int BY DEF SidesInv, Waits, Served, Matched, S!Confs
      <3> QED BY <1>1, <1>2, <1>3, <1>9, <3>1
              DEF WaitsInv, ReceiverWaits, CountsOK
    <2>3. \A q \in Peers : q # peer => incoming'[q] = 0
      BY <1>1, <1>2 DEF WaitsInv, ReceiverWaits, CountsOK
    <2> QED BY <1>1, <2>1, <2>2, <2>3 DEF ReceiverWaits
  <1> QED BY <1>4, <1>8, <1>10 DEF WaitsInv

(* The outcome that is counted is an acceptance, and not the last one.      *)
LEMMA OutcomeKeepsWaiting ==
    ASSUME CountsOK, Waits, Waits', WaitsInv, OutcomeArrives
    PROVE  WaitsInv'
  <1>1. /\ UNCHANGED <<r_vars, peer, transit, accepted, breaks, s_conf, sent,
                       credit>>
        /\ outcomes # <<>> /\ outcomes' = Tail(outcomes)
    BY OutcomeFacts
  <1>2. Head(outcomes) = "accepted"
    BY <1>1 DEF WaitsInv, NothingLost, CountsOK
  <1>3. /\ confirmedSent' = confirmedSent + 1
        /\ s_conn' = IF confirmedSent' = s_conf.count THEN "closing" ELSE s_conn
        /\ s_status' = s_status
    BY <1>2 DEF OutcomeArrives, S!on_tracker_accept, S!LastConfirmation
  <1>4. s_conn' = s_conn
    <2>1. confirmedSent' < s_conf.count BY <1>1 DEF Waits
    <2>2. confirmedSent' \in Nat BY <1>3 DEF CountsOK
    <2> QED BY <1>3, <2>1, <2>2
  <1>5. SenderWaits'
    BY <1>1, <1>3, <1>4, SenderKeepsWaiting DEF WaitsInv
  <1>6. NothingLost'
    <2>1. /\ Len(outcomes') = Len(outcomes) - 1
          /\ \A i \in 1..Len(outcomes') : outcomes'[i] = outcomes[i + 1]
      BY <1>1 DEF CountsOK
    <2>2. Len(outcomes) \in Nat /\ confirmedSent \in Nat BY DEF CountsOK
    <2>3. \A i \in 1..Len(outcomes') : outcomes'[i] = "accepted"
      BY <2>1, <2>2 DEF WaitsInv, NothingLost
    <2>4. accepted' = accepted /\ msg_received_cnt' = msg_received_cnt
      BY <1>1 DEF r_vars
    <2> QED BY <1>3, <2>1, <2>2, <2>3, <2>4 DEF WaitsInv, NothingLost
  <1>7. ReceiverWaits' BY <1>1, ReceiverKeepsWaiting DEF WaitsInv, r_vars
  <1> QED BY <1>5, <1>6, <1>7 DEF WaitsInv

(* The first connection is the only one.                                    *)
LEMMA ConnectKeepsWaiting ==
    ASSUME CountsOK, WaitsInv, NEW p \in Peers, Connects(p)
    PROVE  WaitsInv'
  <1>1. /\ UNCHANGED <<outcomes, accepted, s_conf, sent, confirmedSent, credit,
                       s_status, r_conf, msg_received_cnt, incoming, r_status,
                       started>>
        /\ peer = NoPeer /\ peer' = p
        /\ s_conn = "connecting" /\ s_conn' = "open"
        /\ R!Listens
        /\ r_conn[p] = "none" /\ r_conn' = [r_conn EXCEPT ![p] = "open"]
    BY ConnectFacts
  <1>2. started /\ R!Running BY DEF Connects, R!PeerConnects
  <1>3. s_status = "running" BY <1>1 DEF WaitsInv, SenderWaits, GaveUp
  <1>4. SenderWaits' BY <1>1, <1>3 DEF SenderWaits
  <1>5. NothingLost' BY <1>1, NothingLostAlone DEF WaitsInv
  <1>6. \A q \in Peers : r_conn[q] = "none" /\ incoming[q] = 0
    BY <1>1, PeersAssumption DEF WaitsInv, ReceiverWaits
  <1>7. \A q \in Peers : /\ r_conn'[q] \in {"none", "open"}
                         /\ r_conn'[q] # "none" => q = p
    BY <1>1, <1>6 DEF CountsOK
  <1>8. R!Running' BY <1>1, <1>2 DEF R!Running
  <1>9. R!Listens' BY <1>1 DEF R!Listens
  <1>10. ReceiverWaits'
    BY <1>1, <1>2, <1>6, <1>7, <1>8, <1>9 DEF ReceiverWaits
  <1> QED BY <1>4, <1>5, <1>10 DEF WaitsInv

(* The sender does not hear a close while it waits: a receiver that closes  *)
(* has accepted as many messages as the sender counts, and the close comes  *)
(* behind those outcomes.                                                   *)
LEMMA NoCloseWhileWaiting ==
    ASSUME CountsOK, SidesInv, Waits, WaitsInv
    PROVE  ~SenderHearsClose /\ ~ReceiverHearsClose
  <1>1. ~ReceiverHearsClose
    BY DEF WaitsInv, SenderWaits, GaveUp, ReceiverHearsClose
  <1>2. ~SenderHearsClose
    <2> SUFFICES ASSUME SenderHearsClose PROVE FALSE OBVIOUS
    <2>1. /\ peer # NoPeer /\ r_conn[peer] \in {"closing", "ended"}
          /\ outcomes = <<>>
      BY CloseFacts
    <2>2. peer \in Peers /\ R!Listens
      BY <2>1 DEF CountsOK, WaitsInv, ReceiverWaits
    <2>3. msg_received_cnt >= r_conf.count
      BY <2>1, <2>2 DEF WaitsInv, ReceiverWaits
    <2>4. msg_received_cnt = confirmedSent
      BY <2>1 DEF WaitsInv, NothingLost, CountsOK
    <2>5. confirmedSent < r_conf.count BY DEF Waits, Served, Matched
    <2>6. r_conf.count \in Int /\ confirmedSent \in Nat
      BY DEF SidesInv, Waits, Served, Matched, S!Confs, CountsOK
    <2> QED BY <2>3, <2>4, <2>5, <2>6
  <1> QED BY <1>1, <1>2

(* The only transport a waiting sender may lose is one it never had.        *)
LEMMA LossKeepsWaiting ==
    ASSUME CountsOK, ConnectionInv, SidesInv, SidesInv', Waits, Waits',
           WaitsInv,
           SenderTransportCloses \/ SenderLosesTransport \/ NetworkBreaks
    PROVE  WaitsInv'
  <1>1. ~NetworkBreaks BY DEF NetworkBreaks, Waits, Served
  <1>2. ~SenderTransportCloses
    BY DEF SenderTransportCloses, S!TransportCloses, WaitsInv, SenderWaits,
       GaveUp
  <1>3. SenderLosesTransport BY <1>1, <1>2
  <1>4. /\ S!on_transport_error(FALSE) /\ NoWire
        /\ UNCHANGED <<r_vars, accepted, breaks>>
    BY <1>3 DEF SenderLosesTransport
  <1>5. peer # NoPeer => r_conn[peer] # "down" /\ R!Running
    BY DEF WaitsInv, ReceiverWaits, CountsOK
  <1>6. s_conn = "connecting"
    BY <1>3, <1>5 DEF SenderLosesTransport, ReceiverIsGone
  <1>7. peer = NoPeer /\ outcomes = <<>> /\ sent = 0
    BY <1>6 DEF ConnectionInv, CleanStart, WaitsInv, SenderWaits
  <1>8. UNCHANGED <<peer, outcomes>> BY <1>4, <1>7 DEF NoWire
  <1>9. /\ UNCHANGED <<s_conf, sent, confirmedSent, s_status>>
        /\ credit' = 0
        /\ \/ s_conn' = "connecting"
           \/ s_conn' = "down" /\ GaveUp'
    <2>1. s_status' # "failure" BY DEF Waits, Served
    <2>2. /\ UNCHANGED <<s_conf, sent, confirmedSent, s_status>>
          /\ credit' = 0
          /\ \/ s_conn' = "connecting"
             \/ /\ s_conn' = "down" /\ s_conf.conn_reconnect # "false"
                /\ ~S!ProtonReconnects(s_conf)
      BY <1>4, <1>6, <2>1, SenderLoses
    <2>3. s_conf.conn_reconnect \in {"true", "false"}
      BY DEF SidesInv, S!Confs
    <2>4. s_conn' = "down" => ~S!ProtonReconnects(s_conf) BY <2>2
    <2>5. s_conn' = "down" => s_conf.conn_reconnect = "true" BY <2>2, <2>3
    <2>6. s_conn' = "down" => ~S!ProtonReconnects(s_conf)'
      BY <2>2, <2>4 DEF S!ProtonReconnects
    <2>7. s_conn' = "down" => GaveUp' BY <1>7, <2>2, <2>5, <2>6 DEF GaveUp
    <2> QED BY <2>2, <2>7
  <1>10. s_status = "running"
    BY <1>4 DEF S!on_transport_error, S!Running
  <1>11. SenderWaits' BY <1>7, <1>8, <1>9, <1>10 DEF SenderWaits
  <1>12. NothingLost' BY <1>4, <1>8, <1>9, NothingLostAlone DEF WaitsInv, r_vars
  <1>13. ReceiverWaits'
    BY <1>4, <1>8, ReceiverKeepsWaiting DEF WaitsInv, r_vars
  <1> QED BY <1>11, <1>12, <1>13 DEF WaitsInv

(* A receiver that listens loses no connection while the sender waits, and  *)
(* what another one does is no matter of the sender's.                      *)
LEMMA ReceiverLossKeepsWaiting ==
    ASSUME CountsOK, Waits, WaitsInv, NEW p \in Peers,
           ReceiverTransportCloses(p) \/ ReceiverLosesTransport(p)
    PROVE  WaitsInv'
  <1>1. /\ R!TransportCloses(p) \/ R!on_transport_error(p, FALSE)
        /\ r_conn[p] = "ended" \/ SenderIsGone(p)
        /\ UNCHANGED <<s_vars, wire, accepted, breaks>>
    BY DEF ReceiverTransportCloses, ReceiverLosesTransport
  <1>2. /\ UNCHANGED <<r_conf, msg_received_cnt, started>>
        /\ r_conn[p] # "none"
        /\ incoming' \in {incoming, [incoming EXCEPT ![p] = 0]}
    BY <1>1, ReceiverLoses
  <1>3. ~R!Listens
    <2> SUFFICES ASSUME R!Listens PROVE FALSE OBVIOUS
    <2>1. p = peer /\ r_conn[p] # "ended" /\ peer # NoPeer
      BY <1>2, PeersAssumption DEF WaitsInv, ReceiverWaits
    <2>2. s_conn = "open" BY <2>1 DEF WaitsInv, SenderWaits
    <2>3. S!Running BY <2>2 DEF WaitsInv, SenderWaits, GaveUp, S!Running
    <2> QED BY <1>1, <2>1, <2>2, <2>3 DEF SenderIsGone
  <1>4. peer = NoPeer BY <1>3 DEF WaitsInv, ReceiverWaits
  <1>5. SenderWaits' BY <1>1, SenderKeepsWaiting DEF WaitsInv, s_vars, wire
  <1>6. NothingLost'
    BY <1>1, <1>2, NothingLostAlone DEF WaitsInv, s_vars, wire
  <1>7. ReceiverWaits'
    <2>1. peer' = NoPeer BY <1>1, <1>4 DEF wire
    <2>2. ~R!Listens' BY <1>2, <1>3 DEF R!Listens
    <2>3. \A q \in Peers : incoming'[q] = 0
      BY <1>2, <1>4, PeersAssumption DEF WaitsInv, ReceiverWaits, CountsOK
    <2> QED BY <2>1, <2>2, <2>3 DEF ReceiverWaits
  <1> QED BY <1>5, <1>6, <1>7 DEF WaitsInv

(* Every step that leaves the sender waiting.                               *)
LEMMA WaitsStep ==
    ASSUME CountsOK, ConnectionInv, SidesInv, SidesInv', Waits, Waits',
           WaitsInv, [Next]_vars
    PROVE  WaitsInv'
  <1>1. CASE \/ SenderStarts \/ SenderCountsDown \/ SenderReturns
             \/ SenderTick \/ ReceiverCountsDown \/ ReceiverTick
             \/ Ended \/ UNCHANGED vars
    BY <1>1, QuietKeepsWaiting
  <1>2. CASE ReceiverStarts
    <2>1. /\ UNCHANGED <<s_vars, wire, accepted, breaks>>
          /\ UNCHANGED <<r_conf, incoming, msg_received_cnt>>
          /\ ~started
          /\ r_conn' = r_conn \/ ~R!Listens
      BY <1>2, ReceiverStartFacts
    <2>2. peer' = NoPeer BY <2>1 DEF WaitsInv, ReceiverWaits, wire
    <2>3. SenderWaits' BY <2>1, SenderKeepsWaiting DEF WaitsInv, s_vars, wire
    <2>4. NothingLost' BY <2>1, NothingLostAlone DEF WaitsInv, s_vars, wire
    <2>5. ReceiverWaits'
      BY <2>1, <2>2 DEF WaitsInv, ReceiverWaits, R!Listens, wire
    <2> QED BY <2>3, <2>4, <2>5 DEF WaitsInv
  <1>3. CASE SenderPolls
    <2>1. /\ UNCHANGED <<s_conf, confirmedSent, s_conn, s_status>>
          /\ UNCHANGED <<r_vars, peer, outcomes, accepted>>
          /\ credit > 0 \/ UNCHANGED <<sent, credit>>
      BY <1>3, PollFacts
    <2>2. CASE credit > 0
      <3>1. s_conn = "open" BY <2>2 DEF WaitsInv, SenderWaits
      <3> QED BY <2>1, <3>1, SendKeepsWaiting
    <2>3. CASE UNCHANGED <<sent, credit>>
      <3>1. SenderWaits' BY <2>1, <2>3, SenderKeepsWaiting DEF WaitsInv
      <3>2. NothingLost' BY <2>1, NothingLostAlone DEF WaitsInv, r_vars
      <3>3. ReceiverWaits' BY <2>1, ReceiverKeepsWaiting DEF WaitsInv, r_vars
      <3> QED BY <3>1, <3>2, <3>3 DEF WaitsInv
    <2> QED BY <2>1, <2>2, <2>3
  <1>4. ASSUME NEW c \in 1..Credit, FlowArrives(c) PROVE WaitsInv'
    <2>1. /\ UNCHANGED <<s_conf, confirmedSent, s_conn, s_status>>
          /\ UNCHANGED <<r_vars, peer, outcomes, accepted>>
      BY <1>4, FlowFacts
    <2>2. s_conn = "open" BY <1>4 DEF FlowArrives, WaitsInv, SenderWaits
    <2> QED BY <2>1, <2>2, SendKeepsWaiting
  <1>5. CASE TransferArrives
    <2>1. /\ UNCHANGED <<s_vars, peer, outcomes, accepted, r_conf,
                         msg_received_cnt, r_conn, r_status, started>>
          /\ incoming' = [incoming EXCEPT ![peer] = @ + 1]
      BY <1>5, TransferFacts
    <2>2. SenderWaits' BY <2>1, SenderKeepsWaiting DEF WaitsInv, s_vars
    <2>3. NothingLost' BY <2>1, NothingLostAlone DEF WaitsInv, s_vars
    <2>4. \A p \in Peers : p # peer => incoming'[p] = 0
      BY <2>1 DEF WaitsInv, ReceiverWaits, CountsOK
    <2>5. ReceiverWaits'
      BY <2>1, <2>4 DEF WaitsInv, ReceiverWaits, R!Listens, R!Running
    <2> QED BY <2>2, <2>3, <2>5 DEF WaitsInv
  <1>6. ASSUME NEW p \in Peers, ReceiverHandles(p) PROVE WaitsInv'
    BY <1>6, HandleKeepsWaiting
  <1>7. CASE OutcomeArrives BY <1>7, OutcomeKeepsWaiting
  <1>8. ASSUME NEW p \in Peers, Connects(p) PROVE WaitsInv'
    BY <1>8, ConnectKeepsWaiting
  <1>9. ~SenderHearsClose /\ ~ReceiverHearsClose BY NoCloseWhileWaiting
  <1>10. CASE SenderTransportCloses \/ SenderLosesTransport \/ NetworkBreaks
    BY <1>10, LossKeepsWaiting
  <1>11. ASSUME NEW p \in Peers,
                ReceiverTransportCloses(p) \/ ReceiverLosesTransport(p)
         PROVE  WaitsInv'
    BY <1>11, ReceiverLossKeepsWaiting
  <1> QED BY <1>1, <1>2, <1>3, <1>4, <1>5, <1>6, <1>7, <1>8, <1>9, <1>10, <1>11
          DEF Next

(* SuccessInv, for every set of command lines.                              *)
THEOREM SuccessCorrect == Spec => []SuccessInv
  <1>1. Init => SuccessInv
    <2> SUFFICES ASSUME Init PROVE SuccessInv OBVIOUS
    <2>1. /\ peer = NoPeer /\ outcomes = <<>> /\ accepted = 0 /\ breaks = 0
          /\ s_timer = S!NewTimer(s_conf.timeout) /\ ~ready /\ sent = 0
          /\ confirmedSent = 0 /\ s_conn = "none" /\ credit = 0
          /\ s_status = "running"
          /\ r_timer = R!NewTimer(r_conf.timeout) /\ msg_received_cnt = 0
          /\ r_conn = [p \in Peers |-> "none"]
          /\ incoming = [p \in Peers |-> 0]
      BY DEF Init, S!Init, R!Init
    <2>2. s_conf \in S!Confs BY LinesAssumption DEF Init, S!Init
    <2>3. SidesInv
      <3>1. s_conf.count \in Int BY <2>2 DEF S!Confs
      <3> QED BY <2>1, <2>2, <3>1 DEF SidesInv, S!NewTimer, R!NewTimer,
                 S!FOREVER, R!FOREVER
    <2>4. SenderWaits BY <2>1 DEF SenderWaits
    <2>5. NothingLost BY <2>1 DEF NothingLost
    <2>6. ReceiverWaits BY <2>1 DEF ReceiverWaits
    <2> QED BY <2>1, <2>3, <2>4, <2>5, <2>6 DEF SuccessInv, WaitsInv
  <1>2. /\ CountsOK /\ CountsOK' /\ DeliveryInv /\ ConnectionInv
        /\ SuccessInv /\ [Next]_vars
        => SuccessInv'
    <2> SUFFICES ASSUME CountsOK, CountsOK', DeliveryInv, ConnectionInv,
                        SuccessInv, [Next]_vars
                 PROVE  SuccessInv'
      OBVIOUS
    <2>1. SidesInv' BY SidesStep DEF SuccessInv
    <2>2. accepted' <= msg_received_cnt'
      <3>1. \/ /\ msg_received_cnt' = msg_received_cnt + 1
               /\ accepted' \in {accepted, accepted + 1}
            \/ UNCHANGED <<msg_received_cnt, accepted>>
        BY StepDelivers DEF Delivers, D!Submit, D!Handle, D!Confirm
      <3> QED BY <3>1 DEF SuccessInv, CountsOK
    <2>3. ASSUME Waits' PROVE WaitsInv'
      <3>1. Waits BY <2>3, WaitedBefore DEF SuccessInv
      <3> QED BY <2>1, <2>3, <3>1, WaitsStep DEF SuccessInv
    <2> QED BY <2>1, <2>2, <2>3 DEF SuccessInv
  <1> QED BY <1>1, <1>2, CountsCorrect, DeliveryCorrect, ConnectionCorrect, PTL
          DEF Spec

(* SuccessMeansDelivered, for every set of command lines, credit window and *)
(* number of connections.                                                   *)
THEOREM SuccessMeansDeliveredCorrect == Spec => []SuccessMeansDelivered
  <1>1. CountsOK /\ DeliveryInv /\ SuccessInv => SuccessMeansDelivered
    <2> SUFFICES ASSUME CountsOK, DeliveryInv, SuccessInv, Served,
                        s_status = "success", ~GaveUp
                 PROVE  /\ confirmedSent = s_conf.count
                        /\ msg_received_cnt = s_conf.count
      BY DEF SuccessMeansDelivered, Served
    <2>1. confirmedSent >= s_conf.count
      <3>1. ~Waits BY DEF SuccessInv, WaitsInv, SenderWaits
      <3> QED BY <3>1 DEF Waits, SuccessInv, SidesInv, S!Confs, CountsOK
    <2>2. confirmedSent <= accepted
      <3>1. Cardinality(OfKind(outcomes, "accepted")) \in Nat
        BY KindType DEF CountsOK
      <3> QED BY <3>1 DEF DeliveryInv, Reported, CountsOK
    <2>3. msg_received_cnt <= sent
      <3>1. PICK where \in [1..sent -> Places] : Fits(where)
        BY DEF DeliveryInv, Ledger
      <3>2. Cardinality(HeldAt(sent, where, Handled)) \in 0..sent
        BY HeldType DEF CountsOK
      <3> QED BY <3>1, <3>2 DEF Fits, CountsOK
    <2>4. accepted <= msg_received_cnt /\ sent <= s_conf.count
      BY DEF SuccessInv, SidesInv, Served, Matched
    <2>5. s_conf.count \in Int BY DEF SuccessInv, SidesInv, S!Confs
    <2> QED BY <2>1, <2>2, <2>3, <2>4, <2>5 DEF CountsOK
  <1> QED BY <1>1, CountsCorrect, DeliveryCorrect, SuccessCorrect, PTL
-----------------------------------------------------------------------------
(* Each process of the composition is a sender, or a receiver, as its own   *)
(* module has it: whatever the other one does to it is something the module *)
(* lets a peer do, so that what holds of the module for every peer holds of *)
(* the process here.                                                        *)
THEOREM SenderIsASender == Spec => S!Spec
  <1>1. Init => S!Init BY DEF Init
  <1>2. CountsOK /\ [Next]_vars => [S!Next]_(S!vars)
    <2> SUFFICES ASSUME CountsOK, [Next]_vars PROVE S!Next \/ UNCHANGED S!vars
      OBVIOUS
    <2>1. CASE \/ SenderStarts \/ SenderCountsDown \/ SenderReturns
               \/ SenderTick \/ SenderPolls \/ SenderHearsClose \/ Ended
      BY <2>1 DEF SenderStarts, SenderCountsDown, SenderReturns, SenderTick,
           SenderPolls, SenderHearsClose, Ended, S!Next
    <2>2. ASSUME NEW c \in 1..Credit, FlowArrives(c) PROVE S!Next
      <3>1. c \in 0..Credit BY CreditAssumption
      <3> QED BY <2>2, <3>1 DEF FlowArrives, S!Next
    <2>3. CASE OutcomeArrives
      <3>1. Head(outcomes) \in Outcomes BY <2>3 DEF CountsOK, OutcomeArrives
      <3> QED BY <2>3, <3>1 DEF OutcomeArrives, Outcomes, S!Next
    <2>4. ASSUME NEW p \in Peers, Connects(p) PROVE S!Next
      BY <2>4 DEF Connects, S!Next
    <2>5. CASE \/ SenderTransportCloses \/ SenderLosesTransport
               \/ NetworkBreaks
      BY <2>5 DEF SenderTransportCloses, SenderLosesTransport, NetworkBreaks,
           S!Next
    <2>6. CASE \/ ReceiverStarts \/ ReceiverCountsDown \/ ReceiverTick
               \/ TransferArrives \/ ReceiverHearsClose
               \/ UNCHANGED vars
               \/ \E p \in Peers : \/ ReceiverHandles(p)
                                   \/ ReceiverTransportCloses(p)
                                   \/ ReceiverLosesTransport(p)
      BY <2>6 DEF ReceiverStarts, ReceiverCountsDown, ReceiverTick,
           TransferArrives, ReceiverHearsClose, ReceiverHandles,
           ReceiverTransportCloses, ReceiverLosesTransport, ReceiverAlone,
           vars, s_vars, S!vars
    <2> QED BY <2>1, <2>2, <2>3, <2>4, <2>5, <2>6 DEF Next
  <1> QED BY <1>1, <1>2, CountsCorrect, PTL DEF Spec, S!Spec

(* Likewise of the receiver.                                                *)
THEOREM ReceiverIsAReceiver == Spec => R!Spec
  <1>1. Init => R!Init BY DEF Init
  <1>2. CountsOK /\ [Next]_vars => [R!Next]_(R!vars)
    <2> SUFFICES ASSUME CountsOK, [Next]_vars PROVE R!Next \/ UNCHANGED R!vars
      OBVIOUS
    <2>1. CASE \/ ReceiverStarts \/ ReceiverCountsDown \/ ReceiverTick \/ Ended
      BY <2>1 DEF ReceiverStarts, ReceiverCountsDown, ReceiverTick, Ended,
           R!Next
    <2>2. ASSUME NEW p \in Peers, ReceiverHandles(p) PROVE R!Next
      <3>1. Message \in R!Messages BY DEF Message, R!Messages
      <3> QED BY <2>2, <3>1 DEF ReceiverHandles, R!Next
    <2>3. ASSUME NEW p \in Peers,
                 \/ Connects(p) \/ ReceiverTransportCloses(p)
                 \/ ReceiverLosesTransport(p)
          PROVE  R!Next
      BY <2>3 DEF Connects, ReceiverTransportCloses, ReceiverLosesTransport,
           R!Next
    <2>4. CASE TransferArrives \/ ReceiverHearsClose
      <3>1. peer \in Peers
        BY <2>4 DEF TransferArrives, ReceiverHearsClose, CountsOK
      <3> QED BY <2>4, <3>1 DEF TransferArrives, ReceiverHearsClose, R!Next
    <2>5. CASE \/ SenderStarts \/ SenderCountsDown \/ SenderReturns
               \/ SenderTick \/ SenderPolls \/ SenderHearsClose
               \/ SenderTransportCloses \/ SenderLosesTransport
               \/ NetworkBreaks \/ OutcomeArrives \/ UNCHANGED vars
               \/ \E c \in 1..Credit : FlowArrives(c)
      BY <2>5 DEF SenderStarts, SenderCountsDown, SenderReturns, SenderTick,
           SenderPolls, SenderHearsClose, SenderTransportCloses,
           SenderLosesTransport, NetworkBreaks, OutcomeArrives, FlowArrives,
           SenderAlone, vars, r_vars, R!vars
    <2> QED BY <2>1, <2>2, <2>3, <2>4, <2>5 DEF Next
  <1> QED BY <1>1, <1>2, CountsCorrect, PTL DEF Spec, R!Spec
=============================================================================
