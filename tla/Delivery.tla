------------------------------ MODULE Delivery ------------------------------
(***************************************************************************)
(* What a sender and a receiver promise together, whatever happens between *)
(* them: a message is handed over at most once per time it is sent, and    *)
(* the sender reports a message as delivered only after the receiver has   *)
(* taken one it had not reported yet.                                      *)
(***************************************************************************)
EXTENDS Integers

VARIABLES submitted, handled, accepted, confirmed

deliveryVars == <<submitted, handled, accepted, confirmed>>

DeliveryInit ==
    /\ submitted = 0
    /\ handled = 0
    /\ accepted = 0
    /\ confirmed = 0

Submit ==
    /\ submitted' = submitted + 1
    /\ UNCHANGED <<handled, accepted, confirmed>>

Handle ==
    /\ handled < submitted
    /\ handled' = handled + 1
    /\ accepted' \in {accepted, accepted + 1}
    /\ UNCHANGED <<submitted, confirmed>>

Confirm ==
    /\ confirmed < accepted
    /\ confirmed' = confirmed + 1
    /\ UNCHANGED <<submitted, handled, accepted>>

DeliverySpec == DeliveryInit /\ [][Submit \/ Handle \/ Confirm]_deliveryVars
=============================================================================
