------------------------------- MODULE Timer -------------------------------
(***************************************************************************)
(* The countdown every handler owns (common/Timer.cpp).  A timer is the    *)
(* record of the two fields of the class: `timeout', the number of seconds *)
(* it was built with, and `remaining', the seconds left.                   *)
(***************************************************************************)
EXTENDS Integers

FOREVER == -1

Timers == [timeout : Int, remaining : Int]

NewTimer(t) == [timeout |-> t, remaining |-> t]

Reset(timer) == [timer EXCEPT !.remaining = timer.timeout]

IsExpired_below(timer) ==                   \* mutant
    timer.timeout # FOREVER /\ timer.remaining < 0

IsExpired(timer) == timer.timeout # FOREVER /\ timer.remaining = 0

(* operator--(int): a FOREVER timer does not move.  Otherwise the field is  *)
(* decremented first, and the call throws TimerExpiredException when the    *)
(* result is negative: the field keeps its new value.                       *)
Decrement(timer) ==
    IF timer.timeout = FOREVER THEN timer
                               ELSE [timer EXCEPT !.remaining = @ - 1]

DecrementThrows(timer) == timer.timeout # FOREVER /\ timer.remaining <= 0
=============================================================================
