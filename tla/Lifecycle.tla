------------------------------ MODULE Lifecycle ------------------------------
(***************************************************************************)
(* What the delivery SDK promises of an order, whatever the store and the  *)
(* number of callers: an order is placed once, then moves along the        *)
(* transition table, one timeline entry per move, and stops at a terminal  *)
(* status.  The table itself (models.py) lives here; Delivery.tla extends  *)
(* it through INSTANCE.                                                    *)
(***************************************************************************)
EXTENDS Naturals, Sequences

CONSTANT Orders                     \* ids of delivery orders

VARIABLE timeline                   \* order -> its status history, <<>> if absent

\* DeliveryStatus, FLOW, ALLOWED and TERMINAL of models.py.
FLOW == << "placed", "confirmed", "preparing", "out_for_delivery", "delivered" >>

Status == {"placed", "confirmed", "preparing", "out_for_delivery", "delivered",
           "cancelled"}

TERMINAL == {"delivered", "cancelled"}

ALLOWED == [s \in Status |->
              CASE s = "placed"           -> {"confirmed", "cancelled"}
                [] s = "confirmed"        -> {"preparing", "cancelled"}
                [] s = "preparing"        -> {"out_for_delivery", "cancelled"}
                [] s = "out_for_delivery" -> {"delivered", "cancelled"}
                [] OTHER                  -> {}]

\* A history a service that never breaks the table can have written.
Lawful(t) ==
    /\ t # <<>>
    /\ t[1] = "placed"
    /\ \A i \in 1..(Len(t) - 1) : t[i + 1] \in ALLOWED[t[i]]
-----------------------------------------------------------------------------
Init == timeline = [o \in Orders |-> <<>>]

Place(o) ==
    /\ timeline[o] = <<>>
    /\ timeline' = [timeline EXCEPT ![o] = << "placed" >>]

Move(o, s) ==
    /\ timeline[o] # <<>>
    /\ s \in ALLOWED[timeline[o][Len(timeline[o])]]
    /\ timeline' = [timeline EXCEPT ![o] = Append(@, s)]

Next == \E o \in Orders : Place(o) \/ \E s \in Status : Move(o, s)

Spec == Init /\ [][Next]_timeline
=============================================================================
