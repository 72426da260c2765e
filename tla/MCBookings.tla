----------------------------- MODULE MCBookings -----------------------------
(* Small instances of Bookings for TLC.                                    *)
EXTENDS BookingsRefinement, TLC

CONSTANTS o1, a1, a2, p1, p2, r1, r2

MCOwner == o1 :> a1

Row1(order_status, track_status) ==
    [order_status |-> order_status, track_status |-> track_status]

(* An order that is young, one about to be locked and completed, one that  *)
(* is locked, and one that was charged though its limit is still to come.  *)
NearlyLocked == Row1(3, 2)
MCRows == {Row1(0, 1), NearlyLocked, Row1(4, 3), Row1(Charged, 1)}

Request(kind, agent, order, amounts, pictures) ==
    [kind |-> kind, agent |-> agent, order |-> order, amounts |-> amounts,
     pictures |-> pictures]

OwnCancel == Request("cancel", a1, o1, {}, {})
OwnUpdate(amounts, pictures) ==
    Request("update", a1, o1, amounts, pictures)
PlainUpdate == OwnUpdate({"whole"}, {p1})
EmptyUpdate == OwnUpdate({"whole", "fraction"}, {p1})

(* Every way a request can be turned down, next to the ones that are not.  *)
AllInputs ==
    {OwnCancel, PlainUpdate, OwnUpdate({"zero"}, {p1, p2}), EmptyUpdate}
        \cup {Request("update", a, o, {"whole"}, {p1}) :
                  a \in {a1, a2, NoAgent}, o \in {o1, Unknown}}
        \cup {Request("cancel", a, o, {}, {}) :
                  a \in {a2, NoAgent}, o \in {o1, Unknown}}

(* One request of any kind; the other, if it comes, is turned down at once. *)
OneRequest == input[r2] = EmptyUpdate

(* Two of the owner's, one of them a cancellation, while the order is      *)
(* about to be locked: two updates only read what they share.              *)
TwoRequests ==
    /\ orders[o1] = NearlyLocked
    /\ <<input[r1], input[r2]>> \in
           {<<OwnCancel, OwnCancel>>, <<PlainUpdate, OwnCancel>>}

MCInit == Init /\ (OneRequest \/ TwoRequests)
MCSpec == MCInit /\ [][Next]_vars /\ Fairness
=============================================================================
