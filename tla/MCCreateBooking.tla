-------------------------- MODULE MCCreateBooking --------------------------
(* Small instances of CreateBooking for TLC.                               *)
EXTENDS CreateBookingRefinement, TLC

CONSTANTS b1, b2, inB2, nowhere, outside, garbled, ref1, r1, r2

(* Transports go one way only.                                             *)
MCConditions == {<<b1, b2>>}
MCSupportArea == inB2 :> b2 @@ nowhere :> UnknownBranch
                     @@ outside :> Outside @@ garbled :> Malformed

ById(b) == [id |-> b, place |-> None]
ByPlace(p) == [id |-> None, place |-> p]

Request(agent, from, to, images) ==
    [agent |-> agent, ref |-> ref1, from |-> from, to |-> to,
     images |-> images]

GoodInputs == {Request(Booker, ById(b1), ById(b2), "small"),
               Request(Booker, ById(b1), ByPlace(inB2), "small")}

(* Every pair of ends, and every other way to be refused.                  *)
AnyEnd == {ById(b) : b \in {b1, b2, UnknownBranch}}
              \cup {ByPlace(p) : p \in Places \cup {None}}
AllInputs ==
    {Request(Booker, from, to, "small") : from \in AnyEnd, to \in AnyEnd}
        \cup {Request(a, ById(b1), ById(b2), i) :
                  a \in {None, 2323, Booker}, i \in {"absent", "large"}}

(* One request of any kind; the other, if it comes, names no end and is    *)
(* turned down at once.                                                    *)
Nameless == Request(Booker, ByPlace(None), ByPlace(None), "small")
OneRequest == input[r2] = Nameless

(* A request and its retry, by the same ends or named otherwise.           *)
Retry == input[r1] \in GoodInputs /\ input[r2] \in GoodInputs

MCInit == Init /\ (OneRequest \/ Retry)
MCSpec == MCInit /\ [][Next]_vars /\ Fairness
=============================================================================
