-------------------------- MODULE BookingContract --------------------------
(***************************************************************************)
(* What an agent may rely on when it changes or cancels a booking, without *)
(* any of the awaits, reads and messages of the service: an order has a    *)
(* status; each call an update stands for is open until it is kept or      *)
(* void, for good; a request is asked and then answered, once, and its     *)
(* answer is in step with what becomes of the order and the calls.         *)
(***************************************************************************)
EXTENDS BookingRequests

CONSTANT InitialStatuses   \* the statuses an order may start from

VARIABLES
    status,   \* the status of each order
    past,     \* the orders whose refund limit has passed
    input,    \* the contents of a request
    asked,    \* the requests that have come in
    inTime,   \* those of them that came before the refund limit
    fate,     \* of each call: open, kept by the old system, or void
    reply     \* what each request has been answered

vars == <<status, past, input, asked, inTime, fate, reply>>

Fate == {"open", "kept", "void"}

(* The calls that request r, with contents in, stands for.                 *)
CallsOf(r, in) ==
    IF in.kind = "update"
    THEN {[req |-> r, item |-> i] : i \in in.pictures \cup {Luggage}} ELSE {}
Calls(r) == CallsOf(r, input[r])

Known(r) == input[r].order \in Orders
Own(r) == Known(r) /\ input[r].agent = Owner[input[r].order]
Waits(r) == r \in asked /\ reply[r] = "pending"

Init ==
    /\ status \in [Orders -> InitialStatuses]
    /\ past = {}
    /\ input \in [Requests -> Inputs]
    /\ asked = {}
    /\ inTime = {}
    /\ fate = [c \in Call |-> IF c \in Calls(c.req) THEN "open" ELSE "void"]
    /\ reply = [r \in Requests |-> "pending"]

-----------------------------------------------------------------------------
(* An update with an amount that is cut to 0 is turned down as it comes in *)
(* (one with an amount of 0 is passed on, without that product).           *)
Empty(r) == input[r].kind = "update" /\ HasZero(input[r])

ComesIn(r) ==
    /\ r \notin asked
    /\ asked' = asked \cup {r}
    /\ inTime' = IF input[r].kind = "cancel" /\ input[r].order \in past
                 THEN inTime ELSE inTime \cup {r}
    /\ UNCHANGED <<status, past, input>>

Ask(r) == ComesIn(r) /\ ~Empty(r) /\ UNCHANGED <<fate, reply>>

Answer(r, said) == reply' = [reply EXCEPT ![r] = said]

(* Nothing of r has been kept, and nothing ever will.                      *)
Void(r) ==
    /\ \A c \in Calls(r) : fate[c] = "open"
    /\ fate' = [c \in Call |-> IF c \in Calls(r) THEN "void" ELSE fate[c]]

AskEmpty(r) ==
    ComesIn(r) /\ Empty(r) /\ Void(r) /\ Answer(r, "UPDATE_LUGGAGES_FAILED")

(* The reason for which r may be turned down; an error is always possible. *)
Reasons(r) ==
    IF ~Known(r) THEN {"BOOKING_NOTFOUND"}
    ELSE IF input[r].agent = NoAgent THEN {}
    ELSE IF ~Own(r) THEN {"UNAUTHORIZED"}
    ELSE IF input[r].kind = "update" THEN {"CANNOT_UPDATE_LUGGAGES"}
    ELSE {}

(* A request that is turned down, or ends in an error before it has been   *)
(* passed on, changes nothing.                                             *)
Refuse(r) ==
    /\ Waits(r)
    /\ \E said \in Reasons(r) \cup {"exception"} : Answer(r, said)
    /\ Void(r)
    /\ UNCHANGED <<status, past, input, asked, inTime>>

(* What an update may be answered when its calls have these fates.         *)
Fits(r, said) ==
    CASE said = "SUCCESS" -> \A c \in Calls(r) : fate[c] = "kept"
      [] said = "UPDATE_IMGE_LUGGAGES_FAILED" ->
             fate[[req |-> r, item |-> Luggage]] = "kept"
      [] said = "UPDATE_LUGGAGES_FAILED" ->
             fate[[req |-> r, item |-> Luggage]] = "void"
      [] OTHER -> said = "UNKNOWNERROR"

FinishUpdate(r) ==
    /\ Waits(r)
    /\ Own(r)
    /\ input[r].kind = "update"
    /\ \E said \in DefaultStatus : Fits(r, said) /\ Answer(r, said)
    /\ UNCHANGED <<status, past, input, asked, inTime, fate>>

(* What the owner's cancellation makes of its order: refunded if it came   *)
(* in time, charged once the limit has passed, and a cancelled order may   *)
(* be left as it is.  The agent may get an error instead of the success.   *)
Outcomes(r) ==
    LET o == input[r].order
    IN  {s \in BookingStatus :
            \/ s = Refunded /\ r \in inTime
            \/ s = Charged /\ o \in past
            \/ s = status[o] /\ Cancelled(s)}

Cancel(r) ==
    /\ Waits(r)
    /\ Own(r)
    /\ input[r].kind = "cancel"
    /\ \E s \in Outcomes(r) : status' = [status EXCEPT ![input[r].order] = s]
    /\ \E said \in {"SUCCESS", "exception"} : Answer(r, said)
    /\ UNCHANGED <<past, input, asked, inTime, fate>>

(* The old system settles a call of an update of the order's own agent, at *)
(* any time after it was asked for, also after the answer.                 *)
Settle(c) ==
    /\ c.req \in asked
    /\ Own(c.req)
    /\ fate[c] = "open"
    /\ \E f \in {"kept", "void"} : fate' = [fate EXCEPT ![c] = f]
    /\ UNCHANGED <<status, past, input, asked, inTime, reply>>

(* The staff moves an order in force along; refund limits pass.            *)
Progress(o) ==
    /\ status[o] \in 0 .. 3
    /\ status' = [status EXCEPT ![o] = @ + 1]
    /\ UNCHANGED <<past, input, asked, inTime, fate, reply>>

LimitPasses(o) ==
    /\ past' = past \cup {o}
    /\ UNCHANGED <<status, input, asked, inTime, fate, reply>>

Next ==
    \/ \E r \in Requests :
          Ask(r) \/ AskEmpty(r) \/ Refuse(r) \/ FinishUpdate(r) \/ Cancel(r)
    \/ \E c \in Call : Settle(c)
    \/ \E o \in Orders : Progress(o) \/ LimitPasses(o)

Spec == Init /\ [][Next]_vars
=============================================================================
