--------------------------- MODULE BookingRequests ---------------------------
(***************************************************************************)
(* What is asked of the two operations that change a booking: the orders   *)
(* and their owners, the contents of the requests, and the calls to the    *)
(* old system that an update stands for.  Bookings says how the service    *)
(* handles them, BookingContract what it promises about them.              *)
(***************************************************************************)
EXTENDS BookingTypes, FiniteSets

CONSTANTS
    Orders,        \* ids of the rows of the order table
    Unknown,       \* an id that no row has
    Agents,        \* rows of the agent table
    NoAgent,       \* an account of auth_agent without a row in the agent table
    Owner,         \* agent_id of each order
    Requests,      \* the HTTP requests
    Inputs,        \* the requests' contents
    Luggage,       \* the call SaveLuggage of a request
    Pictures       \* the calls UploadPictureLuggage of a request

Item == Pictures \cup {Luggage}
Call == [req : Requests, item : Item]

(* The amount of a product as it is sent: 0, less than one, or some.       *)
Amount == {"zero", "fraction", "whole"}

(* What the DTO makes of it.  toNumber parses value || 'undefined': a 0 is *)
(* lost, and leaves an undefined that no nested validation turns down; a   *)
(* fraction is cut to 0.                                                   *)
ToNumber(a) ==
    CASE a = "zero" -> "undefined" [] a = "fraction" -> "0" [] OTHER -> "some"

(* A request as it is sent: amounts are those of an update's products,     *)
(* which are not empty; a cancellation has no body.                        *)
Input == [kind : {"update", "cancel"},
          agent : Agents \cup {NoAgent},
          order : Orders \cup {Unknown},
          amounts : SUBSET Amount,
          pictures : SUBSET Pictures]

(* item.amount == 0: of an undefined it is false.                          *)
HasZero(in) == \E a \in in.amounts : ToNumber(a) = "0"

ASSUME InputsAssumption == Inputs \subseteq Input
ASSUME OwnerAssumption == Owner \in [Orders -> Agents]
ASSUME NamesAssumption ==
    /\ Unknown \notin Orders
    /\ NoAgent \notin Agents
    /\ Luggage \notin Pictures
=============================================================================
