------------------------- MODULE BookingsRefinement -------------------------
(***************************************************************************)
(* Bookings implements BookingContract.                                    *)
(*                                                                         *)
(* A call of the contract is open while it is on the wire, and before it   *)
(* has been made as long as its handler still runs; it is kept once the    *)
(* old system has carried it out.                                          *)
(***************************************************************************)
EXTENDS Bookings

Made(r) == IF input[r].kind = "update"
           THEN PictureCalls(r) \cup {LuggageCall(r)} ELSE {}

ToCome(c) == /\ c \in Made(c.req)
             /\ answer[c] = "none"
             /\ pc[c.req] # Done

FateOf(c) == IF c \in stored THEN "kept"
             ELSE IF c \in wire \/ ToCome(c) THEN "open" ELSE "void"

CameIn == {r \in Requests : pc[r] # Idle}

Contract == INSTANCE BookingContract WITH
    InitialStatuses <- {row.order_status : row \in InitialRows},
    status <- [o \in Orders |-> orders[o].order_status],
    past <- cutoffPast,
    asked <- CameIn,
    inTime <- {r \in CameIn : ~atArrival[r].late},
    fate <- [c \in Call |-> FateOf(c)]

(* Everything a changed or cancelled booking goes through, with all its    *)
(* awaits, messages and failures, is allowed by the contract.              *)
ContractIsKept == Contract!Spec
=============================================================================
