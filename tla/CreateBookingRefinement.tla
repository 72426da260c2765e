----------------------- MODULE CreateBookingRefinement -----------------------
(***************************************************************************)
(* CreateBooking implements CreateContract.                                *)
(*                                                                         *)
(* The order of a request is open while its call is on the wire, and       *)
(* before the call is made as long as the handler still runs.              *)
(***************************************************************************)
EXTENDS CreateBooking

Open == {r \in Requests : r \in wire \/ (answer[r] = "none" /\ pc[r] # Done)}

Asked == {r \in Requests : pc[r] # Idle}
Confirmed == {r \in Requests : answer[r] = "ok"}

Contract == INSTANCE CreateContract WITH
    asked <- Asked,
    open <- Open,
    confirmed <- Confirmed,
    named <- replied

(* Everything the making of a booking goes through, with all its lookups,  *)
(* awaits, messages and failures, is allowed by the contract: a request    *)
(* makes one order at the most, a refused one none.                        *)
CreateContractIsKept == Contract!Spec
=============================================================================
