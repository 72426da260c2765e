---------------------------- MODULE BookingTypes ----------------------------
(***************************************************************************)
(* The vocabulary shared by the booking modules: the statuses an order row *)
(* carries, the result statuses a service hands to its controller, and the *)
(* HTTP code handleResponse makes of each of them.                         *)
(***************************************************************************)
EXTENDS Integers

(* BookingStatus: -1 is the refunded cancellation, 5 the charged one.      *)
Refunded == -1
Charged == 5
BookingStatus == Refunded .. Charged
Cancelled(status) == status \in {Refunded, Charged}

(* TrackStatus: 0 Booking, 1 Confirm, 2 Receive, 3 Process, 4 Arrived,     *)
(* 5 Completed.  From Process on, the luggage of an order is locked.       *)
Process == 3
Completed == 5
TrackStatus == 0 .. Completed

DefaultStatus ==
    {"ERROR", "SUCCESS", "FAIL", "BRANCH_NOTFOUND", "BRANCH_INACTIVE",
     "UNKNOWNERROR", "BRANCH_CONDITION_NOTFOUND", "UNAUTHORIZED",
     "IMAGETOOLARGE", "CANNOT_UPDATE_LUGGAGES", "UPDATE_LUGGAGES_FAILED",
     "BOOKING_NOTFOUND", "UPDATE_IMGE_LUGGAGES_FAILED",
     "CANCEL_BOOKING_FAILED"}

(* What one request is answered with: nothing yet, the status its service  *)
(* returned, or "exception" when the handler threw and ResponseInterceptor *)
(* answered in its place.                                                  *)
Reply == DefaultStatus \cup {"pending", "exception"}

(* handleResponse has no case for UPDATE_IMGE_LUGGAGES_FAILED and          *)
(* CANCEL_BOOKING_FAILED: they fall to its default, the gateway error that *)
(* a thrown exception is also answered with.                               *)
HttpCode(status) ==
    CASE status = "SUCCESS" -> 200
      [] status = "UNAUTHORIZED" -> 401
      [] status \in {"exception", "UPDATE_IMGE_LUGGAGES_FAILED",
                     "CANCEL_BOOKING_FAILED"} -> 502
      [] OTHER -> 400
=============================================================================
