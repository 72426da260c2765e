--------------------------- MODULE BookingsProofs ---------------------------
(***************************************************************************)
(* Proofs, for every number of orders, agents, requests and pictures, of   *)
(* the safety properties of Bookings.                                      *)
(***************************************************************************)
EXTENDS Bookings, TLAPS

(* The calls of a request are calls.                                       *)
LEMMA CallsOfRequest ==
    ASSUME TypeOK, NEW r \in Requests
    PROVE  /\ PictureCalls(r) \subseteq Call
           /\ LuggageCall(r) \in Call
           /\ input[r] \in Input
BY DEF TypeOK, PictureCalls, LuggageCall, Call, Item, Input

(* A row that repo.save writes is a row.                                   *)
LEMMA SavedRowType ==
    ASSUME NEW e \in Row, NEW s \in Row, NEW c \in Row
    PROVE  SavedRow(e, s, c) \in Row
BY DEF SavedRow, Column, Row

LEMMA EntityType ==
    ASSUME TypeOK, NEW r \in Requests
    PROVE  /\ Entity(r) \in Row
           /\ Entity(r).order_status = target[r]
           /\ Entity(r).track_status = booking[r].track_status
BY DEF TypeOK, Entity, Row

LEMMA InitTypeOK == Init => TypeOK
<1> SUFFICES ASSUME Init PROVE TypeOK OBVIOUS
<1> USE InputsAssumption, InitialRowsAssumption DEF Init
<1>1. InitialRows \subseteq Row /\ Inputs \subseteq Input OBVIOUS
<1>2. orders \in [Orders -> Row] /\ input \in [Requests -> Input]
    BY <1>1
<1>3. NoRow \in Row /\ 0 \in BookingStatus
    BY DEF NoRow, Row, BookingStatus, TrackStatus, Refunded, Charged, Completed
<1>4. booking \in [Requests -> Row] /\ selected \in [Requests -> Row]
      /\ target \in [Requests -> BookingStatus]
    BY <1>3
<1>5. pc \in [Requests -> PC] /\ answer \in [Call -> Answer]
      /\ reply \in [Requests -> Reply] /\ atArrival \in [Requests -> History]
    BY DEF PC, Idle, Answer, Reply, History
<1> QED BY <1>2, <1>4, <1>5 DEF TypeOK

(* A handler that is past findOne has found its order: without this the    *)
(* row a save selects would have no type.                                  *)
PastFindOne == {"check", "luggage", "images", "select", "save"}
FoundOrder ==
    \A r \in Requests :
        pc[r] \in PastFindOne \/ reply[r] = "SUCCESS" => Order(r) \in Orders

(* A handler's step keeps the types.                                       *)
LEMMA HandlerTypeOK ==
    ASSUME TypeOK, FoundOrder, NEW r \in Requests, Handler(r)
    PROVE  TypeOK'
<1> USE DEF TypeOK, database, oldSystem
<1>p. {"find", "check", "luggage", "images", "select", "save"} \subseteq PC
      /\ Done \in PC
    BY DEF PC, Done
<1>r. {"BOOKING_NOTFOUND", "exception", "UNAUTHORIZED",
       "CANNOT_UPDATE_LUGGAGES", "SUCCESS", "UPDATE_LUGGAGES_FAILED",
       "UNKNOWNERROR", "UPDATE_IMGE_LUGGAGES_FAILED"} \subseteq Reply
    BY DEF Reply, DefaultStatus
<1>o. CASE Order(r) \in Orders /\ FindOne(r)
    BY <1>o, <1>p DEF FindOne, GoTo
<1>u. CASE Order(r) \notin Orders /\ FindOne(r)
    BY <1>u, <1>p, <1>r DEF FindOne, Respond, GoTo
<1>1. CASE ThrowNoAgent(r)
    BY <1>1, <1>p, <1>r DEF ThrowNoAgent, Respond, GoTo
<1>2. CASE RefuseStranger(r)
    BY <1>2, <1>p, <1>r DEF RefuseStranger, Respond, GoTo
<1>3. CASE RefuseLocked(r)
    BY <1>3, <1>p, <1>r DEF RefuseLocked, Respond, GoTo
<1>4. ASSUME NEW calls, calls \subseteq Call, Send(calls)
      PROVE  wire' \subseteq Call /\ answer' \in [Call -> Answer]
             /\ stored' \subseteq Call
    BY <1>4 DEF Send, Answer
<1>5. CASE SendLuggage(r)
    <2>1. Send({LuggageCall(r)}) /\ {LuggageCall(r)} \subseteq Call
        BY <1>5, CallsOfRequest DEF SendLuggage
    <2> QED BY <1>5, <1>p, <1>4, <2>1 DEF SendLuggage, GoTo
<1>6. CASE SendPictures(r)
    <2>1. Send(PictureCalls(r)) /\ PictureCalls(r) \subseteq Call
        BY <1>6, CallsOfRequest DEF SendPictures
    <2> QED BY <1>6, <1>p, <1>4, <2>1 DEF SendPictures, GoTo
<1>7. CASE FinishUpdate(r)
    <2> DEFINE status == IF LuggageStatus(r) # "SUCCESS"
                         THEN LuggageStatus(r) ELSE PictureStatus(r)
    <2>1. status \in Reply
        BY <1>r DEF LuggageStatus, PictureStatus
    <2>2. Respond(r, status)
        BY <1>7 DEF FinishUpdate
    <2> HIDE DEF status
    <2> QED BY <1>7, <1>p, <2>1, <2>2 DEF FinishUpdate, Respond, GoTo
<1>8. CASE DecideCancel(r)
    <2>1. CancelStatus(Order(r)) \in BookingStatus
        BY DEF CancelStatus, BookingStatus, Refunded, Charged
    <2> QED BY <1>8, <1>p, <2>1 DEF DecideCancel, GoTo
<1>9. CASE SaveSelect(r)
    BY <1>9, <1>p DEF SaveSelect, GoTo, FoundOrder, PastFindOne
<1>10. CASE SaveUpdate(r)
    <2>1. ASSUME Order(r) \in Orders
          PROVE  SavedRow(Entity(r), selected[r], orders[Order(r)]) \in Row
        BY <2>1, SavedRowType, EntityType
    <2>2. orders' \in [Orders -> Row]
        BY <1>10, <2>1 DEF SaveUpdate
    <2>3. PICK status \in {"SUCCESS", "exception"} : Respond(r, status)
        BY <1>10 DEF SaveUpdate
    <2> QED BY <1>10, <1>p, <1>r, <2>2, <2>3 DEF SaveUpdate, Respond, GoTo
<1>11. CASE DatabaseFails(r)
    BY <1>11, <1>p, <1>r DEF DatabaseFails, Respond, GoTo
<1> QED
    BY <1>o, <1>u, <1>1, <1>2, <1>3, <1>5, <1>6, <1>7, <1>8, <1>9, <1>10,
       <1>11 DEF Handler

LEMMA ArriveTypeOK ==
    ASSUME TypeOK, NEW r \in Requests, Arrive(r)
    PROVE  TypeOK'
<1> USE DEF TypeOK, database, oldSystem
<1>1. "find" \in PC /\ Done \in PC /\ "UPDATE_LUGGAGES_FAILED" \in Reply
    BY DEF PC, Done, Reply, DefaultStatus
<1>2. atArrival' \in [Requests -> History]
    BY DEF Arrive, History
<1>3. pc' \in [Requests -> PC] /\ reply' \in [Requests -> Reply]
    BY <1>1 DEF Arrive, Respond, GoTo
<1> QED BY <1>2, <1>3 DEF Arrive

(* The steps of the old system, its staff and the clock keep the types.    *)
LEMMA EnvironmentTypeOK ==
    ASSUME TypeOK,
           \/ \E c \in Call : Transport(c)
           \/ \E o \in Orders : Staff(o) \/ CutoffPasses(o)
    PROVE  TypeOK'
<1> USE DEF TypeOK, database, oldSystem
<1>1. {"ok", "lost", "refused"} \subseteq Answer
    BY DEF Answer
<1>2. ASSUME NEW c \in Call, CarryOut(c) PROVE TypeOK'
    BY <1>1, <1>2 DEF CarryOut
<1>3. ASSUME NEW c \in Call, Refuse(c) PROVE TypeOK'
    BY <1>1, <1>3 DEF Refuse
<1>4. ASSUME NEW c \in Call, Break(c) PROVE TypeOK'
    BY <1>1, <1>4 DEF Break
<1>5. ASSUME NEW o \in Orders, StaffTracks(o) PROVE TypeOK'
    <2>1. [orders[o] EXCEPT !.track_status = @ + 1] \in Row
        BY <1>5 DEF StaffTracks, Row, TrackStatus, Completed
    <2>2. orders' = [orders EXCEPT ![o] =
                         [orders[o] EXCEPT !.track_status = @ + 1]]
        BY <1>5 DEF StaffTracks
    <2> QED BY <1>5, <2>1, <2>2 DEF StaffTracks
<1>6. ASSUME NEW o \in Orders, StaffProgresses(o) PROVE TypeOK'
    <2>1. [orders[o] EXCEPT !.order_status = @ + 1] \in Row
        BY <1>6 DEF StaffProgresses, Row, BookingStatus, Refunded, Charged
    <2>2. orders' = [orders EXCEPT ![o] =
                         [orders[o] EXCEPT !.order_status = @ + 1]]
        BY <1>6 DEF StaffProgresses
    <2> QED BY <1>6, <2>1, <2>2 DEF StaffProgresses
<1>7. ASSUME NEW o \in Orders, CutoffPasses(o) PROVE TypeOK'
    BY <1>7 DEF CutoffPasses
<1> QED BY <1>2, <1>3, <1>4, <1>5, <1>6, <1>7 DEF Transport, Staff

(* What every step leaves alone, for the invariants that follow: contents  *)
(* of requests never change, an answered request stays answered.           *)
LEMMA Frame ==
    ASSUME TypeOK, [Next]_vars
    PROVE  /\ input' = input
           /\ \A r \in Requests : pc[r] = Done =>
                 /\ pc'[r] = Done
                 /\ reply'[r] = reply[r]
                 /\ booking'[r] = booking[r]
                 /\ selected'[r] = selected[r]
           /\ \A r \in Requests : pc[r] # Idle =>
                 /\ pc'[r] # Idle
                 /\ atArrival'[r] = atArrival[r]
           /\ cutoffPast \subseteq cutoffPast'
<1> USE DEF TypeOK, database, oldSystem, GoTo, Respond, Done, Idle
<1>1. ASSUME NEW r \in Requests, Arrive(r)
      PROVE  /\ input' = input /\ booking' = booking /\ selected' = selected
             /\ pc[r] = Idle /\ pc'[r] # Idle /\ cutoffPast' = cutoffPast
             /\ \A q \in Requests \ {r} : /\ pc'[q] = pc[q]
                                         /\ reply'[q] = reply[q]
                                         /\ atArrival'[q] = atArrival[q]
    BY <1>1 DEF Arrive
<1>2. ASSUME NEW r \in Requests, Handler(r)
      PROVE  /\ input' = input /\ atArrival' = atArrival
             /\ pc[r] \notin {Idle, Done} /\ pc'[r] # Idle
             /\ cutoffPast' = cutoffPast
             /\ \A q \in Requests \ {r} : /\ pc'[q] = pc[q]
                                         /\ reply'[q] = reply[q]
                                         /\ booking'[q] = booking[q]
                                         /\ selected'[q] = selected[q]
    BY <1>2 DEF Handler, FindOne, ThrowNoAgent, RefuseStranger, RefuseLocked,
                SendLuggage, SendPictures, FinishUpdate, DecideCancel,
                SaveSelect, SaveUpdate, DatabaseFails
<1>3. ASSUME \/ \E c \in Call : Transport(c)
             \/ \E o \in Orders : Staff(o) \/ CutoffPasses(o)
      PROVE  /\ UNCHANGED <<input, pc, reply, booking, selected, atArrival>>
             /\ cutoffPast \subseteq cutoffPast'
    BY <1>3 DEF Transport, CarryOut, Refuse, Break, Staff, StaffTracks,
                StaffProgresses, CutoffPasses
<1>4. CASE UNCHANGED vars
    BY <1>4 DEF vars
<1> QED BY <1>1, <1>2, <1>3, <1>4 DEF Next

LEMMA FoundOrderStep ==
    ASSUME TypeOK, FoundOrder, [Next]_vars
    PROVE  FoundOrder'
<1> USE DEF TypeOK, FoundOrder, PastFindOne, Order, GoTo, Respond, Done, Idle
<1>0. input' = input
    BY Frame
<1>1. ASSUME NEW r \in Requests, Arrive(r) PROVE FoundOrder'
    BY <1>0, <1>1 DEF Arrive
<1>2. ASSUME NEW r \in Requests, Handler(r) PROVE FoundOrder'
    BY <1>0, <1>2 DEF Handler, FindOne, ThrowNoAgent, RefuseStranger,
                RefuseLocked, SendLuggage, SendPictures, FinishUpdate,
                DecideCancel, SaveSelect, SaveUpdate, DatabaseFails
<1>3. CASE \/ \E c \in Call : Transport(c)
           \/ \E o \in Orders : Staff(o) \/ CutoffPasses(o)
    <2>1. UNCHANGED <<pc, reply>>
        BY <1>3 DEF Transport, CarryOut, Refuse, Break, Staff, StaffTracks,
                    StaffProgresses, CutoffPasses
    <2> QED BY <1>0, <2>1
<1>4. CASE UNCHANGED vars
    BY <1>4 DEF vars
<1> QED BY <1>1, <1>2, <1>3, <1>4 DEF Next

Typed == TypeOK /\ FoundOrder

LEMMA TypedStep ==
    ASSUME Typed, [Next]_vars
    PROVE  Typed'
<1> USE DEF Typed
<1>1. CASE UNCHANGED vars
    BY <1>1, FoundOrderStep DEF vars, TypeOK
<1> QED BY <1>1, HandlerTypeOK, ArriveTypeOK, EnvironmentTypeOK,
           FoundOrderStep DEF Next

(* Every reachable state is well typed, and a handler past findOne works   *)
(* on a row that exists.                                                   *)
THEOREM TypeCorrect == Spec => [](TypeOK /\ FoundOrder)
<1>1. Init => Typed
    BY InitTypeOK DEF Init, Typed, FoundOrder, PastFindOne, Idle
<1>2. Typed /\ [Next]_vars => Typed'
    BY TypedStep
<1>3. Typed => TypeOK /\ FoundOrder
    BY DEF Typed
<1> QED BY <1>1, <1>2, <1>3, PTL DEF Spec

-----------------------------------------------------------------------------
(* A cancellation past its decision is its owner's, decided to refund only *)
(* if it came in time, and to charge only if the limit has passed.         *)
Decided ==
    \A r \in Requests :
        pc[r] \in {"select", "save"} =>
            /\ input[r].kind = "cancel"
            /\ IsOwner(r)
            /\ Cancelled(target[r])
            /\ target[r] = Refunded => ~atArrival[r].late
            /\ target[r] = Charged => Order(r) \in cutoffPast

(* The calls of an update are made for an update, on its owner's behalf.   *)
Updating ==
    \A r \in Requests :
        pc[r] \in {"luggage", "images"} =>
            input[r].kind = "update" /\ IsOwner(r)

(* The refund limit, once passed, stays passed.                            *)
LateIsPast ==
    \A r \in Requests : atArrival[r].late => Order(r) \in cutoffPast

(* A save that has read a cancelled row will update a cancelled row: this  *)
(* is what makes it right to leave the column out of the UPDATE.           *)
SelectedIsCancelled ==
    \A r \in Requests :
        pc[r] = "save" /\ Cancelled(selected[r].order_status)
            => Cancelled(orders[Order(r)].order_status)

CancelInv ==
    /\ Decided
    /\ LateIsPast
    /\ Updating
    /\ SelectedIsCancelled
    /\ CancelledForGood

(* How a step may change a row: only the staff and the UPDATE of a         *)
(* cancellation write the order table.                                     *)
LEMMA RowStep ==
    ASSUME TypeOK, [Next]_vars, NEW o \in Orders
    PROVE  \/ orders'[o] = orders[o]
           \/ StaffTracks(o)
           \/ StaffProgresses(o)
           \/ \E r \in Requests : SaveUpdate(r) /\ Order(r) = o
<1> USE DEF TypeOK, database
<1>1. ASSUME NEW r \in Requests, Arrive(r) PROVE orders' = orders
    BY <1>1 DEF Arrive
<1>2. ASSUME NEW r \in Requests, Handler(r)
      PROVE  SaveUpdate(r) \/ orders' = orders
    BY <1>2 DEF Handler, FindOne, ThrowNoAgent, RefuseStranger, RefuseLocked,
                SendLuggage, SendPictures, FinishUpdate, DecideCancel,
                SaveSelect, DatabaseFails
<1>3. ASSUME NEW r \in Requests, SaveUpdate(r)
      PROVE  orders'[o] = orders[o] \/ Order(r) = o
    BY <1>3 DEF SaveUpdate
<1>4. ASSUME NEW c \in Call, Transport(c) PROVE orders' = orders
    BY <1>4 DEF Transport, CarryOut, Refuse, Break
<1>5. ASSUME NEW p \in Orders, StaffTracks(p)
      PROVE  orders'[o] = orders[o] \/ p = o
    BY <1>5 DEF StaffTracks
<1>6. ASSUME NEW p \in Orders, StaffProgresses(p)
      PROVE  orders'[o] = orders[o] \/ p = o
    BY <1>6 DEF StaffProgresses
<1>7. ASSUME NEW p \in Orders, CutoffPasses(p) PROVE orders' = orders
    BY <1>7 DEF CutoffPasses
<1>8. CASE UNCHANGED vars
    BY <1>8 DEF vars
<1> QED BY <1>1, <1>2, <1>3, <1>4, <1>5, <1>6, <1>7, <1>8 DEF Next, Staff

(* What the UPDATE of a cancellation makes of its row.                     *)
LEMMA SavedRowIs ==
    ASSUME Typed, NEW r \in Requests, SaveUpdate(r)
    PROVE  /\ Order(r) \in Orders
           /\ pc'[r] = Done
           /\ orders'[Order(r)].order_status =
                  Column(target[r], selected[r].order_status,
                         orders[Order(r)].order_status)
           /\ orders'[Order(r)].track_status =
                  Column(booking[r].track_status, selected[r].track_status,
                         orders[Order(r)].track_status)
<1>1. Order(r) \in Orders
    BY DEF Typed, FoundOrder, PastFindOne, SaveUpdate
<1>2. orders'[Order(r)] = SavedRow(Entity(r), selected[r], orders[Order(r)])
    BY <1>1 DEF Typed, TypeOK, SaveUpdate
<1>3. pc'[r] = Done
    BY DEF Typed, TypeOK, SaveUpdate, Respond, GoTo
<1> QED BY <1>1, <1>2, <1>3, EntityType DEF Typed, SavedRow

(* A cancelled order stays cancelled.                                      *)
LEMMA CancelledStays ==
    ASSUME Typed, Decided, [Next]_vars, NEW o \in Orders,
           Cancelled(orders[o].order_status)
    PROVE  Cancelled(orders'[o].order_status)
<1>1. CASE StaffTracks(o)
    BY <1>1 DEF StaffTracks, Typed, TypeOK, Row
<1>2. CASE StaffProgresses(o)
    BY <1>2 DEF StaffProgresses, Cancelled, Refunded, Charged
<1>3. ASSUME NEW r \in Requests, SaveUpdate(r), Order(r) = o
      PROVE  Cancelled(orders'[o].order_status)
    <2>1. Cancelled(target[r])
        BY <1>3 DEF Decided, SaveUpdate
    <2> QED BY <1>3, <2>1, SavedRowIs DEF Column
<1> QED BY <1>1, <1>2, <1>3, RowStep DEF Typed

LEMMA DecidedStep ==
    ASSUME Typed, Decided, LateIsPast, [Next]_vars
    PROVE  Decided' /\ LateIsPast'
<1> USE DEF Typed, TypeOK, database, oldSystem, GoTo, Respond, Done, Idle
<1>0. input' = input /\ cutoffPast \subseteq cutoffPast'
    BY Frame
<1>l. LateIsPast'
    <2>1. ASSUME NEW r \in Requests, Arrive(r) PROVE LateIsPast'
        BY <1>0, <2>1 DEF Arrive, LateIsPast, Order
    <2>2. ASSUME UNCHANGED atArrival PROVE LateIsPast'
        BY <1>0, <2>2 DEF LateIsPast, Order
    <2>3. ASSUME NEW r \in Requests, Handler(r) PROVE UNCHANGED atArrival
        BY <2>3 DEF Handler, FindOne, ThrowNoAgent, RefuseStranger,
                RefuseLocked, SendLuggage, SendPictures, FinishUpdate,
                DecideCancel, SaveSelect, SaveUpdate, DatabaseFails
    <2>4. CASE \/ \E c \in Call : Transport(c)
               \/ \E o \in Orders : Staff(o) \/ CutoffPasses(o)
        BY <2>2, <2>4 DEF Transport, CarryOut, Refuse, Break, Staff,
                StaffTracks, StaffProgresses, CutoffPasses
    <2>5. CASE UNCHANGED vars
        BY <2>2, <2>5 DEF vars
    <2> QED BY <2>1, <2>2, <2>3, <2>4, <2>5 DEF Next
<1>1. ASSUME NEW r \in Requests, Arrive(r) PROVE Decided'
    BY <1>0, <1>1 DEF Arrive, Decided, IsOwner, Order
<1>2. ASSUME NEW r \in Requests, DecideCancel(r) PROVE Decided'
    <2>1. target'[r] = CancelStatus(Order(r)) /\ Cancelled(target'[r])
        BY <1>2 DEF DecideCancel, CancelStatus, Cancelled
    <2>2. target'[r] = Refunded => ~atArrival'[r].late
        BY <1>2, <2>1 DEF DecideCancel, CancelStatus, LateIsPast, Refunded,
                          Charged
    <2>3. \A q \in Requests \ {r} : /\ pc'[q] = pc[q]
                                    /\ target'[q] = target[q]
                                    /\ atArrival'[q] = atArrival[q]
        BY <1>2 DEF DecideCancel
    <2>4. input[r].kind = "cancel" /\ IsOwner(r)
        BY <1>2 DEF DecideCancel
    <2>5. target'[r] = Charged => Order(r) \in cutoffPast
        BY <2>1 DEF CancelStatus, Refunded, Charged
    <2> QED BY <1>0, <2>1, <2>2, <2>3, <2>4, <2>5 DEF Decided, IsOwner, Order
<1>3. ASSUME NEW r \in Requests, Handler(r), ~DecideCancel(r) PROVE Decided'
    BY <1>0, <1>3 DEF Handler, FindOne, ThrowNoAgent, RefuseStranger,
            RefuseLocked, SendLuggage, SendPictures, FinishUpdate,
            SaveSelect, SaveUpdate, DatabaseFails, Decided, IsOwner, Order
<1>4. CASE \/ \E c \in Call : Transport(c)
           \/ \E o \in Orders : Staff(o) \/ CutoffPasses(o)
    <2>1. UNCHANGED <<pc, target, atArrival>>
        BY <1>4 DEF Transport, CarryOut, Refuse, Break, Staff, StaffTracks,
                    StaffProgresses, CutoffPasses
    <2> QED BY <1>0, <1>l, <2>1 DEF Decided, IsOwner, Order
<1>5. CASE UNCHANGED vars
    BY <1>l, <1>5 DEF vars, Decided, IsOwner, Order
<1> QED BY <1>l, <1>1, <1>2, <1>3, <1>4, <1>5 DEF Next

LEMMA SelectedIsCancelledStep ==
    ASSUME Typed, Decided, SelectedIsCancelled, [Next]_vars
    PROVE  SelectedIsCancelled'
<1> SUFFICES ASSUME NEW r \in Requests, pc'[r] = "save",
                    Cancelled(selected'[r].order_status)
             PROVE  Cancelled(orders'[Order(r)].order_status)
    BY Frame DEF Typed, SelectedIsCancelled, Order
<1>1. CASE SaveSelect(r)
    BY <1>1 DEF SaveSelect, Typed, TypeOK, FoundOrder, PastFindOne, database
<1>2. CASE ~SaveSelect(r)
    <2>1. pc[r] = "save" /\ selected'[r] = selected[r]
        <3> USE DEF Typed, TypeOK, GoTo, Respond, Done
        <3>1. ASSUME NEW q \in Requests, Arrive(q)
              PROVE  pc[r] = "save" /\ selected'[r] = selected[r]
            BY <3>1 DEF Arrive
        <3>2. ASSUME NEW q \in Requests, Handler(q)
              PROVE  pc[r] = "save" /\ selected'[r] = selected[r]
            BY <1>2, <3>2 DEF Handler, FindOne, ThrowNoAgent, RefuseStranger,
                RefuseLocked, SendLuggage, SendPictures, FinishUpdate,
                DecideCancel, SaveSelect, SaveUpdate, DatabaseFails
        <3>3. CASE \/ \E c \in Call : Transport(c)
                   \/ \E o \in Orders : Staff(o) \/ CutoffPasses(o)
            BY <3>3 DEF Transport, CarryOut, Refuse, Break, Staff,
                        StaffTracks, StaffProgresses, CutoffPasses
        <3>4. CASE UNCHANGED vars
            BY <3>4 DEF vars
        <3> QED BY <3>1, <3>2, <3>3, <3>4 DEF Next
    <2>2. Cancelled(orders[Order(r)].order_status)
        BY <2>1 DEF SelectedIsCancelled
    <2>3. Order(r) \in Orders
        BY <2>1 DEF Typed, FoundOrder, PastFindOne
    <2> QED BY <2>2, <2>3, CancelledStays
<1> QED BY <1>1, <1>2

LEMMA UpdatingStep ==
    ASSUME Typed, Updating, [Next]_vars
    PROVE  Updating'
<1> USE DEF Typed, TypeOK, GoTo, Respond, Done, Updating, IsOwner, Order
<1>0. input' = input
    BY Frame
<1>1. ASSUME NEW r \in Requests, Arrive(r) PROVE Updating'
    BY <1>0, <1>1 DEF Arrive
<1>2. ASSUME NEW r \in Requests, Handler(r) PROVE Updating'
    BY <1>0, <1>2 DEF Handler, FindOne, ThrowNoAgent, RefuseStranger,
            RefuseLocked, SendLuggage, SendPictures, FinishUpdate,
            DecideCancel, SaveSelect, SaveUpdate, DatabaseFails
<1>3. CASE \/ \E c \in Call : Transport(c)
           \/ \E o \in Orders : Staff(o) \/ CutoffPasses(o)
    <2>1. UNCHANGED pc
        BY <1>3 DEF Transport, CarryOut, Refuse, Break, Staff, StaffTracks,
                    StaffProgresses, CutoffPasses
    <2> QED BY <1>0, <2>1
<1>4. CASE UNCHANGED vars
    BY <1>4 DEF vars
<1> QED BY <1>1, <1>2, <1>3, <1>4 DEF Next

(* Only the end of an update and the UPDATE of a cancellation answer       *)
(* SUCCESS.                                                                *)
LEMMA SuccessStep ==
    ASSUME Typed, [Next]_vars, NEW r \in Requests, reply'[r] = "SUCCESS"
    PROVE  \/ reply[r] = "SUCCESS"
           \/ SaveUpdate(r)
           \/ FinishUpdate(r)
<1> USE DEF Typed, TypeOK, GoTo, Respond
<1>1. ASSUME NEW q \in Requests, Arrive(q) PROVE reply[r] = "SUCCESS"
    BY <1>1 DEF Arrive
<1>2. ASSUME NEW q \in Requests, Handler(q)
      PROVE  reply[r] = "SUCCESS" \/ SaveUpdate(r) \/ FinishUpdate(r)
    <2>1. CASE q = r
        BY <1>2, <2>1 DEF Handler, FindOne, ThrowNoAgent, RefuseStranger,
            RefuseLocked, SendLuggage, SendPictures, DecideCancel,
            SaveSelect, DatabaseFails
    <2>2. CASE q # r
        BY <1>2, <2>2 DEF Handler, FindOne, ThrowNoAgent, RefuseStranger,
            RefuseLocked, SendLuggage, SendPictures, FinishUpdate,
            DecideCancel, SaveSelect, SaveUpdate, DatabaseFails
    <2> QED BY <2>1, <2>2
<1>3. CASE \/ \E c \in Call : Transport(c)
           \/ \E o \in Orders : Staff(o) \/ CutoffPasses(o)
    BY <1>3 DEF Transport, CarryOut, Refuse, Break, Staff, StaffTracks,
                StaffProgresses, CutoffPasses
<1>4. CASE UNCHANGED vars
    BY <1>4 DEF vars
<1> QED BY <1>1, <1>2, <1>3, <1>4 DEF Next

(* A cancellation that is answered SUCCESS in a step has updated the row   *)
(* as it decided, or found nothing to write in a row it had read cancelled.*)
LEMMA CancelledForGoodStep ==
    ASSUME Typed, Decided, Updating, SelectedIsCancelled, CancelledForGood,
           [Next]_vars
    PROVE  CancelledForGood'
<1> SUFFICES ASSUME NEW r \in Requests, input[r].kind = "cancel",
                    reply'[r] = "SUCCESS"
             PROVE  Cancelled(orders'[Order(r)].order_status)
    BY Frame DEF Typed, CancelledForGood, Order
<1>1. CASE SaveUpdate(r)
    <2>1. pc[r] = "save" /\ Cancelled(target[r])
        BY <1>1 DEF SaveUpdate, Decided
    <2> QED BY <1>1, <2>1, SavedRowIs DEF SelectedIsCancelled, Column
<1>2. CASE reply[r] = "SUCCESS"
    <2>1. Cancelled(orders[Order(r)].order_status)
        BY <1>2 DEF CancelledForGood
    <2>2. Order(r) \in Orders
        BY <1>2 DEF Typed, FoundOrder
    <2> QED BY <2>1, <2>2, CancelledStays
<1>3. ~FinishUpdate(r)
    BY DEF FinishUpdate, Updating
<1> QED BY <1>1, <1>2, <1>3, SuccessStep

(* A status that only cancellations decide is written by the save of one.  *)
LEMMA CancellationSaves ==
    ASSUME Typed, Decided, [Next]_vars, NEW o \in Orders,
           NEW s \in {Refunded, Charged},
           orders[o].order_status # s, orders'[o].order_status = s
    PROVE  \E r \in Requests : Saving(r, o) /\ target[r] = s
<1>1. ~StaffTracks(o)
    BY DEF StaffTracks, Typed, TypeOK, Row
<1>2. ~StaffProgresses(o)
    BY DEF StaffProgresses, Typed, TypeOK, Row, Refunded, Charged
<1>3. PICK r \in Requests : SaveUpdate(r) /\ Order(r) = o
    BY <1>1, <1>2, RowStep DEF Typed
<1>4. target[r] = s
    BY <1>3, SavedRowIs DEF Column
<1>5. Saving(r, o)
    BY <1>3 DEF Decided, SaveUpdate, Saving
<1> QED BY <1>4, <1>5

LEMMA CancelInvHolds == Spec => [](Typed /\ CancelInv)
<1>1. Init => CancelInv
    <2> SUFFICES ASSUME Init PROVE CancelInv OBVIOUS
    <2> QED BY DEF Init, CancelInv, Decided, LateIsPast, Updating,
                   SelectedIsCancelled, CancelledForGood, Idle
<1>2. Typed /\ CancelInv /\ [Next]_vars => CancelInv'
    BY DecidedStep, UpdatingStep, SelectedIsCancelledStep,
       CancelledForGoodStep
    DEF CancelInv
<1>3. Spec => []Typed
    BY TypeCorrect DEF Typed
<1> QED BY <1>1, <1>2, <1>3, PTL DEF Spec

(* What a successful cancellation has told its agent stays true.           *)
THEOREM CancellationsAreFinal == Spec => []CancelledForGood
BY CancelInvHolds, PTL DEF CancelInv

(* No order becomes a refunded one but by a cancellation of its agent that *)
(* came before the limit, whatever the order's status was.                 *)
THEOREM RefundsAreInTime == Spec => RefundOnlyInTime
<1> DEFINE InTime(o) ==
        /\ orders[o].order_status # Refunded
        /\ orders'[o].order_status = Refunded
        => \E r \in Requests : Saving(r, o) /\ ~atArrival[r].late
<1>1. ASSUME Typed, Decided, [Next]_vars, NEW o \in Orders,
             orders[o].order_status # Refunded,
             orders'[o].order_status = Refunded
      PROVE  \E r \in Requests : Saving(r, o) /\ ~atArrival[r].late
    BY <1>1, CancellationSaves DEF Decided, Saving
<1>2. Typed /\ CancelInv /\ [Next]_vars => [\A o \in Orders : InTime(o)]_vars
    BY <1>1 DEF CancelInv
<1> QED BY <1>2, CancelInvHolds, PTL DEF Spec, RefundOnlyInTime

(* No order becomes a charged one before its limit, or but by its agent.   *)
THEOREM ChargesAreLate == Spec => ChargeOnlyWhenLate
<1> DEFINE Late(o) ==
        /\ orders[o].order_status # Charged
        /\ orders'[o].order_status = Charged
        => o \in cutoffPast /\ \E r \in Requests : Saving(r, o)
<1>1. ASSUME Typed, Decided, [Next]_vars, NEW o \in Orders,
             orders[o].order_status # Charged,
             orders'[o].order_status = Charged
      PROVE  o \in cutoffPast /\ \E r \in Requests : Saving(r, o)
    BY <1>1, CancellationSaves DEF Decided, Saving
<1>2. Typed /\ CancelInv /\ [Next]_vars => [\A o \in Orders : Late(o)]_vars
    BY <1>1 DEF CancelInv
<1> QED BY <1>2, CancelInvHolds, PTL DEF Spec, ChargeOnlyWhenLate

-----------------------------------------------------------------------------
(* What the answer to a call says of where the call is.                    *)
CallState(c) ==
    /\ answer[c] \in {"none", "refused"} => c \notin wire \cup stored
    /\ answer[c] = "waiting" => c \in wire \ stored
    /\ answer[c] = "ok" => c \in stored \ wire
    /\ answer[c] = "lost" => c \notin wire \cap stored

AnswersAreTrue == \A c \in Call : CallState(c)

(* A handler has made no call before it has passed its checks, and only    *)
(* that for the luggage list while it waits for it.                        *)
FreshCalls ==
    \A c \in Call :
        \/ pc[c.req] \in {Idle, "find", "check", "select", "save"}
        \/ pc[c.req] = "luggage" /\ c.item # Luggage
        => answer[c] = "none"

CallInv ==
    /\ AnswersAreTrue
    /\ FreshCalls
    /\ SuccessfulUpdateIsStored
    /\ RefusedUpdateLeavesNothing
    /\ OnlyPicturesFailed

(* The calls a step may send, and what else may happen to a call.          *)
SentBy(r) == IF pc[r] = "check" THEN {LuggageCall(r)} ELSE PictureCalls(r)

LEMMA CallStep ==
    ASSUME TypeOK, [Next]_vars
    PROVE  \/ UNCHANGED oldSystem
           \/ \E c \in Call : Transport(c)
           \/ \E r \in Requests : /\ SendLuggage(r) \/ SendPictures(r)
                                 /\ Send(SentBy(r))
<1>1. ASSUME NEW r \in Requests, Arrive(r) PROVE UNCHANGED oldSystem
    BY <1>1 DEF Arrive
<1>2. ASSUME NEW r \in Requests, Handler(r)
      PROVE  UNCHANGED oldSystem \/ SendLuggage(r) \/ SendPictures(r)
    BY <1>2 DEF Handler, FindOne, ThrowNoAgent, RefuseStranger, RefuseLocked,
                FinishUpdate, DecideCancel, SaveSelect, SaveUpdate,
                DatabaseFails
<1>3. ASSUME NEW r \in Requests, SendLuggage(r) PROVE Send(SentBy(r))
    BY <1>3 DEF SendLuggage, SentBy
<1>4. ASSUME NEW r \in Requests, SendPictures(r) PROVE Send(SentBy(r))
    BY <1>4 DEF SendPictures, SentBy
<1>5. ASSUME NEW o \in Orders, Staff(o) \/ CutoffPasses(o)
      PROVE  UNCHANGED oldSystem
    BY <1>5 DEF Staff, StaffTracks, StaffProgresses, CutoffPasses
<1>6. CASE UNCHANGED vars
    BY <1>6 DEF vars, oldSystem
<1> QED BY <1>1, <1>2, <1>3, <1>4, <1>5, <1>6 DEF Next

(* A call that is sent has never been made before.                         *)
LEMMA SentIsFresh ==
    ASSUME TypeOK, FreshCalls, NEW r \in Requests,
           SendLuggage(r) \/ SendPictures(r), NEW c \in SentBy(r)
    PROVE  c \in Call /\ c.req = r /\ answer[c] = "none"
<1>1. CASE SendLuggage(r)
    BY <1>1, CallsOfRequest
    DEF SendLuggage, SentBy, LuggageCall, FreshCalls
<1>2. CASE SendPictures(r)
    <2>1. PICK p \in Pictures : c = [req |-> r, item |-> p]
        BY <1>2, CallsOfRequest DEF SendPictures, SentBy, PictureCalls, Input
    <2>2. p # Luggage
        BY NamesAssumption
    <2> QED BY <1>2, <2>1, <2>2 DEF SendPictures, FreshCalls, Call, Item
<1> QED BY <1>1, <1>2

LEMMA AnswersAreTrueStep ==
    ASSUME TypeOK, AnswersAreTrue, FreshCalls, [Next]_vars
    PROVE  AnswersAreTrue'
<1> SUFFICES ASSUME NEW c \in Call PROVE CallState(c)'
    BY DEF AnswersAreTrue
<1>0. CallState(c)
    BY DEF AnswersAreTrue
<1>1. CASE UNCHANGED oldSystem
    BY <1>0, <1>1 DEF oldSystem, CallState
<1>2. ASSUME NEW d \in Call, Transport(d) PROVE CallState(c)'
    <2> USE DEF CallState, TypeOK
    <2>0. CallState(d)
        BY DEF AnswersAreTrue
    <2>1. CASE CarryOut(d)
        BY <1>0, <2>0, <2>1 DEF CarryOut
    <2>2. CASE Refuse(d)
        BY <1>0, <2>0, <2>2 DEF Refuse, Answer
    <2>3. CASE Break(d)
        BY <1>0, <2>3 DEF Break
    <2> QED BY <1>2, <2>1, <2>2, <2>3 DEF Transport
<1>3. ASSUME NEW r \in Requests, SendLuggage(r) \/ SendPictures(r),
             Send(SentBy(r))
      PROVE  CallState(c)'
    <2>1. CASE c \in SentBy(r)
        BY <1>0, <1>3, <2>1, SentIsFresh DEF CallState, Send
    <2>2. CASE c \notin SentBy(r)
        BY <1>0, <1>3, <2>2 DEF CallState, Send
    <2> QED BY <2>1, <2>2
<1> QED BY <1>1, <1>2, <1>3, CallStep

LEMMA FreshCallsStep ==
    ASSUME TypeOK, FreshCalls, AnswersAreTrue, [Next]_vars
    PROVE  FreshCalls'
<1> SUFFICES ASSUME NEW c \in Call,
                    \/ pc'[c.req] \in {Idle, "find", "check", "select", "save"}
                    \/ pc'[c.req] = "luggage" /\ c.item # Luggage
             PROVE  answer'[c] = "none"
    BY DEF FreshCalls
<1> USE DEF TypeOK
<1>0. c.req \in Requests
    BY DEF Call
<1>1. ASSUME NEW r \in Requests, Arrive(r) PROVE answer'[c] = "none"
    BY <1>0, <1>1 DEF Arrive, FreshCalls, Respond, GoTo, oldSystem, Done, Idle
<1>2. ASSUME NEW r \in Requests, Handler(r) PROVE answer'[c] = "none"
    <2>1. CASE SendLuggage(r)
        <3>1. c = LuggageCall(r) => pc'[c.req] = "luggage" /\ c.item = Luggage
            BY <2>1 DEF SendLuggage, GoTo, LuggageCall
        <3>2. c # LuggageCall(r)
            BY <3>1 DEF Idle
        <3>3. answer'[c] = answer[c]
            BY <2>1, <3>2 DEF SendLuggage, Send
        <3>4. \/ pc[c.req] \in {Idle, "find", "check", "select", "save"}
              \/ pc[c.req] = "luggage" /\ c.item # Luggage
            BY <1>0, <2>1 DEF SendLuggage, GoTo
        <3> QED BY <3>3, <3>4 DEF FreshCalls
    <2>2. CASE SendPictures(r)
        <3>1. c.req # r
            BY <2>2 DEF SendPictures, GoTo, Idle
        <3>2. c \notin PictureCalls(r)
            BY <3>1 DEF PictureCalls
        <3> QED BY <1>0, <2>2, <3>1, <3>2
                DEF SendPictures, Send, GoTo, FreshCalls
    <2>3. CASE ~SendLuggage(r) /\ ~SendPictures(r)
        BY <1>0, <1>2, <2>3 DEF Handler, FindOne, ThrowNoAgent,
           RefuseStranger, RefuseLocked, FinishUpdate, DecideCancel,
           SaveSelect, SaveUpdate, DatabaseFails, FreshCalls, Respond, GoTo,
           oldSystem, Done, Idle
    <2> QED BY <2>1, <2>2, <2>3
<1>3. ASSUME NEW d \in Call, Transport(d) PROVE answer'[c] = "none"
    <2>1. answer[c] = "none" /\ CallState(d)
        BY <1>3 DEF Transport, CarryOut, Refuse, Break, FreshCalls,
                    AnswersAreTrue
    <2> QED BY <1>3, <2>1 DEF Transport, CarryOut, Refuse, Break, CallState
<1>4. ASSUME NEW o \in Orders, Staff(o) \/ CutoffPasses(o)
      PROVE  answer'[c] = "none"
    BY <1>4 DEF Staff, StaffTracks, StaffProgresses, CutoffPasses,
                FreshCalls, oldSystem
<1>5. CASE UNCHANGED vars
    BY <1>5 DEF vars, FreshCalls
<1> QED BY <1>1, <1>2, <1>3, <1>4, <1>5 DEF Next

(* Where the answers that speak of an update come from.                    *)
LEMMA ReplyStep ==
    ASSUME TypeOK, [Next]_vars, NEW r \in Requests, reply'[r] # reply[r]
    PROVE  \/ /\ pc[r] \in {Idle, "find", "check", "select", "save"}
              /\ UNCHANGED oldSystem
              /\ reply'[r] = "SUCCESS" => pc[r] = "save"
              /\ reply'[r] # "UPDATE_IMGE_LUGGAGES_FAILED"
           \/ FinishUpdate(r)
<1> USE DEF TypeOK, GoTo, Respond, oldSystem
<1>1. ASSUME NEW q \in Requests, Arrive(q)
      PROVE  /\ pc[r] = Idle
             /\ UNCHANGED oldSystem
             /\ reply'[r] = "UPDATE_LUGGAGES_FAILED"
    BY <1>1 DEF Arrive
<1>2. ASSUME NEW q \in Requests, Handler(q)
      PROVE  q = r /\ (\/ FinishUpdate(r)
                       \/ /\ pc[r] \in {"find", "check", "select", "save"}
                          /\ UNCHANGED oldSystem
                          /\ reply'[r] = "SUCCESS" => pc[r] = "save"
                          /\ reply'[r] # "UPDATE_IMGE_LUGGAGES_FAILED")
    BY <1>2 DEF Handler, FindOne, ThrowNoAgent, RefuseStranger, RefuseLocked,
        SendLuggage, SendPictures, FinishUpdate, DecideCancel, SaveSelect,
        SaveUpdate, DatabaseFails
<1>3. ~\E c \in Call : Transport(c)
    BY DEF Transport, CarryOut, Refuse, Break
<1>4. ~\E o \in Orders : Staff(o) \/ CutoffPasses(o)
    BY DEF Staff, StaffTracks, StaffProgresses, CutoffPasses
<1>5. ~UNCHANGED vars
    BY DEF vars
<1> QED BY <1>1, <1>2, <1>3, <1>4, <1>5 DEF Next

(* What has been carried out stays so; a call nobody sends in this step    *)
(* comes from nowhere else.                                                *)
LEMMA CallsGrow ==
    ASSUME TypeOK, [Next]_vars
    PROVE  /\ stored \subseteq stored'
           /\ \A c \in Call :
                  c \in wire' \cup stored' =>
                      \/ c \in wire \cup stored
                      \/ \E r \in Requests :
                            /\ SendLuggage(r) \/ SendPictures(r)
                            /\ c \in SentBy(r)
<1>1. CASE UNCHANGED oldSystem
    BY <1>1 DEF oldSystem
<1>2. ASSUME NEW c \in Call, Transport(c)
      PROVE  stored \subseteq stored' /\ wire' \cup stored' \subseteq wire \cup stored
    BY <1>2 DEF Transport, CarryOut, Refuse, Break
<1>3. ASSUME NEW r \in Requests, Send(SentBy(r))
      PROVE  stored' = stored /\ wire' = wire \cup SentBy(r)
    BY <1>3 DEF Send
<1> QED BY <1>1, <1>2, <1>3, CallStep

(* A request whose handler has ended sends nothing any more.               *)
LEMMA AnsweredSendsNothing ==
    ASSUME TypeOK, FreshCalls, [Next]_vars, NEW c \in Call,
           c \notin wire \cup stored,
           pc[c.req] \in {Idle, "find", "select", "save", "images", Done}
    PROVE  c \notin wire' \cup stored'
<1> SUFFICES ASSUME NEW r \in Requests,
                    SendLuggage(r) \/ SendPictures(r), c \in SentBy(r)
             PROVE  FALSE
    BY CallsGrow
<1>1. c.req = r
    BY SentIsFresh
<1> QED BY <1>1 DEF SendLuggage, SendPictures, Idle, Done

(* Answered requests are done: the answers are given nowhere else.         *)
Answered == \A r \in Requests : reply[r] # "pending" => pc[r] = Done

LEMMA AnsweredStep ==
    ASSUME TypeOK, Answered, [Next]_vars
    PROVE  Answered'
<1> USE DEF TypeOK, GoTo, Respond, Answered, Done
<1>1. ASSUME NEW r \in Requests, Arrive(r) PROVE Answered'
    BY <1>1 DEF Arrive, Idle
<1>2. ASSUME NEW r \in Requests, Handler(r) PROVE Answered'
    BY <1>2 DEF Handler, FindOne, ThrowNoAgent, RefuseStranger, RefuseLocked,
        SendLuggage, SendPictures, FinishUpdate, DecideCancel, SaveSelect,
        SaveUpdate, DatabaseFails
<1>3. CASE \/ \E c \in Call : Transport(c)
           \/ \E o \in Orders : Staff(o) \/ CutoffPasses(o)
    BY <1>3 DEF Transport, CarryOut, Refuse, Break, Staff, StaffTracks,
                StaffProgresses, CutoffPasses
<1>4. CASE UNCHANGED vars
    BY <1>4 DEF vars
<1> QED BY <1>1, <1>2, <1>3, <1>4 DEF Next

(* What an update is answered at its end, by what became of its calls.     *)
LEMMA FinishTells ==
    ASSUME TypeOK, AnswersAreTrue, NEW r \in Requests, FinishUpdate(r)
    PROVE  /\ UNCHANGED oldSystem
           /\ reply'[r] = "SUCCESS" =>
                  PictureCalls(r) \cup {LuggageCall(r)} \subseteq stored
           /\ reply'[r] = "UPDATE_IMGE_LUGGAGES_FAILED" =>
                  LuggageCall(r) \in stored
           /\ reply'[r] = "UPDATE_LUGGAGES_FAILED" =>
                  LuggageCall(r) \notin wire \cup stored
           /\ reply'[r] \notin {"BOOKING_NOTFOUND", "UNAUTHORIZED",
                                 "CANNOT_UPDATE_LUGGAGES"}
<1>1. reply'[r] = IF LuggageStatus(r) # "SUCCESS"
                  THEN LuggageStatus(r) ELSE PictureStatus(r)
    BY DEF FinishUpdate, Respond, TypeOK
<1>2. LuggageStatus(r) = "SUCCESS" => LuggageCall(r) \in stored
    BY CallsOfRequest DEF LuggageStatus, AnswersAreTrue, CallState
<1>3. LuggageStatus(r) = "UPDATE_LUGGAGES_FAILED" =>
          LuggageCall(r) \notin wire \cup stored
    BY CallsOfRequest DEF LuggageStatus, AnswersAreTrue, CallState
<1>4. PictureStatus(r) = "SUCCESS" => PictureCalls(r) \subseteq stored
    BY CallsOfRequest DEF PictureStatus, AnswersAreTrue, CallState
<1>5. /\ LuggageStatus(r) \in
             {"SUCCESS", "UPDATE_LUGGAGES_FAILED", "UNKNOWNERROR"}
      /\ PictureStatus(r) \in {"SUCCESS", "UPDATE_IMGE_LUGGAGES_FAILED"}
    BY DEF LuggageStatus, PictureStatus
<1>6. UNCHANGED oldSystem
    BY DEF FinishUpdate
<1> HIDE DEF FinishUpdate
<1> QED BY <1>1, <1>2, <1>3, <1>4, <1>5, <1>6

LEMMA UpdateAnswersStep ==
    ASSUME Typed, Decided, CallInv, Answered, [Next]_vars
    PROVE  /\ SuccessfulUpdateIsStored'
           /\ RefusedUpdateLeavesNothing'
           /\ OnlyPicturesFailed'
<1> USE DEF Typed, CallInv
<1>0. /\ input' = input
      /\ stored \subseteq stored'
      /\ \A r \in Requests : PictureCalls(r)' = PictureCalls(r)
                            /\ LuggageCall(r)' = LuggageCall(r)
    BY Frame, CallsGrow DEF PictureCalls, LuggageCall
<1>1. SuccessfulUpdateIsStored'
    <2> SUFFICES ASSUME NEW r \in Requests, input[r].kind = "update",
                        reply'[r] = "SUCCESS"
                 PROVE  PictureCalls(r) \cup {LuggageCall(r)} \subseteq stored
        BY <1>0 DEF SuccessfulUpdateIsStored
    <2>1. CASE reply'[r] = reply[r]
        BY <2>1 DEF SuccessfulUpdateIsStored
    <2>2. CASE reply'[r] # reply[r]
        <3>1. pc[r] # "save"
            BY DEF Decided
        <3> QED BY <2>2, <3>1, ReplyStep, FinishTells
    <2> QED BY <2>1, <2>2
<1>2. OnlyPicturesFailed'
    <2> SUFFICES ASSUME NEW r \in Requests,
                        reply'[r] = "UPDATE_IMGE_LUGGAGES_FAILED"
                 PROVE  LuggageCall(r) \in stored
        BY <1>0 DEF OnlyPicturesFailed
    <2> QED BY ReplyStep, FinishTells DEF OnlyPicturesFailed
<1>3. ASSUME NEW r \in Requests, NEW c \in Call, c.req = r,
             reply'[r] # "pending", c \notin wire \cup stored
      PROVE  c \notin wire' \cup stored'
    <2>1. CASE reply'[r] = reply[r]
        BY <1>3, <2>1, AnsweredSendsNothing DEF Answered
    <2>2. CASE reply'[r] # reply[r]
        BY <1>3, <2>2, ReplyStep, FinishTells DEF oldSystem
    <2> QED BY <2>1, <2>2
<1>4. ASSUME NEW r \in Requests,
             reply'[r] \in {"BOOKING_NOTFOUND", "UNAUTHORIZED",
                            "CANNOT_UPDATE_LUGGAGES"},
             NEW c \in wire' \cup stored'
      PROVE  c.req # r
    <2> SUFFICES ASSUME c.req = r PROVE FALSE
        OBVIOUS
    <2>1. c \in Call
        BY TypedStep DEF TypeOK
    <2>2. c \notin wire \cup stored
        <3>1. CASE reply'[r] = reply[r]
            BY <1>4, <3>1 DEF RefusedUpdateLeavesNothing
        <3>2. CASE reply'[r] # reply[r]
            <4>1. pc[r] \in {Idle, "find", "check", "select", "save"}
                BY <1>4, <3>2, ReplyStep, FinishTells
            <4> QED BY <2>1, <4>1 DEF FreshCalls, AnswersAreTrue, CallState
        <3> QED BY <3>1, <3>2
    <2> QED BY <1>3, <1>4, <2>1, <2>2
<1>5. ASSUME NEW r \in Requests, reply'[r] = "UPDATE_LUGGAGES_FAILED"
      PROVE  LuggageCall(r) \notin wire' \cup stored'
    <2>1. LuggageCall(r) \in Call /\ LuggageCall(r).req = r
        BY CallsOfRequest DEF LuggageCall
    <2>2. LuggageCall(r) \notin wire \cup stored
        <3>1. CASE reply'[r] = reply[r]
            BY <1>5, <3>1 DEF RefusedUpdateLeavesNothing
        <3>2. CASE FinishUpdate(r)
            BY <1>5, <3>2, FinishTells
        <3>3. CASE pc[r] \in {Idle, "find", "check", "select", "save"}
            BY <2>1, <3>3 DEF FreshCalls, AnswersAreTrue, CallState
        <3> QED BY <3>1, <3>2, <3>3, ReplyStep
    <2> QED BY <1>3, <1>5, <2>1, <2>2
<1> QED BY <1>0, <1>1, <1>2, <1>4, <1>5 DEF RefusedUpdateLeavesNothing

LEMMA CallInvHolds == Spec => [](CallInv /\ Answered)
<1>1. Init => CallInv /\ Answered
    BY DEF Init, CallInv, Answered, AnswersAreTrue, CallState, FreshCalls,
           SuccessfulUpdateIsStored, RefusedUpdateLeavesNothing,
           OnlyPicturesFailed
<1>2. Typed /\ CancelInv /\ CallInv /\ Answered /\ [Next]_vars
          => CallInv' /\ Answered'
    BY AnswersAreTrueStep, FreshCallsStep, UpdateAnswersStep, AnsweredStep
    DEF CallInv, CancelInv, Typed
<1> QED BY <1>1, <1>2, CancelInvHolds, PTL DEF Spec

(* An update answered with success is stored, whole.                       *)
THEOREM SuccessIsStored == Spec => []SuccessfulUpdateIsStored
BY CallInvHolds, PTL DEF CallInv

(* A refused update leaves nothing behind, now or later.                   *)
THEOREM RefusalsLeaveNothing == Spec => []RefusedUpdateLeavesNothing
BY CallInvHolds, PTL DEF CallInv

(* An update that failed on its pictures alone has its luggage stored.     *)
THEOREM PictureFailuresKeepLuggage == Spec => []OnlyPicturesFailed
BY CallInvHolds, PTL DEF CallInv

-----------------------------------------------------------------------------
(* A locked order is open to an update only behind a cancellation that has *)
(* written back an earlier tracking: at the request's arrival, at its      *)
(* check, and while its calls are made.                                    *)
Excused(r) == StaleCancel(Order(r))

LockedOrders ==
    \A r \in Requests : atArrival[r].locked =>
        /\ Order(r) \in Orders
        /\ orders[Order(r)].track_status >= Process \/ Excused(r)

LockedChecks ==
    \A r \in Requests : atArrival[r].locked =>
        /\ pc[r] = "check" =>
               booking[r].track_status >= Process \/ Excused(r)
        /\ pc[r] \in {"luggage", "images"} => Excused(r)

LockInv == LockedOrders /\ LockedChecks /\ LockedOrderKeepsLuggage

(* A cancellation that has saved a stale row has done so for good.         *)
LEMMA ExcusedStays ==
    ASSUME TypeOK, [Next]_vars, NEW r \in Requests, Excused(r)
    PROVE  Excused(r)'
BY Frame DEF Excused, StaleCancel, Order

(* The save that lowers the tracking of a locked order is a stale one.     *)
LEMMA LockStays ==
    ASSUME Typed, Decided, [Next]_vars, NEW r \in Requests,
           Order(r) \in Orders, orders[Order(r)].track_status >= Process
    PROVE  orders'[Order(r)].track_status >= Process \/ Excused(r)'
<1> DEFINE o == Order(r)
<1>0. orders[o].track_status \in Int
    BY DEF Typed, TypeOK, Row, TrackStatus
<1>1. CASE StaffTracks(o)
    <2>1. orders'[o].track_status = orders[o].track_status + 1
        BY <1>1 DEF StaffTracks, Typed, TypeOK, Row
    <2> QED BY <1>0, <2>1 DEF Process
<1>2. CASE StaffProgresses(o)
    BY <1>2 DEF StaffProgresses, Typed, TypeOK, Row
<1>3. ASSUME NEW q \in Requests, SaveUpdate(q), Order(q) = o,
             ~(orders'[o].track_status >= Process)
      PROVE  Excused(r)'
    <2>1. /\ booking[q].track_status # selected[q].track_status
          /\ ~(booking[q].track_status >= Process)
        BY <1>3, SavedRowIs DEF Column
    <2>2. booking[q].track_status < Process
        BY <2>1 DEF Typed, TypeOK, Row, TrackStatus, Process
    <2>3. /\ input'[q].kind = "cancel" /\ pc'[q] = Done
          /\ booking'[q] = booking[q] /\ selected'[q] = selected[q]
        BY <1>3, SavedRowIs, Frame DEF SaveUpdate, Decided, Typed
    <2>4. Order(q)' = Order(r)'
        BY <1>3, Frame DEF Order, Typed
    <2> QED BY <2>1, <2>2, <2>3, <2>4 DEF Excused, StaleCancel
<1> QED BY <1>1, <1>2, <1>3, RowStep DEF Typed

LEMMA LockedOrdersStep ==
    ASSUME Typed, Decided, LockedOrders, [Next]_vars
    PROVE  LockedOrders'
<1> SUFFICES ASSUME NEW r \in Requests, atArrival'[r].locked
             PROVE  /\ Order(r) \in Orders
                    /\ orders'[Order(r)].track_status >= Process
                           \/ Excused(r)'
    BY Frame DEF LockedOrders, Order, Typed
<1>1. CASE atArrival[r].locked
    BY <1>1, LockStays, ExcusedStays DEF LockedOrders, Typed
<1>2. CASE ~atArrival[r].locked
    <2>1. Arrive(r)
        <3> USE DEF Typed, TypeOK
        <3>1. ASSUME NEW q \in Requests, Arrive(q), q # r
              PROVE  atArrival'[r] = atArrival[r]
            BY <3>1 DEF Arrive
        <3>2. ASSUME NEW q \in Requests, Handler(q)
              PROVE  atArrival' = atArrival
            BY <3>2 DEF Handler, FindOne, ThrowNoAgent, RefuseStranger,
                RefuseLocked, SendLuggage, SendPictures, FinishUpdate,
                DecideCancel, SaveSelect, SaveUpdate, DatabaseFails
        <3>3. ASSUME \/ \E c \in Call : Transport(c)
                     \/ \E o \in Orders : Staff(o) \/ CutoffPasses(o)
              PROVE  atArrival' = atArrival
            BY <3>3 DEF Transport, CarryOut, Refuse, Break, Staff,
                        StaffTracks, StaffProgresses, CutoffPasses
        <3>4. CASE UNCHANGED vars
            BY <1>2, <3>4 DEF vars
        <3> QED BY <1>2, <3>1, <3>2, <3>3, <3>4 DEF Next
    <2> QED BY <2>1 DEF Arrive, Typed, TypeOK, database
<1> QED BY <1>1, <1>2

LEMMA LockedChecksStep ==
    ASSUME Typed, LockedOrders, LockedChecks, [Next]_vars
    PROVE  LockedChecks'
<1> SUFFICES ASSUME NEW r \in Requests, atArrival'[r].locked
             PROVE  /\ pc'[r] = "check" =>
                           booking'[r].track_status >= Process \/ Excused(r)'
                    /\ pc'[r] \in {"luggage", "images"} => Excused(r)'
    BY DEF LockedChecks
<1> USE DEF Typed, TypeOK, GoTo, Respond, Done, Idle
<1>0. Excused(r) => Excused(r)'
    BY ExcusedStays
<1>1. ASSUME NEW q \in Requests, Arrive(q), q = r
      PROVE  pc'[r] \notin {"check", "luggage", "images"}
    BY <1>1 DEF Arrive
<1>2. ASSUME pc'[r] = pc[r], booking'[r] = booking[r],
             atArrival'[r] = atArrival[r]
      PROVE  /\ pc'[r] = "check" =>
                    booking'[r].track_status >= Process \/ Excused(r)'
             /\ pc'[r] \in {"luggage", "images"} => Excused(r)'
    BY <1>0, <1>2 DEF LockedChecks
<1>3. CASE FindOne(r)
    <2>1. /\ pc'[r] \notin {"luggage", "images"}
          /\ pc'[r] = "check" => booking'[r] = orders[Order(r)]
          /\ atArrival[r].locked
        BY <1>3 DEF FindOne
    <2> QED BY <1>0, <2>1 DEF LockedOrders
<1>4. CASE SendLuggage(r)
    <2>1. /\ pc'[r] = "luggage" /\ pc[r] = "check"
          /\ ~(booking[r].track_status >= Process)
          /\ atArrival[r].locked
        BY <1>4 DEF SendLuggage, Unlocked, Row, TrackStatus, Process
    <2> QED BY <1>0, <2>1 DEF LockedChecks
<1>5. CASE SendPictures(r)
    <2>1. pc'[r] = "images" /\ pc[r] = "luggage" /\ atArrival[r].locked
        BY <1>5 DEF SendPictures
    <2> QED BY <1>0, <2>1 DEF LockedChecks
<1>6. ASSUME NEW q \in Requests, Handler(q),
             ~FindOne(r), ~SendLuggage(r), ~SendPictures(r)
      PROVE  \/ pc'[r] \notin {"check", "luggage", "images"}
             \/ /\ pc'[r] = pc[r] /\ booking'[r] = booking[r]
                /\ atArrival'[r] = atArrival[r]
    BY <1>6 DEF Handler, FindOne, ThrowNoAgent, RefuseStranger, RefuseLocked,
        SendLuggage, SendPictures, FinishUpdate, DecideCancel, SaveSelect,
        SaveUpdate, DatabaseFails
<1>7. ASSUME NEW q \in Requests, Arrive(q), q # r
      PROVE  /\ pc'[r] = pc[r] /\ booking'[r] = booking[r]
             /\ atArrival'[r] = atArrival[r]
    BY <1>7 DEF Arrive
<1>8. ASSUME \/ \E c \in Call : Transport(c)
             \/ \E o \in Orders : Staff(o) \/ CutoffPasses(o)
             \/ UNCHANGED vars
      PROVE  /\ pc'[r] = pc[r] /\ booking'[r] = booking[r]
             /\ atArrival'[r] = atArrival[r]
    BY <1>8 DEF Transport, CarryOut, Refuse, Break, Staff, StaffTracks,
                StaffProgresses, CutoffPasses, vars
<1> QED BY <1>1, <1>2, <1>3, <1>4, <1>5, <1>6, <1>7, <1>8 DEF Next

LEMMA LockedOrderKeepsLuggageStep ==
    ASSUME Typed, LockedChecks, LockedOrderKeepsLuggage, CallInv, [Next]_vars
    PROVE  LockedOrderKeepsLuggage'
<1> SUFFICES ASSUME NEW r \in Requests, atArrival'[r].locked,
                    NEW c \in wire' \cup stored', c.req = r
             PROVE  Excused(r)'
    BY DEF LockedOrderKeepsLuggage, Excused
<1> USE DEF Typed, CallInv
<1>1. c \in Call
    BY TypedStep DEF TypeOK
<1>2. CASE c \in wire \cup stored
    <2>1. pc[r] # Idle
        BY <1>1, <1>2 DEF FreshCalls, AnswersAreTrue, CallState
    <2>2. atArrival[r].locked
        BY <2>1, Frame
    <2> QED BY <1>2, <2>2, ExcusedStays DEF LockedOrderKeepsLuggage, Excused
<1>3. ASSUME NEW q \in Requests, SendLuggage(q) \/ SendPictures(q),
             c \in SentBy(q)
      PROVE  Excused(r)'
    <2>1. q = r
        BY <1>3, SentIsFresh
    <2>2. atArrival[r].locked
        BY <1>3, <2>1 DEF SendLuggage, SendPictures
    <2>3. CASE SendLuggage(r)
        BY <2>2, <2>3, ExcusedStays DEF SendLuggage, Unlocked, LockedChecks,
           TypeOK, Row, TrackStatus, Process
    <2>4. CASE SendPictures(r)
        BY <2>2, <2>4, ExcusedStays DEF SendPictures, LockedChecks
    <2> QED BY <1>3, <2>1, <2>3, <2>4
<1> QED BY <1>1, <1>2, <1>3, CallsGrow

(* No update that comes after its order was locked reaches the old system, *)
(* except behind a cancellation that saved a stale row.                    *)
THEOREM LockedOrdersKeepLuggage == Spec => []LockedOrderKeepsLuggage
<1>1. Init => LockInv
    BY DEF Init, LockInv, LockedOrders, LockedChecks, LockedOrderKeepsLuggage
<1>2. Typed /\ CancelInv /\ CallInv /\ LockInv /\ [Next]_vars => LockInv'
    BY LockedOrdersStep, LockedChecksStep, LockedOrderKeepsLuggageStep
    DEF LockInv, CancelInv
<1>3. LockInv => LockedOrderKeepsLuggage
    BY DEF LockInv
<1> QED BY <1>1, <1>2, <1>3, CancelInvHolds, CallInvHolds, PTL DEF Spec

(* Only a cancellation whose save sees that the row has moved since it was *)
(* found takes tracking back.                                              *)
THEOREM TrackingIsLostInWindowOnly == Spec => TrackingOnlyLostInWindow
<1> DEFINE Window(o) ==
        orders'[o].track_status < orders[o].track_status =>
            \E r \in Requests :
                /\ pc[r] = "save"
                /\ Order(r) = o
                /\ booking[r].track_status = orders'[o].track_status
                /\ selected[r].track_status # booking[r].track_status
<1>1. ASSUME Typed, [Next]_vars, NEW o \in Orders,
             orders'[o].track_status < orders[o].track_status
      PROVE  \E r \in Requests :
                 /\ pc[r] = "save"
                 /\ Order(r) = o
                 /\ booking[r].track_status = orders'[o].track_status
                 /\ selected[r].track_status # booking[r].track_status
    <2>1. orders[o].track_status \in Int
        BY <1>1 DEF Typed, TypeOK, Row, TrackStatus
    <2>2. ~StaffTracks(o)
        BY <1>1, <2>1 DEF StaffTracks, Typed, TypeOK, Row
    <2>3. ~StaffProgresses(o)
        BY <1>1, <2>1 DEF StaffProgresses, Typed, TypeOK, Row
    <2>4. PICK r \in Requests : SaveUpdate(r) /\ Order(r) = o
        BY <1>1, <2>1, <2>2, <2>3, RowStep DEF Typed
    <2>5. orders'[o].track_status # orders[o].track_status
        BY <1>1, <2>1
    <2> QED BY <2>4, <2>5, <1>1, SavedRowIs DEF Column, SaveUpdate
<1>2. Typed /\ [Next]_vars => [\A o \in Orders : Window(o)]_vars
    BY <1>1
<1>3. Spec => []Typed
    BY TypeCorrect DEF Typed
<1> QED BY <1>2, <1>3, PTL DEF Spec, TrackingOnlyLostInWindow
=============================================================================
