------------------------------ MODULE Bookings ------------------------------
(***************************************************************************)
(* Changing and cancelling a booking (BookingsService.updateBookingId and  *)
(* cancelBooking, with LuggageService and OldSystemService below them).    *)
(*                                                                         *)
(* The order rows live in a database this service shares with the old      *)
(* system, whose staff move an order along while requests are being        *)
(* handled.  The luggage and the pictures of an order are stored by the    *)
(* old system, through HTTP calls that may be refused, or break before or  *)
(* after the old system has carried them out.  A handler runs without      *)
(* interruption between two awaits, so every await ends an action.         *)
(***************************************************************************)
EXTENDS BookingRequests

CONSTANT InitialRows    \* the rows an order may start from

Row == [order_status : BookingStatus, track_status : TrackStatus]

ASSUME InitialRowsAssumption == InitialRows \subseteq Row

VARIABLES
    orders,      \* the order table
    cutoffPast,  \* orders whose refund limit, 07:00 of the drop-off day, has passed
    pc,          \* the await at which the handler of a request stands
    input,       \* the contents of a request
    booking,     \* the row a handler found with findOne
    target,      \* the order_status a cancellation has decided to write
    selected,    \* the row repo.save has read to compute the columns that differ
    wire,        \* calls to the old system it may still carry out
    answer,      \* what a handler knows of each of its calls
    stored,      \* calls the old system has carried out
    reply,       \* what each request has been answered
    atArrival    \* history: the order when a request came: past the refund
                 \* limit (for a cancellation), locked (for an update)

vars == <<orders, cutoffPast, pc, input, booking, target, selected, wire,
          answer, stored, reply, atArrival>>

database == <<orders, cutoffPast>>
oldSystem == <<wire, answer, stored>>

Idle == "idle"
Done == "done"
PC == {Idle, "find", "check", "luggage", "images", "select", "save", Done}
Answer == {"none", "waiting", "ok", "refused", "lost"}
History == [late : BOOLEAN, locked : BOOLEAN]

-----------------------------------------------------------------------------
Order(r) == input[r].order
IsOwner(r) == input[r].agent = Owner[Order(r)]
PictureCalls(r) == {[req |-> r, item |-> p] : p \in input[r].pictures}
LuggageCall(r) == [req |-> r, item |-> Luggage]

GoTo(r, label) == pc' = [pc EXCEPT ![r] = label]

Respond(r, status) ==
    /\ reply' = [reply EXCEPT ![r] = status]
    /\ GoTo(r, Done)

(* Mutant: an UPDATE of every column.                                      *)
WriteEveryColumn(entity, read, current) == entity

(* The columns an UPDATE of repo.save writes are those in which the entity *)
(* differs from the row the save has read; the others keep the value they  *)
(* have when the UPDATE runs.                                              *)
Column(entity, read, current) == IF entity # read THEN entity ELSE current

SavedRow(entity, read, current) ==
    [order_status |-> Column(entity.order_status, read.order_status,
                             current.order_status),
     track_status |-> Column(entity.track_status, read.track_status,
                             current.track_status)]

(* Mutants: the spread on the wrong side of the new status, and the new    *)
(* status put in the wrong column.                                         *)
StatusOverwritten(r) == booking[r]
StatusMisplaced(r) == [booking[r] EXCEPT !.track_status = target[r]]

(* repo.create({...booking, order_status}): the whole row found at the     *)
(* start, with the new status on top.                                      *)
Entity(r) == [booking[r] EXCEPT !.order_status = target[r]]

(* Mutant: the comparison with the limit turned round.                     *)
RefundWhenLate(o) == IF o \in cutoffPast THEN Refunded ELSE Charged

(* current.toISO() < limitDateTimeRefund.toISO()                           *)
CancelStatus(o) == IF o \in cutoffPast THEN Charged ELSE Refunded

-----------------------------------------------------------------------------
NoRow == [order_status |-> 0, track_status |-> 0]

Init ==
    /\ orders \in [Orders -> InitialRows]
    /\ cutoffPast = {}
    /\ pc = [r \in Requests |-> Idle]
    /\ input \in [Requests -> Inputs]
    /\ booking = [r \in Requests |-> NoRow]
    /\ target = [r \in Requests |-> 0]
    /\ selected = [r \in Requests |-> NoRow]
    /\ wire = {}
    /\ answer = [c \in Call |-> "none"]
    /\ stored = {}
    /\ reply = [r \in Requests |-> "pending"]
    /\ atArrival = [r \in Requests |-> [late |-> FALSE, locked |-> FALSE]]

(* A request comes in and its handler runs to its first database read.     *)
(* getAgentByToken only reads a row nobody changes: its await is the       *)
(* "find" that follows.                                                    *)
Arrive(r) ==
    /\ pc[r] = Idle
    /\ atArrival' = [atArrival EXCEPT ![r] =
           [late |-> input[r].kind = "cancel" /\ Order(r) \in cutoffPast,
            locked |-> /\ input[r].kind = "update"
                       /\ Order(r) \in Orders
                       /\ orders[Order(r)].track_status >= Process]]
    /\ IF input[r].kind = "update" /\ HasZero(input[r])
       THEN Respond(r, "UPDATE_LUGGAGES_FAILED")
       ELSE GoTo(r, "find") /\ UNCHANGED reply
    /\ UNCHANGED <<database, oldSystem, input, booking, target, selected>>

FindOne(r) ==
    /\ pc[r] = "find"
    /\ IF Order(r) \in Orders
       THEN /\ booking' = [booking EXCEPT ![r] = orders[Order(r)]]
            /\ GoTo(r, "check")
            /\ UNCHANGED reply
       ELSE /\ Respond(r, "BOOKING_NOTFOUND")
            /\ UNCHANGED booking
    /\ UNCHANGED <<database, oldSystem, input, target, selected, atArrival>>

(* authAgent is null and its agent_id is read: a TypeError.                *)
ThrowNoAgent(r) ==
    /\ pc[r] = "check"
    /\ input[r].agent = NoAgent
    /\ Respond(r, "exception")
    /\ UNCHANGED <<database, oldSystem, input, booking, target, selected,
                   atArrival>>

RefuseStranger(r) ==
    /\ pc[r] = "check"
    /\ input[r].agent \in Agents
    /\ ~IsOwner(r)
    /\ Respond(r, "UNAUTHORIZED")
    /\ UNCHANGED <<database, oldSystem, input, booking, target, selected,
                   atArrival>>

(* Mutant: > instead of >= TrackStatus.Process.                            *)
UnlockedInProcess(r) == booking[r].track_status <= Process

Unlocked(r) == booking[r].track_status < Process

RefuseLocked(r) ==
    /\ pc[r] = "check"
    /\ input[r].kind = "update"
    /\ IsOwner(r)
    /\ ~Unlocked(r)
    /\ Respond(r, "CANNOT_UPDATE_LUGGAGES")
    /\ UNCHANGED <<database, oldSystem, input, booking, target, selected,
                   atArrival>>

Send(calls) ==
    /\ wire' = wire \cup calls
    /\ answer' = [c \in Call |-> IF c \in calls THEN "waiting" ELSE answer[c]]
    /\ UNCHANGED stored

(* Mutant: await a success, not the end of the call.                       *)
AwaitingSuccess(calls) == \E c \in calls : answer[c] # "ok"

Waiting(calls) == \E c \in calls : answer[c] = "waiting"

SendLuggage(r) ==
    /\ pc[r] = "check"
    /\ input[r].kind = "update"
    /\ IsOwner(r)
    /\ Unlocked(r)
    /\ Send({LuggageCall(r)})
    /\ GoTo(r, "luggage")
    /\ UNCHANGED <<database, input, booking, target, selected, reply,
                   atArrival>>

(* updateImg is called whatever became of updateLuggages; Promise.all      *)
(* sends every picture before any of them is answered.                     *)
SendPictures(r) ==
    /\ pc[r] = "luggage"
    /\ ~Waiting({LuggageCall(r)})
    /\ Send(PictureCalls(r))
    /\ GoTo(r, "images")
    /\ UNCHANGED <<database, input, booking, target, selected, reply,
                   atArrival>>

(* Mutant: a call without answer is taken for a refused one.               *)
LostIsRefused(r) ==
    IF answer[LuggageCall(r)] = "ok" THEN "SUCCESS" ELSE "UPDATE_LUGGAGES_FAILED"

LuggageStatus(r) ==
    CASE answer[LuggageCall(r)] = "ok" -> "SUCCESS"
      [] answer[LuggageCall(r)] = "refused" -> "UPDATE_LUGGAGES_FAILED"
      [] OTHER -> "UNKNOWNERROR"

(* Mutant: one stored picture is enough.                                   *)
SomePictureStatus(r) ==
    IF \E c \in PictureCalls(r) : answer[c] = "ok"
    THEN "SUCCESS" ELSE "UPDATE_IMGE_LUGGAGES_FAILED"

PictureStatus(r) ==
    IF \A c \in PictureCalls(r) : answer[c] = "ok"
    THEN "SUCCESS" ELSE "UPDATE_IMGE_LUGGAGES_FAILED"

(* Mutant: the two checks in the other order.                              *)
PicturesFirst(r) ==
    /\ pc[r] = "images"
    /\ ~Waiting(PictureCalls(r))
    /\ Respond(r, IF PictureStatus(r) # "SUCCESS"
                  THEN PictureStatus(r) ELSE LuggageStatus(r))
    /\ UNCHANGED <<database, oldSystem, input, booking, target, selected,
                   atArrival>>

FinishUpdate(r) ==
    /\ pc[r] = "images"
    /\ ~Waiting(PictureCalls(r))
    /\ Respond(r, IF LuggageStatus(r) # "SUCCESS"
                  THEN LuggageStatus(r) ELSE PictureStatus(r))
    /\ UNCHANGED <<database, oldSystem, input, booking, target, selected,
                   atArrival>>

DecideCancel(r) ==
    /\ pc[r] = "check"
    /\ input[r].kind = "cancel"
    /\ IsOwner(r)
    /\ target' = [target EXCEPT ![r] = CancelStatus(Order(r))]
    /\ GoTo(r, "select")
    /\ UNCHANGED <<database, oldSystem, input, booking, selected, reply,
                   atArrival>>

(* repo.save reads the row again, before it opens its transaction.         *)
SaveSelect(r) ==
    /\ pc[r] = "select"
    /\ selected' = [selected EXCEPT ![r] = orders[Order(r)]]
    /\ GoTo(r, "save")
    /\ UNCHANGED <<database, oldSystem, input, booking, target, reply,
                   atArrival>>

(* The UPDATE of repo.save; the connection may fail after its commit.      *)
SaveUpdate(r) ==
    /\ pc[r] = "save"
    /\ orders' = [orders EXCEPT ![Order(r)] =
                      SavedRow(Entity(r), selected[r], @)]
    /\ \E status \in {"SUCCESS", "exception"} : Respond(r, status)
    /\ UNCHANGED <<cutoffPast, oldSystem, input, booking, target, selected,
                   atArrival>>

(* A database statement is rejected: the handler's await throws.           *)
DatabaseFails(r) ==
    /\ pc[r] \in {"find", "select", "save"}
    /\ Respond(r, "exception")
    /\ UNCHANGED <<database, oldSystem, input, booking, target, selected,
                   atArrival>>

-----------------------------------------------------------------------------
(* The old system carries out a call; its answer may still be lost, and    *)
(* comes too late when the connection is already broken.                   *)
CarryOut(c) ==
    /\ c \in wire
    /\ wire' = wire \ {c}
    /\ stored' = stored \cup {c}
    /\ IF answer[c] = "waiting"
       THEN \E a \in {"ok", "lost"} : answer' = [answer EXCEPT ![c] = a]
       ELSE UNCHANGED answer
    /\ UNCHANGED <<database, pc, input, booking, target, selected, reply,
                   atArrival>>

(* It answers status false and stores nothing.                             *)
Refuse(c) ==
    /\ c \in wire
    /\ wire' = wire \ {c}
    /\ answer' = IF answer[c] = "waiting"
                 THEN [answer EXCEPT ![c] = "refused"] ELSE answer
    /\ UNCHANGED <<stored, database, pc, input, booking, target, selected,
                   reply, atArrival>>

(* The connection breaks while the call is on its way: the handler catches *)
(* the error, the old system may or may not still receive the call.        *)
Break(c) ==
    /\ answer[c] = "waiting"
    /\ answer' = [answer EXCEPT ![c] = "lost"]
    /\ UNCHANGED <<wire, stored, database, pc, input, booking, target,
                   selected, reply, atArrival>>

(* The staff of the old system moves the luggage of an order along.        *)
StaffTracks(o) ==
    /\ orders[o].track_status < Completed
    /\ orders' = [orders EXCEPT ![o].track_status = @ + 1]
    /\ UNCHANGED <<cutoffPast, pc, input, booking, target, selected,
                   oldSystem, reply, atArrival>>

(* It approves, assigns, processes and completes orders in force.          *)
StaffProgresses(o) ==
    /\ orders[o].order_status \in 0 .. 3
    /\ orders' = [orders EXCEPT ![o].order_status = @ + 1]
    /\ UNCHANGED <<cutoffPast, pc, input, booking, target, selected,
                   oldSystem, reply, atArrival>>

CutoffPasses(o) ==
    /\ o \notin cutoffPast
    /\ cutoffPast' = cutoffPast \cup {o}
    /\ UNCHANGED <<orders, pc, input, booking, target, selected, oldSystem,
                   reply, atArrival>>

-----------------------------------------------------------------------------
Handler(r) ==
    \/ FindOne(r) \/ ThrowNoAgent(r) \/ RefuseStranger(r)
    \/ RefuseLocked(r) \/ SendLuggage(r) \/ SendPictures(r)
    \/ FinishUpdate(r) \/ DecideCancel(r) \/ SaveSelect(r)
    \/ SaveUpdate(r) \/ DatabaseFails(r)

Transport(c) == CarryOut(c) \/ Refuse(c) \/ Break(c)

Staff(o) == StaffTracks(o) \/ StaffProgresses(o)

Next ==
    \/ \E r \in Requests : Arrive(r) \/ Handler(r)
    \/ \E c \in Call : Transport(c)
    \/ \E o \in Orders : Staff(o) \/ CutoffPasses(o)

Spec == Init /\ [][Next]_vars

(* Node runs every continuation whose await has settled, and the database  *)
(* answers or fails.  Nothing is assumed of the calls to the old system:   *)
(* axios is given no timeout, so one may stay open for ever.               *)
Fairness == \A r \in Requests : WF_vars(Handler(r))

FairSpec == Spec /\ Fairness

-----------------------------------------------------------------------------
TypeOK ==
    /\ orders \in [Orders -> Row]
    /\ cutoffPast \subseteq Orders
    /\ pc \in [Requests -> PC]
    /\ input \in [Requests -> Input]
    /\ booking \in [Requests -> Row]
    /\ target \in [Requests -> BookingStatus]
    /\ selected \in [Requests -> Row]
    /\ wire \subseteq Call
    /\ answer \in [Call -> Answer]
    /\ stored \subseteq Call
    /\ reply \in [Requests -> Reply]
    /\ atArrival \in [Requests -> History]

(* An update answered with success has had its luggage list and every one  *)
(* of its pictures carried out by the old system.                          *)
SuccessfulUpdateIsStored ==
    \A r \in Requests :
        input[r].kind = "update" /\ reply[r] = "SUCCESS"
            => PictureCalls(r) \cup {LuggageCall(r)} \subseteq stored

(* An update turned down before it was sent on (401, or one of the 400s of *)
(* the checks at the top) leaves nothing behind, neither in the old system *)
(* nor on its way there; one answered UPDATE_LUGGAGES_FAILED has not had   *)
(* its luggage list stored, now or later.                                  *)
RefusedUpdateLeavesNothing ==
    \A r \in Requests :
        /\ reply[r] \in {"BOOKING_NOTFOUND", "UNAUTHORIZED",
                         "CANNOT_UPDATE_LUGGAGES"}
               => \A c \in wire \cup stored : c.req # r
        /\ reply[r] = "UPDATE_LUGGAGES_FAILED"
               => LuggageCall(r) \notin wire \cup stored

(* Answered that (only) the pictures failed, an agent may take the luggage *)
(* list as stored; that answer is the code 502 of a server error.          *)
OnlyPicturesFailed ==
    \A r \in Requests :
        reply[r] = "UPDATE_IMGE_LUGGAGES_FAILED"
            => LuggageCall(r) \in stored

(* Once an agent has been told that its order is cancelled the order is    *)
(* cancelled for good, whatever other requests and the staff do meanwhile. *)
CancelledForGood ==
    \A r \in Requests :
        input[r].kind = "cancel" /\ reply[r] = "SUCCESS"
            => Cancelled(orders[Order(r)].order_status)

(* An agent's cancellation of its own order o that is about to be saved.   *)
Saving(r, o) ==
    /\ pc[r] = "save"
    /\ input[r].kind = "cancel"
    /\ Order(r) = o
    /\ IsOwner(r)

(* An order, cancelled before or not, becomes a refunded one only by its   *)
(* own agent's cancellation, and only if that came before the refund limit *)
(* of 07:00 on the drop-off day.                                           *)
RefundOnlyInTime ==
    [][\A o \in Orders :
          /\ orders[o].order_status # Refunded
          /\ orders'[o].order_status = Refunded
          => \E r \in Requests : Saving(r, o) /\ ~atArrival[r].late]_vars

(* It becomes a charged one only once that limit has passed, and again     *)
(* only by its own agent's cancellation.                                   *)
ChargeOnlyWhenLate ==
    [][\A o \in Orders :
          /\ orders[o].order_status # Charged
          /\ orders'[o].order_status = Charged
          => o \in cutoffPast /\ \E r \in Requests : Saving(r, o)]_vars

(* A cancellation that found the row of order o before it was locked, and  *)
(* whose save then saw that the tracking had moved since.                  *)
StaleCancel(o) ==
    \E q \in Requests :
        /\ input[q].kind = "cancel"
        /\ Order(q) = o
        /\ pc[q] = Done
        /\ booking[q].track_status < Process
        /\ selected[q].track_status # booking[q].track_status

(* The luggage of an order in Process is locked: an update that comes      *)
(* later gets no call through to the old system, unless a cancellation     *)
(* wrote back the tracking it had found before the staff moved it.         *)
LockedOrderKeepsLuggage ==
    \A r \in Requests :
        atArrival[r].locked /\ (\E c \in wire \cup stored : c.req = r)
            => StaleCancel(Order(r))

(* The staff's tracking is undone only by a cancellation, and only if some *)
(* change (the staff's, or an undoing by yet another cancellation) fell    *)
(* between that request's findOne and the SELECT of its save.              *)
TrackingOnlyLostInWindow ==
    [][\A o \in Orders :
          orders'[o].track_status < orders[o].track_status =>
              \E r \in Requests :
                  /\ pc[r] = "save"
                  /\ Order(r) = o
                  /\ booking[r].track_status = orders'[o].track_status
                  /\ selected[r].track_status # booking[r].track_status]_vars

(* A call of r that its handler awaits is still open.                      *)
HasOpenCall(r) ==
    \/ pc[r] = "luggage" /\ answer[LuggageCall(r)] = "waiting"
    \/ pc[r] = "images" /\ \E c \in PictureCalls(r) : answer[c] = "waiting"

(* Every request that comes in is answered, whatever becomes of its calls  *)
(* (lost, refused, some of the pictures stored) and whatever other         *)
(* requests do, unless one of its own calls stays open for ever.           *)
OnlyOpenCallsHoldRequests ==
    \A r \in Requests :
        (pc[r] # Idle) ~> (reply[r] # "pending" \/ []HasOpenCall(r))
=============================================================================
