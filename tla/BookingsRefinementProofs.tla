----------------------- MODULE BookingsRefinementProofs -----------------------
(***************************************************************************)
(* Proof that Bookings implements BookingContract, for every number of     *)
(* orders, agents, requests and pictures.                                  *)
(***************************************************************************)
EXTENDS BookingsRefinement, BookingsProofs

(* Calls are made by an update, for the owner of an order that exists; and *)
(* a handler that waits for calls has made them.                           *)
CallsMade ==
    /\ \A c \in Call : answer[c] # "none" =>
           /\ c \in Made(c.req)
           /\ IsOwner(c.req)
           /\ Order(c.req) \in Orders
    /\ \A r \in Requests :
           /\ pc[r] = "luggage" => answer[LuggageCall(r)] # "none"
           /\ pc[r] = "images" => \A c \in Made(r) : answer[c] # "none"

LEMMA MadeAre ==
    ASSUME TypeOK, NEW r \in Requests
    PROVE  /\ Made(r) \subseteq {c \in Call : c.req = r}
           /\ Contract!Calls(r) = Made(r)
           /\ input[r].kind = "update" =>
                  /\ Made(r) = PictureCalls(r) \cup {LuggageCall(r)}
                  /\ LuggageCall(r) = [req |-> r, item |-> Luggage]
           /\ input[r].kind = "cancel" => Made(r) = {}
<1>0. /\ PictureCalls(r) \subseteq Call /\ LuggageCall(r) \in Call
      /\ \A c \in PictureCalls(r) \cup {LuggageCall(r)} : c.req = r
    BY CallsOfRequest DEF PictureCalls, LuggageCall
<1>1. Made(r) \subseteq {c \in Call : c.req = r}
    BY <1>0 DEF Made
<1>2. Contract!Calls(r) = Made(r)
    BY DEF Contract!Calls, Contract!CallsOf, Made, PictureCalls, LuggageCall
<1> QED BY <1>1, <1>2 DEF Made, LuggageCall

LEMMA CallsMadeStep ==
    ASSUME Typed, Updating, CallInv, CallsMade, [Next]_vars
    PROVE  CallsMade'
<1> USE DEF Typed
<1>0. /\ input' = input
      /\ \A r \in Requests : /\ Made(r)' = Made(r)
                            /\ IsOwner(r)' = IsOwner(r)
                            /\ Order(r)' = Order(r)
                            /\ LuggageCall(r)' = LuggageCall(r)
    BY Frame DEF Made, PictureCalls, LuggageCall, IsOwner, Order
<1>1. ASSUME NEW c \in Call, answer'[c] # "none"
      PROVE  /\ c \in Made(c.req)
             /\ IsOwner(c.req)
             /\ Order(c.req) \in Orders
    <2>1. CASE answer[c] # "none"
        BY <2>1 DEF CallsMade
    <2>2. ASSUME NEW r \in Requests, SendLuggage(r) \/ SendPictures(r),
                 c \in SentBy(r)
          PROVE  /\ c \in Made(c.req)
                 /\ IsOwner(c.req)
                 /\ Order(c.req) \in Orders
        <3>1. c.req = r
            BY <2>2, SentIsFresh DEF CallInv
        <3>2. IsOwner(r) /\ input[r].kind = "update" /\ Order(r) \in Orders
            BY <2>2 DEF SendLuggage, SendPictures, Updating, FoundOrder,
                        PastFindOne
        <3> QED BY <2>2, <3>1, <3>2, MadeAre DEF SentBy
    <2>3. CASE answer[c] = "none"
        <3>1. ~UNCHANGED oldSystem
            BY <1>1, <2>3 DEF oldSystem
        <3>2. ASSUME NEW d \in Call, Transport(d) PROVE FALSE
            BY <1>1, <2>3, <3>2 DEF Transport, CarryOut, Refuse, Break,
                CallInv, AnswersAreTrue, CallState, TypeOK
        <3>3. ASSUME NEW r \in Requests, Send(SentBy(r)) PROVE c \in SentBy(r)
            BY <1>1, <2>3, <3>3 DEF Send
        <3> QED BY <2>2, <3>1, <3>2, <3>3, CallStep
    <2> QED BY <2>1, <2>3
<1>2. ASSUME NEW c \in Call, answer[c] # "none" PROVE answer'[c] # "none"
    <2>1. CASE UNCHANGED oldSystem
        BY <1>2, <2>1 DEF oldSystem
    <2>2. ASSUME NEW d \in Call, Transport(d) PROVE answer'[c] # "none"
        BY <1>2, <2>2 DEF Transport, CarryOut, Refuse, Break, TypeOK
    <2>3. ASSUME NEW r \in Requests, Send(SentBy(r)) PROVE answer'[c] # "none"
        BY <1>2, <2>3 DEF Send
    <2> QED BY <2>1, <2>2, <2>3, CallStep
<1>3. ASSUME NEW r \in Requests
      PROVE  /\ pc'[r] = "luggage" => answer'[LuggageCall(r)] # "none"
             /\ pc'[r] = "images" => \A c \in Made(r) : answer'[c] # "none"
    <2> USE DEF TypeOK
    <2>1. CASE pc'[r] = pc[r]
        BY <1>2, <2>1, MadeAre, CallsOfRequest DEF CallsMade
    <2>2. CASE SendLuggage(r)
        BY <2>2, CallsOfRequest DEF SendLuggage, Send, GoTo
    <2>3. CASE SendPictures(r)
        <3>1. pc[r] = "luggage" /\ pc'[r] = "images" /\ Send(PictureCalls(r))
            BY <2>3 DEF SendPictures, GoTo
        <3>2. Made(r) = PictureCalls(r) \cup {LuggageCall(r)}
            BY <3>1, MadeAre DEF Updating
        <3>3. answer'[LuggageCall(r)] # "none"
            BY <3>1, <1>2, CallsOfRequest DEF CallsMade
        <3>4. \A c \in PictureCalls(r) : answer'[c] # "none"
            BY <3>1, CallsOfRequest DEF Send
        <3> QED BY <3>1, <3>2, <3>3, <3>4
    <2>4. ASSUME NEW q \in Requests, Arrive(q)
          PROVE  pc'[r] = pc[r] \/ pc'[r] \notin {"luggage", "images"}
        BY <2>4 DEF Arrive, Respond, GoTo, Done
    <2>5. ASSUME NEW q \in Requests, Handler(q),
                 ~SendLuggage(r), ~SendPictures(r)
          PROVE  pc'[r] = pc[r] \/ pc'[r] \notin {"luggage", "images"}
        BY <2>5 DEF Handler, FindOne, ThrowNoAgent, RefuseStranger,
            RefuseLocked, SendLuggage, SendPictures, FinishUpdate,
            DecideCancel, SaveSelect, SaveUpdate, DatabaseFails, Respond,
            GoTo, Done
    <2>6. ASSUME \/ \E c \in Call : Transport(c)
                 \/ \E o \in Orders : Staff(o) \/ CutoffPasses(o)
                 \/ UNCHANGED vars
          PROVE  pc'[r] = pc[r]
        BY <2>6 DEF Transport, CarryOut, Refuse, Break, Staff, StaffTracks,
                    StaffProgresses, CutoffPasses, vars
    <2> QED BY <2>1, <2>2, <2>3, <2>4, <2>5, <2>6 DEF Next
<1> QED BY <1>0, <1>1, <1>3 DEF CallsMade, Call

ContractInv == Typed /\ CancelInv /\ CallInv /\ Answered /\ CallsMade

-----------------------------------------------------------------------------
(* The contract's view of the state.                                       *)
StatusView == [o \in Orders |-> orders[o].order_status]
TimelyView == {r \in CameIn : ~atArrival[r].late}
FateView == [c \in Call |-> FateOf(c)]

(* What leaves a call's fate as it is: the old system's part of it stays,  *)
(* and its handler does not end with the call still to come.               *)
LEMMA FateSame ==
    ASSUME TypeOK, input' = input, NEW c \in Call,
           c \in stored' <=> c \in stored,
           c \in wire' <=> c \in wire,
           answer'[c] = answer[c],
           \/ pc'[c.req] = Done <=> pc[c.req] = Done
           \/ answer[c] # "none"
           \/ c \notin Made(c.req)
    PROVE  FateOf(c)' = FateOf(c)
<1>1. Made(c.req)' = Made(c.req)
    BY DEF Made, PictureCalls, LuggageCall
<1> QED BY <1>1 DEF FateOf, ToCome

(* A handler that ends before it has made a call voids all it would have   *)
(* made.                                                                   *)
LEMMA EndsVoid ==
    ASSUME ContractInv, NEW r \in Requests,
           pc[r] \in {Idle, "find", "check", "select", "save"},
           pc'[r] = Done,
           \A q \in Requests \ {r} : pc'[q] = pc[q],
           UNCHANGED <<oldSystem, input>>
    PROVE  Contract!Void(r)
<1> USE DEF ContractInv, Typed, oldSystem
<1>0. \A c \in Call : c.req \in Requests
    BY DEF Call
<1>1. ASSUME NEW c \in Call, c \in Made(r)
      PROVE  FateOf(c) = "open" /\ FateOf(c)' = "void"
    <2>1. c.req = r
        BY <1>1, MadeAre
    <2>2. answer[c] = "none" /\ c \notin wire \cup stored
        BY <2>1 DEF CallInv, FreshCalls, AnswersAreTrue, CallState
    <2> QED BY <1>1, <2>1, <2>2 DEF FateOf, ToCome, Idle, Done
<1>2. ASSUME NEW c \in Call, c \notin Made(r)
      PROVE  FateOf(c)' = FateOf(c)
    BY <1>0, <1>2, FateSame
<1>3. Contract!Calls(r) = Made(r) /\ Made(r) \subseteq Call
    BY MadeAre
<1>4. Contract!Call = Call
    BY DEF Contract!Call, Contract!Item, Call, Item
<1>5. /\ FateView' = [c \in Call |-> IF c \in Made(r) THEN "void"
                                    ELSE FateView[c]]
      /\ \A c \in Made(r) : FateView[c] = "open"
    BY <1>1, <1>2, <1>3 DEF FateView
<1> QED BY <1>3, <1>4, <1>5 DEF Contract!Void, FateView

(* The steps of a handler that neither send nor end leave every fate.      *)
LEMMA FatesStay ==
    ASSUME ContractInv,
           \A q \in Requests : pc'[q] = Done <=> pc[q] = Done,
           UNCHANGED <<oldSystem, input>>
    PROVE  UNCHANGED FateView
<1> USE DEF ContractInv, Typed, oldSystem
<1>1. \A c \in Call : c.req \in Requests
    BY DEF Call
<1>2. \A c \in Call : FateOf(c)' = FateOf(c)
    BY <1>1, FateSame
<1> QED BY <1>2 DEF FateView

-----------------------------------------------------------------------------
LEMMA RefinesArrive ==
    ASSUME ContractInv, NEW r \in Requests, Arrive(r)
    PROVE  Contract!Ask(r) \/ Contract!AskEmpty(r)
<1> USE DEF ContractInv, Typed, TypeOK, database, oldSystem, GoTo, Respond,
            Idle, Done
<1>1. Contract!ComesIn(r)
    <2>1. /\ r \notin CameIn
          /\ CameIn' = CameIn \cup {r}
        BY DEF Arrive, CameIn
    <2>2. TimelyView' = IF input[r].kind = "cancel"
                           /\ input[r].order \in cutoffPast
                        THEN TimelyView ELSE TimelyView \cup {r}
        <3>1. /\ atArrival'[r].late <=> /\ input[r].kind = "cancel"
                                       /\ input[r].order \in cutoffPast
              /\ \A q \in Requests \ {r} : atArrival'[q] = atArrival[q]
            BY DEF Arrive, Order
        <3> QED BY <2>1, <3>1 DEF TimelyView, CameIn
    <2>3. UNCHANGED <<orders, cutoffPast, input>>
        BY DEF Arrive
    <2> QED BY <2>1, <2>2, <2>3 DEF Contract!ComesIn, TimelyView
<1>2. UNCHANGED <<oldSystem, input>>
    BY DEF Arrive
<1>3. CASE input[r].kind = "update" /\ HasZero(input[r])
    <2>1. Contract!Empty(r)
        BY <1>3 DEF Contract!Empty, HasZero, ToNumber,
                     Contract!HasZero, Contract!ToNumber
    <2>2. Contract!Void(r)
        BY <1>2, <1>3, EndsVoid DEF Arrive
    <2>3. Contract!Answer(r, "UPDATE_LUGGAGES_FAILED")
        BY <1>3 DEF Arrive, Contract!Answer
    <2> QED BY <1>1, <2>1, <2>2, <2>3 DEF Contract!AskEmpty
<1>4. CASE ~(input[r].kind = "update" /\ HasZero(input[r]))
    <2>1. ~Contract!Empty(r)
        BY <1>4 DEF Contract!Empty, HasZero, ToNumber,
                     Contract!HasZero, Contract!ToNumber
    <2>2. UNCHANGED FateView /\ UNCHANGED reply
        BY <1>2, <1>4, FatesStay DEF Arrive
    <2> QED BY <1>1, <2>1, <2>2 DEF Contract!Ask, FateView
<1> QED BY <1>3, <1>4

(* Where the contract's guards come from.                                  *)
LEMMA Views ==
    ASSUME ContractInv, NEW r \in Requests
    PROVE  /\ Contract!Known(r) <=> Order(r) \in Orders
           /\ Contract!Own(r) <=> Order(r) \in Orders /\ IsOwner(r)
           /\ pc[r] \notin {Idle, Done} => Contract!Waits(r)
           /\ IsOwner(r) /\ Order(r) \in Orders => input[r].agent # NoAgent
<1>1. Contract!Known(r) <=> Order(r) \in Orders
    BY DEF Contract!Known, Order
<1>2. Contract!Own(r) <=> Order(r) \in Orders /\ IsOwner(r)
    BY <1>1 DEF Contract!Own, IsOwner, Order
<1>3. pc[r] \notin {Idle, Done} => Contract!Waits(r)
    BY DEF Contract!Waits, CameIn, ContractInv, Answered
<1>4. IsOwner(r) /\ Order(r) \in Orders => input[r].agent # NoAgent
    BY OwnerAssumption, NamesAssumption DEF IsOwner
<1> QED BY <1>1, <1>2, <1>3, <1>4

(* What a step leaves that touches neither order table nor limits.         *)
LEMMA OrdersStay ==
    ASSUME ContractInv, UNCHANGED <<database, input, atArrival>>,
           \A q \in Requests : pc'[q] = Idle <=> pc[q] = Idle
    PROVE  /\ UNCHANGED <<StatusView, cutoffPast, CameIn, TimelyView>>
BY DEF database, StatusView, CameIn, TimelyView

LEMMA RefinesRefuse ==
    ASSUME ContractInv, NEW r \in Requests,
           \/ FindOne(r) /\ Order(r) \notin Orders
           \/ ThrowNoAgent(r) \/ RefuseStranger(r) \/ RefuseLocked(r)
           \/ DatabaseFails(r)
    PROVE  Contract!Refuse(r)
<1> USE DEF ContractInv, Typed
<1>1. /\ pc[r] \in {"find", "check", "select", "save"}
      /\ pc'[r] = Done
      /\ \A q \in Requests \ {r} : pc'[q] = pc[q]
      /\ UNCHANGED <<database, oldSystem, input, atArrival>>
    BY DEF FindOne, ThrowNoAgent, RefuseStranger, RefuseLocked,
           DatabaseFails, Respond, GoTo, TypeOK
<1>2. Contract!Void(r)
    BY <1>1, EndsVoid
<1>3. UNCHANGED <<StatusView, cutoffPast, CameIn, TimelyView>>
    BY <1>1, OrdersStay DEF Idle, Done
<1>4. \E said \in Contract!Reasons(r) \cup {"exception"} :
          Contract!Answer(r, said)
    <2>1. CASE FindOne(r) /\ Order(r) \notin Orders
        BY <2>1, Views
        DEF FindOne, Respond, Contract!Reasons, Contract!Answer
    <2>2. CASE ThrowNoAgent(r) \/ DatabaseFails(r)
        BY <2>2 DEF ThrowNoAgent, DatabaseFails, Respond, Contract!Answer
    <2>3. CASE RefuseStranger(r)
        <3>1. Order(r) \in Orders /\ input[r].agent # NoAgent /\ ~IsOwner(r)
            BY <2>3, NamesAssumption
            DEF RefuseStranger, FoundOrder, PastFindOne
        <3> QED BY <2>3, <3>1, Views
                DEF RefuseStranger, Respond, Contract!Reasons, Contract!Answer
    <2>4. CASE RefuseLocked(r)
        <3>1. Order(r) \in Orders /\ IsOwner(r) /\ input[r].kind = "update"
            BY <2>4 DEF RefuseLocked, FoundOrder, PastFindOne
        <3> QED BY <2>4, <3>1, Views
                DEF RefuseLocked, Respond, Contract!Reasons, Contract!Answer
    <2> QED BY <2>1, <2>2, <2>3, <2>4
<1>5. Contract!Waits(r)
    BY <1>1, Views DEF Idle, Done
<1> QED BY <1>1, <1>2, <1>3, <1>4, <1>5
        DEF Contract!Refuse, StatusView, TimelyView

(* The end of an update: the answer fits the fates, and these stay, for    *)
(* every call has been made by then.                                       *)
LEMMA RefinesFinish ==
    ASSUME ContractInv, NEW r \in Requests, FinishUpdate(r)
    PROVE  Contract!FinishUpdate(r)
<1> USE DEF ContractInv, Typed, CallInv
<1>1. /\ pc[r] = "images" /\ pc'[r] = Done
      /\ \A q \in Requests \ {r} : pc'[q] = pc[q]
      /\ UNCHANGED <<database, oldSystem, input, atArrival>>
    BY DEF FinishUpdate, Respond, GoTo, TypeOK
<1>2. input[r].kind = "update" /\ IsOwner(r) /\ Order(r) \in Orders
    BY <1>1 DEF CancelInv, Updating, FoundOrder, PastFindOne
<1>3. UNCHANGED FateView
    <2>1. ASSUME NEW c \in Call PROVE FateOf(c)' = FateOf(c)
        <3>1. \/ pc'[c.req] = Done <=> pc[c.req] = Done
              \/ answer[c] # "none"
              \/ c \notin Made(c.req)
            BY <1>1 DEF CallsMade, Call
        <3> QED BY <1>1, <3>1, FateSame DEF oldSystem
    <2> QED BY <2>1 DEF FateView
<1>4. UNCHANGED <<StatusView, cutoffPast, CameIn, TimelyView>>
    BY <1>1, OrdersStay DEF Idle, Done
<1>5. /\ Contract!Calls(r) = Made(r) /\ Made(r) \subseteq Call
      /\ Made(r) = PictureCalls(r) \cup {LuggageCall(r)}
      /\ LuggageCall(r) = [req |-> r, item |-> Luggage]
    BY <1>2, MadeAre
<1>6. \A c \in Call : /\ c \in stored => FateView[c] = "kept"
                      /\ answer[c] # "none" /\ c \notin wire \cup stored
                             => FateView[c] = "void"
    BY DEF FateView, FateOf, ToCome
<1>7. /\ reply'[r] \in DefaultStatus
      /\ reply'[r] \in {"SUCCESS", "UPDATE_LUGGAGES_FAILED", "UNKNOWNERROR",
                        "UPDATE_IMGE_LUGGAGES_FAILED"}
      /\ reply' = [reply EXCEPT ![r] = reply'[r]]
    BY DEF FinishUpdate, Respond, LuggageStatus, PictureStatus, TypeOK,
           DefaultStatus
<1>8. Contract!Fits(r, reply'[r])
    <2>1. CASE reply'[r] = "SUCCESS"
        BY <1>5, <1>6, <2>1, FinishTells DEF Contract!Fits, FateView
    <2>2. CASE reply'[r] = "UPDATE_IMGE_LUGGAGES_FAILED"
        BY <1>5, <1>6, <2>2, FinishTells DEF Contract!Fits, FateView
    <2>3. CASE reply'[r] = "UPDATE_LUGGAGES_FAILED"
        BY <1>1, <1>5, <1>6, <2>3, FinishTells
        DEF Contract!Fits, FateView, CallsMade
    <2>4. CASE reply'[r] = "UNKNOWNERROR"
        BY <2>4 DEF Contract!Fits
    <2> QED BY <1>7, <2>1, <2>2, <2>3, <2>4
<1>9. \E said \in DefaultStatus :
          Contract!Fits(r, said) /\ Contract!Answer(r, said)
    BY <1>7, <1>8 DEF Contract!Answer
<1>10. Contract!Waits(r) /\ Contract!Own(r)
    BY <1>1, <1>2, Views DEF Idle, Done
<1>11. Contract!DefaultStatus = DefaultStatus
    BY DEF Contract!DefaultStatus, DefaultStatus
<1> QED BY <1>1, <1>2, <1>3, <1>4, <1>9, <1>10, <1>11
        DEF Contract!FinishUpdate, FateView, StatusView, TimelyView

(* The UPDATE of a cancellation: what it makes of its row is an outcome    *)
(* the contract allows.                                                    *)
LEMMA RefinesSave ==
    ASSUME ContractInv, NEW r \in Requests, SaveUpdate(r)
    PROVE  Contract!Cancel(r)
<1> USE DEF ContractInv, Typed, CancelInv
<1> DEFINE s == orders'[Order(r)].order_status
<1>1. /\ pc[r] = "save" /\ pc'[r] = Done
      /\ \A q \in Requests \ {r} : pc'[q] = pc[q]
      /\ UNCHANGED <<cutoffPast, oldSystem, input, atArrival>>
      /\ reply'[r] \in {"SUCCESS", "exception"}
      /\ reply' = [reply EXCEPT ![r] = reply'[r]]
    BY DEF SaveUpdate, Respond, GoTo, TypeOK
<1>2. /\ input[r].kind = "cancel" /\ IsOwner(r) /\ Order(r) \in Orders
      /\ target[r] \in {Refunded, Charged}
    BY <1>1 DEF Decided, FoundOrder, PastFindOne, Cancelled
<1>3. UNCHANGED FateView
    <2>1. ASSUME NEW c \in Call PROVE FateOf(c)' = FateOf(c)
        <3>1. \/ pc'[c.req] = Done <=> pc[c.req] = Done
              \/ c \notin Made(c.req)
            BY <1>1, <1>2, MadeAre DEF Call
        <3> QED BY <1>1, <3>1, FateSame DEF oldSystem
    <2> QED BY <2>1 DEF FateView
<1>4. UNCHANGED <<CameIn, TimelyView>>
    BY <1>1 DEF CameIn, TimelyView, Idle, Done
<1>5. StatusView' = [StatusView EXCEPT ![Order(r)] = s]
    <2>1. \A o \in Orders \ {Order(r)} : orders'[o] = orders[o]
        BY DEF SaveUpdate, TypeOK
    <2> QED BY <1>2, <2>1 DEF StatusView
<1>6. s \in Contract!Outcomes(r)
    <2>1. s \in BookingStatus /\ Order(r) = input[r].order
        BY <1>2, HandlerTypeOK DEF Handler, TypeOK, Row, Order
    <2>2. s = Column(target[r], selected[r].order_status,
                     orders[Order(r)].order_status)
        BY SavedRowIs
    <2>3. \/ s = Refunded /\ r \in TimelyView
          \/ s = Charged /\ Order(r) \in cutoffPast
          \/ s = orders[Order(r)].order_status /\ Cancelled(s)
        <3>1. CASE s = target[r]
            BY <1>1, <1>2, <3>1 DEF Decided, TimelyView, CameIn, Idle
        <3>2. CASE s # target[r]
            BY <1>1, <1>2, <2>2, <3>2
            DEF Column, SelectedIsCancelled, Cancelled
        <3> QED BY <3>1, <3>2
    <2>4. \A t : Contract!Cancelled(t) <=> Cancelled(t)
        BY DEF Contract!Cancelled, Cancelled, Contract!Refunded, Refunded,
               Contract!Charged, Charged
    <2>5. /\ Contract!Refunded = Refunded /\ Contract!Charged = Charged
          /\ Contract!BookingStatus = BookingStatus
        BY DEF Contract!Refunded, Refunded, Contract!Charged, Charged,
               Contract!BookingStatus, BookingStatus
    <2>6. StatusView[Order(r)] = orders[Order(r)].order_status
        BY <1>2 DEF StatusView
    <2> QED BY <2>1, <2>3, <2>4, <2>5, <2>6
            DEF Contract!Outcomes, StatusView, TimelyView
<1>7. \E t \in Contract!Outcomes(r) :
          StatusView' = [StatusView EXCEPT ![input[r].order] = t]
    BY <1>5, <1>6 DEF Order
<1>8. \E said \in {"SUCCESS", "exception"} : Contract!Answer(r, said)
    BY <1>1 DEF Contract!Answer
<1>9. Contract!Waits(r) /\ Contract!Own(r)
    BY <1>1, <1>2, Views DEF Idle, Done
<1> QED BY <1>1, <1>2, <1>3, <1>4, <1>7, <1>8, <1>9
        DEF Contract!Cancel, StatusView, TimelyView, FateView

(* The other steps of a handler are none of the contract's.                *)
LEMMA HandlerStutters ==
    ASSUME ContractInv, NEW r \in Requests,
           \/ FindOne(r) /\ Order(r) \in Orders
           \/ SendLuggage(r) \/ SendPictures(r)
           \/ DecideCancel(r) \/ SaveSelect(r)
    PROVE  UNCHANGED Contract!vars
<1> USE DEF ContractInv, Typed, CallInv
<1>1. /\ pc[r] \notin {Idle, Done} /\ pc'[r] \notin {Idle, Done}
      /\ \A q \in Requests \ {r} : pc'[q] = pc[q]
      /\ UNCHANGED <<database, input, atArrival, reply>>
    BY DEF FindOne, SendLuggage, SendPictures, DecideCancel, SaveSelect,
           GoTo, TypeOK, Idle, Done
<1>2. UNCHANGED <<StatusView, cutoffPast, CameIn, TimelyView>>
    BY <1>1, OrdersStay
<1>3. UNCHANGED FateView
    <2>1. CASE SendLuggage(r) \/ SendPictures(r)
        <3>1. Send(SentBy(r))
            BY <2>1 DEF SendLuggage, SendPictures, SentBy
        <3>2. ASSUME NEW c \in Call, c \in SentBy(r)
              PROVE  FateOf(c) = "open" /\ FateOf(c)' = "open"
            <4>1. /\ c.req = r /\ answer[c] = "none"
                  /\ c \notin wire \cup stored
                BY <2>1, <3>2, SentIsFresh DEF AnswersAreTrue, CallState
            <4>2. input[r].kind = "update"
                BY <2>1 DEF SendLuggage, SendPictures, CancelInv, Updating
            <4>3. c \in Made(r)
                BY <3>2, <4>2 DEF Made, SentBy
            <4>4. c \in wire' /\ c \notin stored'
                BY <3>1, <3>2, <4>1 DEF Send
            <4> QED BY <1>1, <4>1, <4>3, <4>4 DEF FateOf, ToCome
        <3>3. ASSUME NEW c \in Call, c \notin SentBy(r)
              PROVE  FateOf(c)' = FateOf(c)
            <4>1. /\ answer'[c] = answer[c]
                  /\ c \in wire' <=> c \in wire
                  /\ stored' = stored
                BY <3>1, <3>3 DEF Send
            <4> QED BY <1>1, <4>1, FateSame DEF Call
        <3> QED BY <3>2, <3>3 DEF FateView
    <2>2. CASE UNCHANGED oldSystem
        BY <1>1, <2>2, FatesStay
    <2> QED BY <2>1, <2>2 DEF FindOne, DecideCancel, SaveSelect
<1> QED BY <1>1, <1>2, <1>3
        DEF Contract!vars, StatusView, TimelyView, FateView

-----------------------------------------------------------------------------
(* The old system's part of a call: it settles the call, or leaves its     *)
(* fate to come.                                                           *)
LEMMA RefinesTransport ==
    ASSUME ContractInv, NEW c \in Call, Transport(c)
    PROVE  Contract!Settle(c) \/ UNCHANGED Contract!vars
<1> USE DEF ContractInv, Typed, CallInv
<1>1. UNCHANGED <<database, pc, input, reply, atArrival>>
    BY DEF Transport, CarryOut, Refuse, Break
<1>2. UNCHANGED <<StatusView, cutoffPast, CameIn, TimelyView>>
    BY <1>1, OrdersStay
<1>3. ASSUME NEW d \in Call, d # c PROVE FateOf(d)' = FateOf(d)
    <2>1. /\ answer'[d] = answer[d]
          /\ d \in wire' <=> d \in wire
          /\ d \in stored' <=> d \in stored
        BY <1>3 DEF Transport, CarryOut, Refuse, Break, TypeOK
    <2> QED BY <1>1, <1>3, <2>1, FateSame
<1>4. c.req \in Requests /\ CallState(c)
    BY DEF Call, AnswersAreTrue
<1>5. answer[c] # "none" /\ answer'[c] # "none" /\ c \in wire \ stored
    BY <1>4 DEF Transport, CarryOut, Refuse, Break, CallState, TypeOK, Answer
<1>6. FateOf(c) = "open"
    BY <1>5 DEF FateOf
<1>7. CASE Break(c)
    <2>1. FateOf(c)' = FateOf(c)
        BY <1>5, <1>7 DEF Break, FateOf
    <2>2. UNCHANGED FateView
        BY <1>3, <2>1 DEF FateView
    <2> QED BY <1>1, <1>2, <2>2
            DEF Contract!vars, StatusView, TimelyView, FateView
<1>8. CASE CarryOut(c) \/ Refuse(c)
    <2>1. FateOf(c)' \in {"kept", "void"}
        BY <1>5, <1>8 DEF CarryOut, Refuse, FateOf, ToCome
    <2>2. FateView' = [FateView EXCEPT ![c] = FateOf(c)']
        BY <1>3 DEF FateView
    <2>3. \E f \in {"kept", "void"} : FateView' = [FateView EXCEPT ![c] = f]
        BY <2>1, <2>2
    <2>4. c.req \in CameIn
        BY <1>4, <1>5 DEF FreshCalls, CameIn
    <2>5. Contract!Own(c.req)
        BY <1>4, <1>5, Views DEF CallsMade
    <2>6. FateView[c] = "open"
        BY <1>6 DEF FateView
    <2> QED BY <1>1, <1>2, <2>3, <2>4, <2>5, <2>6
            DEF Contract!Settle, StatusView, TimelyView, FateView
<1> QED BY <1>7, <1>8 DEF Transport

LEMMA RefinesStaff ==
    ASSUME ContractInv, NEW o \in Orders, Staff(o) \/ CutoffPasses(o)
    PROVE  \/ Contract!Progress(o)
           \/ Contract!LimitPasses(o)
           \/ UNCHANGED Contract!vars
<1> USE DEF ContractInv, Typed, TypeOK
<1>1. UNCHANGED <<oldSystem, pc, input, reply, atArrival>>
    BY DEF Staff, StaffTracks, StaffProgresses, CutoffPasses
<1>2. UNCHANGED FateView
    BY <1>1, FatesStay
<1>3. UNCHANGED <<CameIn, TimelyView>>
    BY <1>1 DEF CameIn, TimelyView
<1>4. CASE StaffTracks(o)
    <2>1. UNCHANGED cutoffPast /\ UNCHANGED StatusView
        BY <1>4 DEF StaffTracks, StatusView, Row
    <2> QED BY <1>1, <1>2, <1>3, <2>1
            DEF Contract!vars, StatusView, TimelyView, FateView
<1>5. CASE StaffProgresses(o)
    <2>1. /\ UNCHANGED cutoffPast
          /\ StatusView[o] \in 0 .. 3
          /\ StatusView' = [StatusView EXCEPT ![o] = StatusView[o] + 1]
        BY <1>5 DEF StaffProgresses, StatusView, Row
    <2> QED BY <1>1, <1>2, <1>3, <2>1
            DEF Contract!Progress, StatusView, TimelyView, FateView
<1>6. CASE CutoffPasses(o)
    <2>1. cutoffPast' = cutoffPast \cup {o} /\ UNCHANGED StatusView
        BY <1>6 DEF CutoffPasses, StatusView
    <2> QED BY <1>1, <1>2, <1>3, <2>1
            DEF Contract!LimitPasses, StatusView, TimelyView, FateView
<1> QED BY <1>4, <1>5, <1>6 DEF Staff

LEMMA RefinesInit == Init => Contract!Init
<1> SUFFICES ASSUME Init PROVE Contract!Init
    OBVIOUS
<1>1. TypeOK
    BY InitTypeOK
<1>2. CameIn = {} /\ TimelyView = {}
    BY DEF Init, CameIn, TimelyView
<1>3. StatusView \in [Orders -> {row.order_status : row \in InitialRows}]
    BY DEF Init, StatusView
<1>4. ASSUME NEW c \in Call
      PROVE  FateOf(c) = IF c \in Contract!Calls(c.req)
                         THEN "open" ELSE "void"
    <2>1. c.req \in Requests
        BY DEF Call
    <2>2. Contract!Calls(c.req) = Made(c.req)
        BY <1>1, <2>1, MadeAre
    <2> QED BY <2>1, <2>2 DEF Init, FateOf, ToCome, Idle, Done
<1>5. Contract!Call = Call
    BY DEF Contract!Call, Contract!Item, Call, Item
<1>6. FateView = [c \in Call |-> IF c \in Contract!Calls(c.req)
                                THEN "open" ELSE "void"]
    BY <1>4 DEF FateView
<1> QED BY <1>2, <1>3, <1>5, <1>6
        DEF Contract!Init, Init, StatusView, TimelyView, FateView

(* Every step of the service, of the old system and of its staff is a step *)
(* of the contract, or none.                                               *)
LEMMA RefinesStep ==
    ASSUME ContractInv, [Next]_vars
    PROVE  [Contract!Next]_(Contract!vars)
<1> USE DEF Contract!Next
<1>1. ASSUME NEW r \in Requests, Arrive(r) PROVE Contract!Next
    BY <1>1, RefinesArrive
<1>2. ASSUME NEW r \in Requests, Handler(r)
      PROVE  Contract!Next \/ UNCHANGED Contract!vars
    BY <1>2, RefinesRefuse, RefinesFinish, RefinesSave, HandlerStutters
    DEF Handler
<1>3. ASSUME NEW c \in Call, Transport(c)
      PROVE  Contract!Next \/ UNCHANGED Contract!vars
    <2>1. Contract!Call = Call
        BY DEF Contract!Call, Contract!Item, Call, Item
    <2> QED BY <1>3, <2>1, RefinesTransport
<1>4. ASSUME NEW o \in Orders, Staff(o) \/ CutoffPasses(o)
      PROVE  Contract!Next \/ UNCHANGED Contract!vars
    BY <1>4, RefinesStaff
<1>5. CASE UNCHANGED vars
    BY <1>5 DEF vars, Contract!vars, CameIn, FateOf, ToCome, Made,
                PictureCalls, LuggageCall
<1> QED BY <1>1, <1>2, <1>3, <1>4, <1>5 DEF Next

(* The service implements its contract: whatever it, the old system, the   *)
(* staff and the network do looks to agents like a behaviour of it.        *)
THEOREM ServiceKeepsContract == Spec => ContractIsKept
<1>1. Init => CallsMade
    BY DEF Init, CallsMade, Idle
<1>2. Typed /\ CancelInv /\ CallInv /\ CallsMade /\ [Next]_vars => CallsMade'
    BY CallsMadeStep DEF CancelInv
<1>3. ContractInv /\ [Next]_vars => [Contract!Next]_(Contract!vars)
    BY RefinesStep
<1> QED BY <1>1, <1>2, <1>3, RefinesInit, CancelInvHolds, CallInvHolds, PTL
        DEF Spec, ContractIsKept, Contract!Spec, ContractInv
=============================================================================
