----------------------------- MODULE TimeSlots -----------------------------
(***************************************************************************)
(* The pickup and delivery times offered for a pair of branches            *)
(* (TimeSlotService).                                                      *)
(*                                                                         *)
(* Times are seconds of the requested date on the clock of Bangkok: the    *)
(* service writes 09:00 as local(9, 0).toUTC(-420), a string that reads    *)
(* 02:00-07:00, and compares it, as a string, with the date the caller     *)
(* asked for at the server's time of day.  With the server in UTC that     *)
(* second string is seven hours behind Bangkok too, so the comparison is   *)
(* the one of Bangkok's times; and the server's date runs from 07:00 to    *)
(* 07:00 of Bangkok.  At the same second "+00:00" sorts before "-07:00":   *)
(* a bound is exceeded from the next second on, and reached inclusively.   *)
(***************************************************************************)
EXTENDS BookingTypes

CONSTANTS
    Branches,   \* ids of the rows of the branch table
    BranchType, \* the type name of each branch
    Unknown,    \* an id without a row
    Pairs,      \* the pairs of ids a caller asks about
    Days,       \* where the requested date lies, see Day
    Clock       \* the times of day at which the service is asked

Hour == 3600
HalfHour == 1800
ServerDay == 7 * Hour .. 31 * Hour - 1
LastSecond == 31 * Hour - 1

(* The requested date against today's date: before it; today; later, with  *)
(* the same, a greater or a smaller day of the month.                      *)
Day == {"past", "today", "sameNumber", "later", "wrapped"}
Query == [from : Branches \cup {Unknown}, to : Branches \cup {Unknown},
          day : Day, workday : BOOLEAN]

ASSUME ClockAssumption == Clock \subseteq ServerDay
ASSUME BranchTypeAssumption ==
    BranchType \in [Branches -> {"HOTEL", "AREA", "AIRPORT", "BOOTH"}]
ASSUME PairsAssumption ==
    /\ Unknown \notin Branches
    /\ Pairs \subseteq (Branches \cup {Unknown}) \X (Branches \cup {Unknown})
ASSUME DaysAssumption == Days \subseteq Day

VARIABLES
    now,      \* the time of day
    query,    \* what the caller asks about
    active,   \* the branches of the query that are switched on
    offer,    \* the last answer of fromTimeSlotDefault
    askedAt,  \* when it was asked for
    pickup,   \* the offered time the caller has settled on
    toDay,    \* days from the pickup date to the delivery date asked for
    delivery  \* the answer of toTimeSlotDefault

vars == <<now, query, active, offer, askedAt, pickup, toDay, delivery>>

-----------------------------------------------------------------------------
(* Mutant: from the very minute of the start.                              *)
Unrounded(t) == (t \div 60) * 60

(* generateTimeSlot: half hours from start, rounded up by its minute, to   *)
(* end inclusively.  A start in the first minute of an hour is not rounded.*)
RoundUp(t) ==
    LET hour == (t \div Hour) * Hour
        minute == (t % Hour) \div 60
    IN  CASE minute >= 30 -> hour + Hour
          [] minute \in 1 .. 29 -> hour + HalfHour
          [] OTHER -> hour

Slots(start, end) ==
    {RoundUp(start) + k * HalfHour :
        k \in 0 .. (end - RoundUp(start)) \div HalfHour}

Between(from, to) == Slots(from * Hour, to * Hour)

(* A slot is handed out as a time of day of UTC.  One before 07:00 comes   *)
(* back with the requested date as an instant of the following night.      *)
Instant(slot) == IF slot < 7 * Hour THEN slot + 24 * Hour ELSE slot

(* An area is treated as a hotel.                                          *)
Kind(b) == IF BranchType[b] = "AREA" THEN "HOTEL" ELSE BranchType[b]
Route(q) == <<Kind(q.from), Kind(q.to)>>

Answer(status, slots) == [status |-> status, slots |-> slots]
Offered(slots) == Answer("SUCCESS", slots)
Throws == Answer("exception", {})

(* fromDateTimeUtc.day == current.day compares the days of the month only. *)
SameNumber(q) == q.day \in {"today", "sameNumber"}

-----------------------------------------------------------------------------
(* Pickups.  Nearly every rule is a window: before it opens, and on other  *)
(* days, all of it is offered; then what is left until late; nothing after *)
(* the cut.                                                                *)
Window(open, cut, late, close) ==
    [open |-> open * Hour, cut |-> cut * Hour, late |-> late * Hour,
     close |-> close * Hour]

(* Mutants: all of the window while it lasts; its two ends exchanged.      *)
InOpenWindow(q, t, w) ==
    IF ~SameNumber(q) \/ t <= w.cut THEN Slots(w.open, w.close) ELSE {}
EndsExchanged(q, t, w) ==
    IF ~SameNumber(q) \/ t <= w.open THEN Slots(w.open, w.late)
    ELSE IF t <= w.cut THEN Slots(t, w.close) ELSE {}

InWindow(q, t, w) ==
    IF ~SameNumber(q) \/ t <= w.open THEN Slots(w.open, w.close)
    ELSE IF t <= w.cut THEN Slots(t, w.late) ELSE {}

HotelToHotel(q, t) == InWindow(q, t, Window(9, 12, 12, 12))

HotelToAirport(q, t) ==
    InWindow(q, t, CASE q.from \in {5, 9} /\ q.to = 1 -> Window(9, 13, 13, 13)
                     [] q.from \in {5, 9} /\ q.to = 3 -> Window(9, 13, 12, 13)
                     [] OTHER -> Window(9, 12, 12, 12))

AirportToAirport(q, t) ==
    CASE q.from = 1 /\ q.to = 3 -> InWindow(q, t, Window(8, 12, 23, 23))
      [] q.from = 3 /\ q.to = 1 -> InWindow(q, t, Window(0, 12, 23, 23))
      [] OTHER -> {}

(* The bound pm0 is compared without having been set.                      *)
AirportToHotel(q, t) ==
    IF q.from # 1 \/ q.to # 9 THEN Offered({})
    ELSE IF SameNumber(q) /\ t <= 12 * Hour THEN Throws
    ELSE Offered(InWindow(q, t, Window(8, 12, 23, 23)))

(* No cut.                                                                 *)
AirportToBooth(q, t) ==
    LET w(open) == [open |-> open * Hour, cut |-> 31 * Hour,
                    late |-> 23 * Hour + HalfHour,
                    close |-> 23 * Hour + HalfHour]
    IN  CASE q.from = 1 -> InWindow(q, t, w(8))
          [] q.from = 3 -> InWindow(q, t, w(0))
          [] OTHER -> {}

(* From booth 7 the bound pm10 is compared without having been set.        *)
BoothToHotel(q, t) ==
    CASE q.from \in {6, 18} /\ q.to \in {5, 9} ->
             Offered(InWindow(q, t, Window(10, 12, 16, 16)))
      [] q.from = 17 /\ q.to \in {5, 9} ->
             Offered(InWindow(q, t, Window(10, 12, 13, 13)))
      [] /\ q.from = 7 /\ q.to = 9 /\ q.workday
         /\ \/ SameNumber(q) /\ t <= 12 * Hour
            \/ q.day = "later" -> Throws
      [] OTHER -> Offered({})

(* Some booths offer their whole window only to who asks, at a time of day *)
(* before it opens, for a date with a greater day of the month.            *)
LateOpening(q, t, w) ==
    IF SameNumber(q)
    THEN IF w.open < t /\ t <= w.cut THEN Slots(t, w.late) ELSE {}
    ELSE IF q.day = "later" /\ t <= w.open THEN Slots(w.open, w.close)
    ELSE {}

BoothToAirport(q, t) ==
    IF q.to \notin {1, 3} THEN {}
    ELSE CASE q.from = 6 -> InWindow(q, t, Window(10, 12, 16, 16))
           [] q.from = 7 /\ q.workday ->
                  LateOpening(q, t, Window(9, 12, 16, 16))
           [] q.from \in {17, 18} -> LateOpening(q, t, Window(10, 12, 13, 13))
           [] OTHER -> {}

(* null (a route without rule) and the empty list both stand for no slot.  *)
FromSlots(q, t) ==
    CASE Route(q) = <<"HOTEL", "HOTEL">> -> Offered(HotelToHotel(q, t))
      [] Route(q) = <<"HOTEL", "AIRPORT">> -> Offered(HotelToAirport(q, t))
      [] Route(q) = <<"AIRPORT", "AIRPORT">> -> Offered(AirportToAirport(q, t))
      [] Route(q) = <<"AIRPORT", "HOTEL">> -> AirportToHotel(q, t)
      [] Route(q) = <<"AIRPORT", "BOOTH">> -> Offered(AirportToBooth(q, t))
      [] Route(q) = <<"BOOTH", "HOTEL">> -> BoothToHotel(q, t)
      [] Route(q) = <<"BOOTH", "AIRPORT">> -> Offered(BoothToAirport(q, t))
      [] OTHER -> Offered({})

(* The checks before the rules, which both operations make.                *)
Refusal(q, tooEarly) ==
    IF ~({q.from, q.to} \subseteq Branches) THEN {"BRANCH_NOTFOUND"}
    ELSE IF ~({q.from, q.to} \subseteq active) THEN {"BRANCH_INACTIVE"}
    ELSE IF tooEarly THEN {"FAIL"} ELSE {}

FromTimeSlotDefault(q, t) ==
    LET refusal == Refusal(q, q.day = "past")
    IN  IF refusal = {} THEN FromSlots(q, t)
        ELSE Answer(CHOOSE s \in refusal : TRUE, {})

-----------------------------------------------------------------------------
(* Deliveries, for a pickup at the instant f, on the same date or another. *)
HotelFromHotel(q, sameDay, f) ==
    LET served == {<<9, 9>>, <<9, 5>>, <<5, 9>>, <<15, 9>>, <<9, 15>>,
                   <<13, 13>>, <<21, 9>>, <<9, 21>>, <<23, 9>>, <<9, 23>>}
    IN  IF \/ <<q.from, q.to>> \notin served
           \/ <<q.from, q.to>> = <<9, 9>> /\ sameDay /\ f >= 21 * Hour
        THEN {}
        ELSE IF sameDay THEN Between(21, 23) ELSE Between(0, 23)

AirportFromHotel(sameDay, f) ==
    IF ~sameDay THEN Between(0, 23)
    ELSE IF f < 12 * Hour THEN Between(19, 23) ELSE {}

(* Mutant: without the bound for the last deliveries of the day.           *)
AirportFromAirportUnbounded(sameDay, f) ==
    IF sameDay THEN Slots(20 * Hour, 23 * Hour + HalfHour)
    ELSE Slots(0, 23 * Hour + HalfHour)

AirportFromAirport(sameDay, f) ==
    LET until2330(open) == Slots(open * Hour, 23 * Hour + HalfHour)
    IN  IF ~sameDay THEN until2330(0)
        ELSE IF f < 14 * Hour THEN until2330(20)
        ELSE IF f < 17 * Hour THEN until2330(21) ELSE {}

HotelFromAirport(q, sameDay, f) ==
    CASE q.from = 14 /\ q.to = 13 ->
             IF sameDay THEN Between(19, 23) ELSE Between(0, 23)
      [] q.from \in {1, 3} /\ q.to \in {21, 23} ->
             IF sameDay THEN Between(21, 23) ELSE Between(0, 23)
      [] OTHER ->
             IF sameDay /\ f >= 16 * Hour THEN {}
             ELSE Slots(21 * Hour, 23 * Hour + HalfHour)

(* Whatever the delivery date is.                                          *)
BoothFromAirport(q, f) ==
    IF f >= 12 * Hour THEN {}
    ELSE CASE q.to \in {6, 17} -> Between(17, 22)
           [] q.to = 7 /\ q.workday -> Between(17, 18)
           [] OTHER -> {}

HotelFromBooth(sameDay) == IF sameDay THEN Between(21, 23) ELSE Between(0, 23)

AirportFromBooth(q, sameDay, f) ==
    IF ~sameDay THEN Between(0, 23)
    ELSE IF q.from # 1 THEN Between(19, 23)
    ELSE IF f < 14 * Hour THEN Between(18, 23) ELSE Between(20, 23)

ToSlots(q, sameDay, f) ==
    CASE Route(q) = <<"HOTEL", "HOTEL">> -> HotelFromHotel(q, sameDay, f)
      [] Route(q) = <<"HOTEL", "AIRPORT">> -> AirportFromHotel(sameDay, f)
      [] Route(q) = <<"AIRPORT", "AIRPORT">> -> AirportFromAirport(sameDay, f)
      [] Route(q) = <<"AIRPORT", "HOTEL">> -> HotelFromAirport(q, sameDay, f)
      [] Route(q) = <<"AIRPORT", "BOOTH">> -> BoothFromAirport(q, f)
      [] Route(q) = <<"BOOTH", "HOTEL">> -> HotelFromBooth(sameDay)
      [] Route(q) = <<"BOOTH", "AIRPORT">> -> AirportFromBooth(q, sameDay, f)
      [] OTHER -> {}

(* The delivery date is taken at the current time of day and a second more *)
(* (lines 426-434): in the last second of the server's day it is the next. *)
DaysCounted(days, t) == IF t = LastSecond THEN days + 1 ELSE days

(* The delivery date must not be past; it may precede the pickup date.     *)
ToTimeSlotDefault(q, days, f) ==
    LET refusal == Refusal(q, q.day = "today" /\ days < 0)
    IN  IF refusal = {} THEN Offered(ToSlots(q, days = 0, f))
        ELSE Answer(CHOOSE s \in refusal : TRUE, {})

-----------------------------------------------------------------------------
NoTime == -1
NoAnswer == Answer("pending", {})

Init ==
    /\ now \in Clock
    /\ query \in {[from |-> p[1], to |-> p[2], day |-> d, workday |-> w] :
                      p \in Pairs, d \in Days, w \in BOOLEAN}
    /\ active = Branches \cap {query.from, query.to}
    /\ offer = NoAnswer
    /\ askedAt = NoTime
    /\ pickup = NoTime
    /\ toDay = 0
    /\ delivery = NoAnswer

(* Time goes by while the caller looks at the offer.                       *)
Pass ==
    /\ pickup = NoTime
    /\ \E t \in Clock : t > now /\ now' = t
    /\ UNCHANGED <<query, active, offer, askedAt, pickup, toDay, delivery>>

(* A branch of the query is switched off, or on again.                     *)
Switch(b) ==
    /\ active' = IF b \in active THEN active \ {b} ELSE active \cup {b}
    /\ UNCHANGED <<now, query, offer, askedAt, pickup, toDay, delivery>>

AskFrom ==
    /\ pickup = NoTime
    /\ offer' = FromTimeSlotDefault(query, now)
    /\ askedAt' = now
    /\ UNCHANGED <<now, query, active, pickup, toDay, delivery>>

(* The caller takes one of the times offered.                              *)
Pick ==
    /\ pickup = NoTime
    /\ \E slot \in offer.slots : pickup' = Instant(slot)
    /\ UNCHANGED <<now, query, active, offer, askedAt, toDay, delivery>>

AskTo ==
    /\ pickup # NoTime
    /\ \E days \in {-1, 0, 1} :
          /\ toDay' = days
          /\ delivery' =
                 ToTimeSlotDefault(query, DaysCounted(days, now), pickup)
    /\ UNCHANGED <<now, query, active, offer, askedAt, pickup>>

Next ==
    \/ Pass \/ AskFrom \/ Pick \/ AskTo
    \/ \E b \in Branches \cap {query.from, query.to} : Switch(b)

Spec == Init /\ [][Next]_vars

-----------------------------------------------------------------------------
SlotAnswer == [status : DefaultStatus \cup {"pending", "exception"},
               slots : SUBSET {k * HalfHour : k \in 0 .. 47}]

TypeOK ==
    /\ now \in Clock
    /\ query \in Query
    /\ active \subseteq Branches
    /\ offer \in SlotAnswer
    /\ askedAt \in Clock \cup {NoTime}
    /\ pickup \in {NoTime} \cup {k * HalfHour : k \in 14 .. 61}
    /\ toDay \in {-1, 0, 1}
    /\ delivery \in SlotAnswer

(* A pickup offered for today does not lie before the minute in which it   *)
(* was asked for (the rules mix two windows, and the clock two time zones).*)
PickupIsAhead ==
    query.day = "today" =>
        \A slot \in offer.slots : slot >= askedAt - (askedAt % 60)

(* A delivery offered on the pickup date or the day after lies after the   *)
(* pickup, also for the pickups that come back as times of the next night. *)
(* (Asked in the last second of its day, the service offers the deliveries *)
(* of the wrong date, and some of them do come before the pickup.)         *)
DeliveryFollowsPickup ==
    toDay >= 0 /\ now # LastSecond =>
        \A slot \in delivery.slots : Instant(slot) + toDay * 24 * Hour > pickup

(* The booths whose window is not offered before it opens.                 *)
OpensLate(q) ==
    Route(q) = <<"BOOTH", "AIRPORT">> /\ q.from \in {7, 17, 18}

(* Who asks again later on the day is offered no pickup that was not       *)
(* offered before, except by a booth that has opened in between.           *)
OffersOnlyShrink ==
    [][(offer.status = "SUCCESS" /\ offer'.status = "SUCCESS"
           /\ ~OpensLate(query))
          => offer'.slots \subseteq offer.slots]_vars
=============================================================================
