---------------------------- MODULE TimeSlotsProofs ----------------------------
(***************************************************************************)
(* Proofs, for every second of the day, every branch and every type the    *)
(* branches may have, of the safety properties of TimeSlots.               *)
(***************************************************************************)
EXTENDS TimeSlots, TLAPS

SlotTimes == {k * HalfHour : k \in 0 .. 47}
LastSlot == 23 * Hour + HalfHour

(* Rounding loses the seconds of a minute at most.                         *)
LEMMA RoundUpIs ==
    ASSUME NEW t \in Nat
    PROVE  /\ RoundUp(t) \in Nat
           /\ RoundUp(t) >= t - (t % 60)
           /\ \E k \in Nat : RoundUp(t) = k * HalfHour
<1> DEFINE hour == t \div Hour
           minute == (t % Hour) \div 60
<1>1. hour \in Nat /\ t = hour * Hour + (t % Hour) /\ t % Hour \in Nat
    BY DEF Hour
<1>2. minute \in 0 .. 59 /\ (t % Hour) - (t % 60) = minute * 60
    BY DEF Hour
<1>3. RoundUp(t) = IF minute >= 30 THEN hour * Hour + Hour
                   ELSE IF minute \in 1 .. 29 THEN hour * Hour + HalfHour
                   ELSE hour * Hour
    BY <1>2 DEF RoundUp
<1>4. \E k \in Nat : RoundUp(t) = k * HalfHour
    <2>1. RoundUp(t) \in {(2 * hour) * HalfHour, (2 * hour + 1) * HalfHour,
                          (2 * hour + 2) * HalfHour}
        BY <1>1, <1>3 DEF Hour, HalfHour
    <2>2. 2 * hour \in Nat /\ 2 * hour + 1 \in Nat /\ 2 * hour + 2 \in Nat
        BY <1>1
    <2> HIDE DEF hour
    <2> QED BY <2>1, <2>2
<1>5. RoundUp(t) \in Nat /\ RoundUp(t) >= t - (t % 60)
    <2> HIDE DEF hour, minute
    <2> QED BY <1>1, <1>2, <1>3 DEF Hour, HalfHour
<1> QED BY <1>4, <1>5

LEMMA WithinTheDay ==
    ASSUME NEW slot \in Nat, NEW last \in Nat, last <= LastSlot, slot <= last,
           NEW n \in Nat, slot = n * HalfHour
    PROVE  slot \in SlotTimes
<1>1. n * 1800 <= 84600
    BY DEF LastSlot, Hour, HalfHour
<1>2. n \in 0 .. 47
    BY <1>1
<1> QED BY <1>2 DEF SlotTimes

(* generateTimeSlot stays within its bounds, on half hours of one day.     *)
LEMMA SlotsAre ==
    ASSUME NEW start \in Nat, NEW end \in Nat, end <= LastSlot,
           NEW slot \in Slots(start, end)
    PROVE  /\ slot \in SlotTimes /\ slot \in Nat
           /\ slot >= start - (start % 60)
           /\ slot <= end
<1> DEFINE R == RoundUp(start)
<1>1. PICK k \in 0 .. (end - R) \div HalfHour : slot = R + k * HalfHour
    BY DEF Slots
<1>2. R \in Nat /\ R >= start - (start % 60)
    BY RoundUpIs
<1>3. PICK j \in Nat : R = j * HalfHour
    BY RoundUpIs
<1> HIDE DEF R
<1>4. k \in Nat /\ k * HalfHour <= end - R
    BY <1>1, <1>2 DEF HalfHour, LastSlot, Hour
<1>5. slot = (j + k) * HalfHour /\ j + k \in Nat
    BY <1>1, <1>3, <1>4 DEF HalfHour
<1>6. slot <= end /\ slot \in Nat
    BY <1>1, <1>2, <1>4 DEF HalfHour
<1>8. slot \in SlotTimes
    BY <1>5, <1>6, WithinTheDay
<1>9. slot >= R
    BY <1>1, <1>2, <1>4 DEF HalfHour
<1> QED BY <1>2, <1>6, <1>8, <1>9

(* A slot of a rule that opens at open and closes at close, asked for at t.*)
Fit(slot, q, t, open, close) ==
    /\ slot \in SlotTimes /\ slot \in Nat
    /\ open <= slot /\ slot <= close
    /\ q.day = "today" => slot >= t - (t % 60)

LEMMA WindowSlots ==
    ASSUME NEW q, NEW t \in Nat, NEW w,
           NEW open \in Nat, NEW close \in Nat, close <= LastSlot,
           w.open = open * Hour, w.cut \in Nat,
           w.late \in Nat, w.late <= close, w.close \in Nat, w.close <= close,
           NEW slot \in InWindow(q, t, w) \cup LateOpening(q, t, w)
    PROVE  Fit(slot, q, t, open * Hour, close)
<1>0. (open * Hour) % 60 = 0
    <2>1. open * Hour = (open * 60) * 60 /\ open * 60 \in Nat
        BY DEF Hour
    <2>2. \A n \in Nat : (n * 60) % 60 = 0
        OBVIOUS
    <2> QED BY <2>1, <2>2
<1>1. /\ open * Hour \in Nat /\ (open * Hour) % 60 = 0
      /\ w.late <= LastSlot /\ w.close <= LastSlot
    <2>1. open * Hour \in Nat
        BY DEF Hour
    <2>2. LastSlot \in Nat
        BY DEF LastSlot, Hour, HalfHour
    <2> QED BY <1>0, <2>1, <2>2
<1>2. CASE slot \in Slots(w.open, w.close) /\ (SameNumber(q) => t <= w.open)
    <2>1. /\ slot \in SlotTimes /\ slot \in Nat
          /\ slot >= open * Hour /\ slot <= w.close
        BY <1>1, <1>2, SlotsAre
    <2>2. q.day = "today" => slot >= t - (t % 60)
        BY <1>1, <1>2, <2>1 DEF SameNumber
    <2> QED BY <2>1, <2>2 DEF Fit
<1>3. CASE slot \in Slots(t, w.late) /\ t > w.open
    <2>1. /\ slot \in SlotTimes /\ slot \in Nat
          /\ slot >= t - (t % 60) /\ slot <= w.late
        BY <1>1, <1>3, SlotsAre
    <2>2. slot >= open * Hour
        BY <1>1, <1>3, <2>1 DEF Hour
    <2> QED BY <2>1, <2>2 DEF Fit
<1>4. \/ slot \in Slots(w.open, w.close) /\ (SameNumber(q) => t <= w.open)
      \/ slot \in Slots(t, w.late) /\ t > w.open
    BY <1>1 DEF InWindow, LateOpening
<1> QED BY <1>2, <1>3, <1>4

LEMMA HourWindow ==
    ASSUME NEW q, NEW t \in Nat, NEW slot,
           NEW open \in Nat, NEW cut \in Nat,
           NEW late \in Nat, NEW close \in Nat, late <= close, close <= 23,
           \/ slot \in InWindow(q, t, Window(open, cut, late, close))
           \/ slot \in LateOpening(q, t, Window(open, cut, late, close))
    PROVE  Fit(slot, q, t, open * Hour, close * Hour)
<1> DEFINE w == Window(open, cut, late, close)
<1>1. /\ w.open = open * Hour /\ w.cut \in Nat /\ w.late \in Nat
      /\ w.close \in Nat /\ w.late <= close * Hour /\ w.close <= close * Hour
    BY DEF Window, Hour
<1>2. close * Hour \in Nat /\ close * Hour <= LastSlot
    BY DEF LastSlot, Hour, HalfHour
<1>3. slot \in InWindow(q, t, w) \cup LateOpening(q, t, w)
    OBVIOUS
<1> HIDE DEF w
<1> QED BY <1>1, <1>2, <1>3, WindowSlots

-----------------------------------------------------------------------------
(* What is offered at t: slots of one day, none of them past; from hotels  *)
(* and booths, no later than the afternoon; from an airport to a hotel, on *)
(* a single route.                                                         *)
Good(q, slot) ==
    /\ slot \in SlotTimes /\ slot \in Nat
    /\ Kind(q.from) = "HOTEL" => 9 * Hour <= slot /\ slot <= 13 * Hour
    /\ Kind(q.from) = "BOOTH" => 9 * Hour <= slot /\ slot <= 16 * Hour
    /\ Kind(q.from) = "AIRPORT" /\ Kind(q.to) = "HOTEL" => q.from = 1 /\ q.to = 9
Ahead(q, t, slot) == q.day = "today" => slot >= t - (t % 60)

LEMMA HotelRules ==
    ASSUME NEW q, NEW t \in Nat,
           NEW slot \in HotelToHotel(q, t) \cup HotelToAirport(q, t)
    PROVE  Fit(slot, q, t, 9 * Hour, 12 * Hour)
           \/ Fit(slot, q, t, 9 * Hour, 13 * Hour)
<1>1. CASE slot \in InWindow(q, t, Window(9, 12, 12, 12))
    BY <1>1, HourWindow
<1>2. CASE slot \in InWindow(q, t, Window(9, 13, 13, 13))
    BY <1>2, HourWindow
<1>3. CASE slot \in InWindow(q, t, Window(9, 13, 12, 13))
    BY <1>3, HourWindow
<1> QED BY <1>1, <1>2, <1>3 DEF HotelToHotel, HotelToAirport

LEMMA BoothRules ==
    ASSUME NEW q, NEW t \in Nat,
           NEW slot \in BoothToHotel(q, t).slots \cup BoothToAirport(q, t)
    PROVE  \E open \in {9, 10}, close \in {13, 16} :
               Fit(slot, q, t, open * Hour, close * Hour)
<1>1. CASE slot \in InWindow(q, t, Window(10, 12, 16, 16))
    BY <1>1, HourWindow
<1>2. CASE slot \in InWindow(q, t, Window(10, 12, 13, 13))
    BY <1>2, HourWindow
<1>3. CASE slot \in LateOpening(q, t, Window(9, 12, 16, 16))
    BY <1>3, HourWindow
<1>4. CASE slot \in LateOpening(q, t, Window(10, 12, 13, 13))
    BY <1>4, HourWindow
<1>5. CASE slot \in BoothToAirport(q, t)
    BY <1>1, <1>3, <1>4, <1>5 DEF BoothToAirport
<1>6. CASE slot \in BoothToHotel(q, t).slots
    BY <1>1, <1>2, <1>6 DEF BoothToHotel, Offered, Throws, Answer
<1> QED BY <1>5, <1>6

LEMMA AirportRules ==
    ASSUME NEW q, NEW t \in Nat,
           NEW slot \in AirportToAirport(q, t) \cup AirportToBooth(q, t)
                           \cup AirportToHotel(q, t).slots
    PROVE  /\ slot \in SlotTimes /\ slot \in Nat
           /\ q.day = "today" => slot >= t - (t % 60)
<1> DEFINE Goal == /\ slot \in SlotTimes /\ slot \in Nat
                   /\ q.day = "today" => slot >= t - (t % 60)
<1>0. ASSUME NEW open, NEW close, Fit(slot, q, t, open, close)
      PROVE  Goal
    BY <1>0 DEF Fit
<1>1. CASE slot \in InWindow(q, t, Window(8, 12, 23, 23))
    <2>1. Fit(slot, q, t, 8 * Hour, 23 * Hour)
        BY <1>1, HourWindow
    <2> QED BY <2>1, <1>0
<1>2. CASE slot \in InWindow(q, t, Window(0, 12, 23, 23))
    <2>1. Fit(slot, q, t, 0 * Hour, 23 * Hour)
        BY <1>2, HourWindow
    <2> QED BY <2>1, <1>0
<1>3. CASE slot \in AirportToAirport(q, t)
    <2>1. \/ slot \in InWindow(q, t, Window(8, 12, 23, 23))
          \/ slot \in InWindow(q, t, Window(0, 12, 23, 23))
        BY <1>3 DEF AirportToAirport
    <2> QED BY <2>1, <1>1, <1>2
<1>4. CASE slot \in AirportToHotel(q, t).slots
    <2>1. slot \in InWindow(q, t, Window(8, 12, 23, 23))
        BY <1>4 DEF AirportToHotel, Offered, Throws, Answer
    <2> QED BY <2>1, <1>1
<1>5. CASE slot \in AirportToBooth(q, t)
    <2> DEFINE w(open) == [open |-> open * Hour, cut |-> 31 * Hour,
                           late |-> 23 * Hour + HalfHour,
                           close |-> 23 * Hour + HalfHour]
    <2>1. slot \in InWindow(q, t, w(8)) \/ slot \in InWindow(q, t, w(0))
        BY <1>5 DEF AirportToBooth
    <2>2. ASSUME NEW open \in Nat
          PROVE  /\ w(open).open = open * Hour /\ w(open).cut \in Nat
                 /\ w(open).late \in Nat /\ w(open).late <= LastSlot
                 /\ w(open).close \in Nat /\ w(open).close <= LastSlot
        BY DEF LastSlot, Hour, HalfHour
    <2>3. LastSlot \in Nat /\ LastSlot <= LastSlot
        BY DEF LastSlot, Hour, HalfHour
    <2> HIDE DEF w
    <2>4. ASSUME NEW open \in Nat, slot \in InWindow(q, t, w(open))
          PROVE  Fit(slot, q, t, open * Hour, LastSlot)
        BY <2>2, <2>3, <2>4, WindowSlots
    <2> QED BY <2>1, <2>4, <1>0
<1> QED BY <1>3, <1>4, <1>5

(* Every branch is a hotel, an airport or a booth.                         *)
LEMMA KindIs ==
    \A b \in Branches : Kind(b) \in {"HOTEL", "AIRPORT", "BOOTH"}
BY BranchTypeAssumption DEF Kind

LEMMA PickupsAre ==
    ASSUME NEW q, q.from \in Branches, q.to \in Branches, NEW t \in Nat,
           NEW slot \in FromSlots(q, t).slots
    PROVE  Good(q, slot) /\ Ahead(q, t, slot)
<1> USE DEF Good, Ahead
<1>1. CASE Kind(q.from) = "HOTEL"
    <2>1. slot \in HotelToHotel(q, t) \cup HotelToAirport(q, t)
        BY <1>1 DEF FromSlots, Route, Offered, Answer
    <2> QED BY <1>1, <2>1, HotelRules DEF Fit, Hour
<1>2. CASE Kind(q.from) = "BOOTH"
    <2>1. slot \in BoothToHotel(q, t).slots \cup BoothToAirport(q, t)
        BY <1>2 DEF FromSlots, Route, Offered, Answer
    <2>2. PICK open \in {9, 10}, close \in {13, 16} :
              Fit(slot, q, t, open * Hour, close * Hour)
        BY <2>1, BoothRules
    <2> QED BY <1>2, <2>2 DEF Fit, Hour
<1>3. CASE Kind(q.from) = "AIRPORT"
    <2>1. slot \in AirportToAirport(q, t) \cup AirportToBooth(q, t)
                      \cup AirportToHotel(q, t).slots
        BY <1>3 DEF FromSlots, Route, Offered, Answer
    <2>2. CASE Kind(q.to) = "HOTEL"
        <3>1. slot \in AirportToHotel(q, t).slots
            BY <1>3, <2>2 DEF FromSlots, Route
        <3>2. q.from = 1 /\ q.to = 9
            BY <3>1 DEF AirportToHotel, Offered, Throws, Answer
        <3> QED BY <1>3, <2>1, <3>2, AirportRules
    <2>3. CASE Kind(q.to) # "HOTEL"
        BY <1>3, <2>1, <2>3, AirportRules
    <2> QED BY <2>2, <2>3
<1> QED BY <1>1, <1>2, <1>3, KindIs

-----------------------------------------------------------------------------
(* A delivery of a rule that starts at the hour a.                         *)
Late(d, a) == d \in SlotTimes /\ d \in Nat /\ d >= a * Hour

LEMMA UntilAre ==
    ASSUME NEW a \in Nat, NEW end \in Nat, end <= LastSlot,
           NEW d \in Slots(a * Hour, end)
    PROVE  Late(d, a)
<1>1. a * Hour \in Nat /\ (a * Hour) % 60 = 0
    <2>1. a * Hour = (a * 60) * 60 /\ a * 60 \in Nat
        BY DEF Hour
    <2>2. \A n \in Nat : n * 60 \in Nat /\ (n * 60) % 60 = 0
        OBVIOUS
    <2> QED BY <2>1, <2>2
<1>2. d \in SlotTimes /\ d \in Nat /\ d >= a * Hour - ((a * Hour) % 60)
    BY <1>1, SlotsAre
<1> QED BY <1>1, <1>2 DEF Late

LEMMA BetweenAre ==
    ASSUME NEW a \in Nat, NEW b \in Nat, b <= 23, NEW d \in Between(a, b)
    PROVE  Late(d, a)
<1>1. b * Hour \in Nat /\ b * Hour <= LastSlot
    BY DEF LastSlot, Hour, HalfHour
<1>2. d \in Slots(a * Hour, b * Hour)
    BY DEF Between
<1> QED BY <1>1, <1>2, UntilAre

LEMMA LastAre ==
    ASSUME NEW a \in Nat, NEW d \in Slots(a * Hour, 23 * Hour + HalfHour)
    PROVE  Late(d, a)
<1>1. LastSlot \in Nat /\ LastSlot <= LastSlot
    BY DEF LastSlot, Hour, HalfHour
<1> QED BY <1>1, UntilAre DEF LastSlot

(* The rules for deliveries on the pickup date leave the time of the       *)
(* journey.                                                                *)
LEMMA HotelDeliveries ==
    ASSUME NEW q, NEW sameDay \in BOOLEAN, NEW f,
           NEW d \in HotelFromHotel(q, sameDay, f) \cup HotelFromBooth(sameDay)
    PROVE  Late(d, IF sameDay THEN 21 ELSE 0)
<1>1. d \in Between(IF sameDay THEN 21 ELSE 0, 23)
    BY DEF HotelFromHotel, HotelFromBooth
<1> QED BY <1>1, BetweenAre

LEMMA AirportDeliveries ==
    ASSUME NEW q, NEW sameDay \in BOOLEAN, NEW f,
           NEW d \in AirportFromHotel(sameDay, f)
                        \cup AirportFromBooth(q, sameDay, f)
    PROVE  \E a \in {0, 18, 19, 20} : Late(d, a) /\ (sameDay => a # 0)
<1>1. \E a \in {0, 18, 19, 20} : d \in Between(a, 23) /\ (sameDay => a # 0)
    BY DEF AirportFromHotel, AirportFromBooth
<1> QED BY <1>1, BetweenAre

LEMMA AirportTransfers ==
    ASSUME NEW sameDay \in BOOLEAN, NEW f \in Nat,
           NEW d \in AirportFromAirport(sameDay, f)
    PROVE  \E a \in {0, 20, 21} :
               Late(d, a) /\ (sameDay => a # 0 /\ f < 17 * Hour)
<1>1. \E a \in {0, 20, 21} :
          /\ d \in Slots(a * Hour, 23 * Hour + HalfHour)
          /\ sameDay => a # 0 /\ (f < 14 * Hour \/ f < 17 * Hour)
    BY DEF AirportFromAirport
<1> QED BY <1>1, LastAre DEF Hour

LEMMA FromAirportDeliveries ==
    ASSUME NEW q, NEW sameDay \in BOOLEAN, NEW f \in Nat,
           NEW d \in HotelFromAirport(q, sameDay, f)
    PROVE  \E a \in {0, 19, 21} :
               /\ Late(d, a)
               /\ sameDay /\ q.from = 1 /\ q.to = 9 =>
                      a = 21 /\ f < 16 * Hour
<1>1. CASE q.from = 14 /\ q.to = 13
    <2>1. d \in Between(IF sameDay THEN 19 ELSE 0, 23)
        BY <1>1 DEF HotelFromAirport
    <2> QED BY <1>1, <2>1, BetweenAre
<1>2. CASE ~(q.from = 14 /\ q.to = 13) /\ q.from \in {1, 3} /\ q.to \in {21, 23}
    <2>1. d \in Between(IF sameDay THEN 21 ELSE 0, 23)
        BY <1>2 DEF HotelFromAirport
    <2> QED BY <1>2, <2>1, BetweenAre
<1>3. CASE ~(q.from = 14 /\ q.to = 13)
           /\ ~(q.from \in {1, 3} /\ q.to \in {21, 23})
    <2>1. d \in Slots(21 * Hour, 23 * Hour + HalfHour)
          /\ (sameDay => ~(f >= 16 * Hour))
        BY <1>3 DEF HotelFromAirport
    <2>2. Late(d, 21)
        BY <2>1, LastAre
    <2>3. sameDay => f < 16 * Hour
        BY <2>1 DEF Hour
    <2> QED BY <2>2, <2>3
<1> QED BY <1>1, <1>2, <1>3

LEMMA BoothDeliveries ==
    ASSUME NEW q, NEW f \in Nat, NEW d \in BoothFromAirport(q, f)
    PROVE  Late(d, 17) /\ f < 12 * Hour
<1>1. ~(f >= 12 * Hour)
    BY DEF BoothFromAirport
<1>2. d \in Between(17, 22) \/ d \in Between(17, 18)
    BY <1>1 DEF BoothFromAirport
<1>3. f < 12 * Hour
    BY <1>1 DEF Hour
<1> QED BY <1>2, <1>3, BetweenAre

(* What is delivered for a pickup at f lies on half hours of one day, and  *)
(* on the pickup date not before 17:00 and after the pickup.               *)
LEMMA DeliveriesAre ==
    ASSUME NEW q, q.from \in Branches, q.to \in Branches,
           NEW sameDay \in BOOLEAN, NEW slot, Good(q, slot),
           NEW d \in ToSlots(q, sameDay, Instant(slot))
    PROVE  /\ d \in SlotTimes /\ d \in Nat
           /\ sameDay => d >= 17 * Hour /\ d > Instant(slot)
<1> DEFINE f == Instant(slot)
<1>0. f \in Nat /\ (slot >= 9 * Hour => f = slot) /\ slot \in Nat
    BY DEF Instant, Good, Hour
<1>1. \A a \in Nat : Late(d, a) => d \in SlotTimes /\ d \in Nat
                                   /\ d >= a * Hour
    BY DEF Late
<1>2. CASE Kind(q.from) = "HOTEL" /\ Kind(q.to) = "HOTEL"
    <2>1. Late(d, IF sameDay THEN 21 ELSE 0)
        BY <1>2, HotelDeliveries DEF ToSlots, Route
    <2> QED BY <1>0, <1>1, <1>2, <2>1 DEF Good, Hour
<1>3. CASE Kind(q.from) = "HOTEL" /\ Kind(q.to) = "AIRPORT"
    <2>1. PICK a \in {0, 18, 19, 20} : Late(d, a) /\ (sameDay => a # 0)
        BY <1>3, AirportDeliveries DEF ToSlots, Route
    <2> QED BY <1>0, <1>1, <1>3, <2>1 DEF Good, Hour
<1>4. CASE Kind(q.from) = "BOOTH" /\ Kind(q.to) = "HOTEL"
    <2>1. Late(d, IF sameDay THEN 21 ELSE 0)
        BY <1>4, HotelDeliveries DEF ToSlots, Route
    <2> QED BY <1>0, <1>1, <1>4, <2>1 DEF Good, Hour
<1>5. CASE Kind(q.from) = "BOOTH" /\ Kind(q.to) = "AIRPORT"
    <2>1. PICK a \in {0, 18, 19, 20} : Late(d, a) /\ (sameDay => a # 0)
        BY <1>5, AirportDeliveries DEF ToSlots, Route
    <2> QED BY <1>0, <1>1, <1>5, <2>1 DEF Good, Hour
<1>6. CASE Kind(q.from) = "AIRPORT" /\ Kind(q.to) = "AIRPORT"
    <2>1. PICK a \in {0, 20, 21} :
              Late(d, a) /\ (sameDay => a # 0 /\ f < 17 * Hour)
        BY <1>0, <1>6, AirportTransfers DEF ToSlots, Route
    <2> QED BY <1>0, <1>1, <2>1 DEF Hour
<1>7. CASE Kind(q.from) = "AIRPORT" /\ Kind(q.to) = "HOTEL"
    <2>1. PICK a \in {0, 19, 21} :
              /\ Late(d, a)
              /\ sameDay /\ q.from = 1 /\ q.to = 9 => a = 21 /\ f < 16 * Hour
        BY <1>0, <1>7, FromAirportDeliveries DEF ToSlots, Route
    <2>2. q.from = 1 /\ q.to = 9
        BY <1>7 DEF Good
    <2> QED BY <1>0, <1>1, <2>1, <2>2 DEF Hour
<1>8. CASE Kind(q.from) = "AIRPORT" /\ Kind(q.to) = "BOOTH"
    <2>1. Late(d, 17) /\ f < 12 * Hour
        BY <1>0, <1>8, BoothDeliveries DEF ToSlots, Route
    <2> QED BY <1>0, <1>1, <2>1 DEF Hour
<1>9. ~(Kind(q.from) \in {"HOTEL", "BOOTH"} /\ Kind(q.to) = "BOOTH")
    BY DEF ToSlots, Route
<1>10. /\ Kind(q.from) \in {"HOTEL", "AIRPORT", "BOOTH"}
       /\ Kind(q.to) \in {"HOTEL", "AIRPORT", "BOOTH"}
    BY KindIs
<1> HIDE DEF f
<1> QED BY <1>2, <1>3, <1>4, <1>5, <1>6, <1>7, <1>8, <1>9, <1>10

(* Deliveries of the pickup date and of the day after follow the pickup.   *)
LEMMA DeliveriesFollow ==
    ASSUME NEW q, q.from \in Branches, q.to \in Branches,
           NEW days \in {0, 1}, NEW slot, Good(q, slot),
           NEW d \in ToSlots(q, days = 0, Instant(slot))
    PROVE  Instant(d) + days * 24 * Hour > Instant(slot)
<1>1. /\ d \in SlotTimes /\ d \in Nat
      /\ days = 0 => d >= 17 * Hour /\ d > Instant(slot)
    <2>1. (days = 0) \in BOOLEAN
        OBVIOUS
    <2> QED BY <2>1, DeliveriesAre
<1>2. slot \in Nat /\ slot <= LastSlot
    <2>1. PICK k \in 0 .. 47 : slot = k * HalfHour
        BY DEF Good, SlotTimes
    <2> QED BY <2>1 DEF LastSlot, HalfHour, Hour
<1> QED BY <1>1, <1>2 DEF Instant, LastSlot, Hour, HalfHour

-----------------------------------------------------------------------------
(* The shape of the answers.                                               *)
LEMMA TimesAreNat ==
    \A t \in Clock : t \in Nat
<1>1. Hour \in Nat
    BY DEF Hour
<1> QED BY <1>1, ClockAssumption DEF ServerDay

LEMMA RefusalIs ==
    ASSUME NEW q, NEW tooEarly
    PROVE  \/ /\ Refusal(q, tooEarly) = {}
              /\ q.from \in Branches /\ q.to \in Branches
           \/ \E s \in DefaultStatus : Refusal(q, tooEarly) = {s}
BY DEF Refusal, DefaultStatus

LEMMA FromSlotsIs ==
    ASSUME NEW q, NEW t
    PROVE  \E s \in {"SUCCESS", "exception"} : \E slots :
               FromSlots(q, t) = Answer(s, slots)
<1>1. \E s \in {"SUCCESS", "exception"} : \E slots :
          AirportToHotel(q, t) = Answer(s, slots)
    BY DEF AirportToHotel, Offered, Throws
<1>2. \E s \in {"SUCCESS", "exception"} : \E slots :
          BoothToHotel(q, t) = Answer(s, slots)
    <2>1. \/ \E slots : BoothToHotel(q, t) = Offered(slots)
          \/ BoothToHotel(q, t) = Throws
        BY DEF BoothToHotel
    <2> QED BY <2>1 DEF Offered, Throws
<1>3. \/ FromSlots(q, t) \in {AirportToHotel(q, t), BoothToHotel(q, t)}
      \/ \E slots : FromSlots(q, t) = Offered(slots)
    BY DEF FromSlots
<1> QED BY <1>1, <1>2, <1>3 DEF Offered

LEMMA FromAnswers ==
    ASSUME NEW q, NEW t \in Nat
    PROVE  /\ FromTimeSlotDefault(q, t) \in SlotAnswer
           /\ \A slot \in FromTimeSlotDefault(q, t).slots :
                  /\ q.from \in Branches /\ q.to \in Branches
                  /\ Good(q, slot) /\ Ahead(q, t, slot)
<1> DEFINE refusal == Refusal(q, q.day = "past")
<1>1. CASE refusal = {} /\ q.from \in Branches /\ q.to \in Branches
    <2>1. FromTimeSlotDefault(q, t) = FromSlots(q, t)
        BY <1>1 DEF FromTimeSlotDefault
    <2>2. \A slot \in FromSlots(q, t).slots : Good(q, slot) /\ Ahead(q, t, slot)
        BY <1>1, PickupsAre
    <2>i. PICK s \in {"SUCCESS", "exception"} : \E slots :
              FromSlots(q, t) = Answer(s, slots)
        BY FromSlotsIs
    <2>3. PICK slots : FromSlots(q, t) = Answer(s, slots)
        BY <2>i
    <2>4. \A slot \in slots : slot \in SlotTimes
        BY <2>2, <2>3 DEF Answer, Good
    <2>5. Answer(s, slots) \in SlotAnswer
        BY <2>4 DEF Answer, SlotAnswer, SlotTimes, DefaultStatus
    <2> QED BY <1>1, <2>1, <2>2, <2>3, <2>5
<1>2. ASSUME NEW s \in DefaultStatus, refusal = {s}
      PROVE  FromTimeSlotDefault(q, t) = Answer(s, {})
    BY <1>2 DEF FromTimeSlotDefault
<1>3. \A s \in DefaultStatus :
          Answer(s, {}) \in SlotAnswer /\ Answer(s, {}).slots = {}
    BY DEF Answer, SlotAnswer
<1>4. \/ refusal = {} /\ q.from \in Branches /\ q.to \in Branches
      \/ \E s \in DefaultStatus : refusal = {s}
    BY RefusalIs
<1> HIDE DEF refusal
<1> QED BY <1>1, <1>2, <1>3, <1>4

LEMMA ToAnswers ==
    ASSUME NEW q, q.from \in Branches, q.to \in Branches,
           NEW days \in Int, NEW slot, Good(q, slot)
    PROVE  LET answer == ToTimeSlotDefault(q, days, Instant(slot))
           IN  /\ answer \in SlotAnswer
               /\ days \in {0, 1} => \A d \in answer.slots :
                      Instant(d) + days * 24 * Hour > Instant(slot)
<1> DEFINE refusal == Refusal(q, q.day = "today" /\ days < 0)
           f == Instant(slot)
<1>1. CASE refusal = {}
    <2>1. ToTimeSlotDefault(q, days, f) = Offered(ToSlots(q, days = 0, f))
        BY <1>1 DEF ToTimeSlotDefault
    <2>2. (days = 0) \in BOOLEAN
        OBVIOUS
    <2>3. \A d \in ToSlots(q, days = 0, f) : d \in SlotTimes
        BY <2>2, DeliveriesAre
    <2>4. days \in {0, 1} => \A d \in ToSlots(q, days = 0, f) :
              Instant(d) + days * 24 * Hour > Instant(slot)
        BY DeliveriesFollow
    <2>5. "SUCCESS" \in DefaultStatus
        BY DEF DefaultStatus
    <2> HIDE DEF f
    <2>6. ToSlots(q, days = 0, f) \in SUBSET SlotTimes
        BY <2>3
    <2>7. Offered(ToSlots(q, days = 0, f)) \in SlotAnswer
        BY <2>5, <2>6 DEF Offered, Answer, SlotAnswer, SlotTimes
    <2>8. Offered(ToSlots(q, days = 0, f)).slots = ToSlots(q, days = 0, f)
        BY DEF Offered, Answer
    <2> QED BY <2>1, <2>4, <2>7, <2>8 DEF f
<1>2. ASSUME NEW s \in DefaultStatus, refusal = {s}
      PROVE  ToTimeSlotDefault(q, days, f) = Answer(s, {})
    BY <1>2 DEF ToTimeSlotDefault
<1>3. \A s \in DefaultStatus :
          Answer(s, {}) \in SlotAnswer /\ Answer(s, {}).slots = {}
    BY DEF Answer, SlotAnswer
<1>4. refusal = {} \/ \E s \in DefaultStatus : refusal = {s}
    BY RefusalIs
<1> HIDE DEF refusal
<1> QED BY <1>1, <1>2, <1>3, <1>4

-----------------------------------------------------------------------------
(* The inductive invariant: what is offered keeps the rule it was made by, *)
(* so does the pickup taken from it, and the deliveries were computed for  *)
(* that pickup in the second that still is.                                *)
Known(q) == q.from \in Branches /\ q.to \in Branches

OfferInv ==
    \A slot \in offer.slots :
        /\ Known(query)
        /\ Good(query, slot)
        /\ Ahead(query, askedAt, slot)

PickInv ==
    pickup # NoTime =>
        /\ Known(query)
        /\ \E slot \in SlotTimes : Good(query, slot) /\ pickup = Instant(slot)

DeliveryInv ==
    /\ pickup = NoTime => delivery.slots = {}
    /\ DeliveryFollowsPickup

IInv == TypeOK /\ OfferInv /\ PickInv /\ DeliveryInv

LEMMA NoAnswerIs ==
    NoAnswer \in SlotAnswer /\ NoAnswer.slots = {}
BY DEF NoAnswer, Answer, SlotAnswer

LEMMA InitInv == Init => IInv
<1> SUFFICES ASSUME Init PROVE IInv
    OBVIOUS
<1>1. TypeOK
    <2>1. query \in Query
        <3>1. PICK p \in Pairs, d \in Days, w \in BOOLEAN :
                  query = [from |-> p[1], to |-> p[2], day |-> d, workday |-> w]
            BY DEF Init
        <3>2. p \in (Branches \cup {Unknown}) \X (Branches \cup {Unknown})
            BY PairsAssumption
        <3> QED BY <3>1, <3>2, DaysAssumption DEF Query
    <2> QED BY <2>1, NoAnswerIs DEF Init, TypeOK, NoTime
<1>2. OfferInv /\ PickInv /\ DeliveryInv
    BY NoAnswerIs DEF Init, OfferInv, PickInv, DeliveryInv,
                      DeliveryFollowsPickup
<1> QED BY <1>1, <1>2 DEF IInv

(* The times a pickup may have, as instants.                               *)
LEMMA InstantIs ==
    ASSUME NEW slot \in SlotTimes
    PROVE  /\ Instant(slot) \in {k * HalfHour : k \in 14 .. 61}
           /\ Instant(slot) # NoTime
<1>1. PICK k \in 0 .. 47 : slot = k * HalfHour
    BY DEF SlotTimes
<1>2. CASE k >= 14
    <2>1. Instant(slot) = k * HalfHour /\ k \in 14 .. 61
        BY <1>1, <1>2 DEF Instant, HalfHour, Hour
    <2>2. k * HalfHour # NoTime
        BY DEF HalfHour, NoTime
    <2> QED BY <2>1, <2>2
<1>3. CASE ~(k >= 14)
    <2>1. Instant(slot) = (k + 48) * HalfHour /\ k + 48 \in 14 .. 61
        BY <1>1, <1>3 DEF Instant, HalfHour, Hour
    <2>2. (k + 48) * HalfHour # NoTime
        BY DEF HalfHour, NoTime
    <2> QED BY <2>1, <2>2
<1> QED BY <1>2, <1>3

LEMMA StepInv == IInv /\ [Next]_vars => IInv'
<1> SUFFICES ASSUME IInv, [Next]_vars PROVE IInv'
    OBVIOUS
<1> USE DEF IInv
<1>1. CASE Pass
    <2>1. TypeOK'
        BY <1>1 DEF Pass, TypeOK
    <2>2. OfferInv' /\ PickInv'
        BY <1>1 DEF Pass, OfferInv, PickInv
    <2>3. DeliveryInv'
        BY <1>1 DEF Pass, DeliveryInv, DeliveryFollowsPickup
    <2> QED BY <2>1, <2>2, <2>3
<1>2. CASE AskFrom
    <2>1. now \in Nat
        BY TimesAreNat DEF TypeOK
    <2>2. /\ offer' \in SlotAnswer
          /\ \A slot \in offer'.slots : Known(query) /\ Good(query, slot)
                                        /\ Ahead(query, now, slot)
        BY <1>2, <2>1, FromAnswers DEF AskFrom, Known
    <2>3. TypeOK'
        BY <1>2, <2>2 DEF AskFrom, TypeOK
    <2>4. OfferInv'
        BY <1>2, <2>2 DEF AskFrom, OfferInv
    <2>5. PickInv' /\ DeliveryInv'
        BY <1>2 DEF AskFrom, PickInv, DeliveryInv, DeliveryFollowsPickup
    <2> QED BY <2>3, <2>4, <2>5
<1>3. CASE Pick
    <2>1. PICK slot \in offer.slots : pickup' = Instant(slot)
        BY <1>3 DEF Pick
    <2>2. Known(query) /\ Good(query, slot) /\ slot \in SlotTimes
        BY <2>1 DEF OfferInv, Good
    <2>3. TypeOK'
        BY <1>3, <2>1, <2>2, InstantIs DEF Pick, TypeOK
    <2>4. OfferInv'
        BY <1>3 DEF Pick, OfferInv
    <2>5. PickInv'
        BY <1>3, <2>1, <2>2 DEF Pick, PickInv
    <2>6. DeliveryInv'
        BY <1>3, <2>1, <2>2, InstantIs
           DEF Pick, DeliveryInv, DeliveryFollowsPickup
    <2> QED BY <2>3, <2>4, <2>5, <2>6
<1>4. CASE AskTo
    <2>1. PICK slot \in SlotTimes :
              Known(query) /\ Good(query, slot) /\ pickup = Instant(slot)
        BY <1>4 DEF AskTo, PickInv
    <2>2. PICK days \in {-1, 0, 1} :
              /\ toDay' = days
              /\ delivery' =
                     ToTimeSlotDefault(query, DaysCounted(days, now), pickup)
        BY <1>4 DEF AskTo
    <2>3. /\ DaysCounted(days, now) \in Int
          /\ now # LastSecond => DaysCounted(days, now) = days
        BY <2>2 DEF DaysCounted
    <2>4. /\ delivery' \in SlotAnswer
          /\ DaysCounted(days, now) \in {0, 1} =>
                 \A d \in delivery'.slots :
                     Instant(d) + DaysCounted(days, now) * 24 * Hour > pickup
        BY <2>1, <2>2, <2>3, ToAnswers DEF Known
    <2>5. TypeOK'
        BY <1>4, <2>2, <2>4 DEF AskTo, TypeOK
    <2>6. OfferInv' /\ PickInv'
        BY <1>4 DEF AskTo, OfferInv, PickInv
    <2>7. DeliveryInv'
        <3>1. now # LastSecond /\ days >= 0 =>
                  \A d \in delivery'.slots :
                      Instant(d) + days * 24 * Hour > pickup
            BY <2>2, <2>3, <2>4
        <3> QED BY <1>4, <2>2, <3>1
                DEF AskTo, DeliveryInv, DeliveryFollowsPickup
    <2> QED BY <2>5, <2>6, <2>7
<1>5. CASE \E b \in Branches \cap {query.from, query.to} : Switch(b)
    <2>1. PICK b \in Branches \cap {query.from, query.to} : Switch(b)
        BY <1>5
    <2>2. TypeOK'
        BY <2>1 DEF Switch, TypeOK
    <2>3. OfferInv' /\ PickInv' /\ DeliveryInv'
        BY <2>1 DEF Switch, OfferInv, PickInv, DeliveryInv,
                    DeliveryFollowsPickup
    <2> QED BY <2>2, <2>3
<1>6. CASE UNCHANGED vars
    BY <1>6 DEF vars, TypeOK, OfferInv, PickInv, DeliveryInv,
                DeliveryFollowsPickup
<1> QED BY <1>1, <1>2, <1>3, <1>4, <1>5, <1>6 DEF Next

LEMMA Inductive == Spec => []IInv
BY InitInv, StepInv, PTL DEF Spec

(* Every time offered or settled on is a half hour of one day.             *)
THEOREM TypeCorrect == Spec => []TypeOK
<1>1. IInv => TypeOK
    BY DEF IInv
<1> QED BY <1>1, Inductive, PTL

(* No pickup offered for today lies before the minute it was asked for in. *)
THEOREM PickupsAreAhead == Spec => []PickupIsAhead
<1>1. IInv => PickupIsAhead
    BY DEF IInv, OfferInv, Ahead, PickupIsAhead
<1> QED BY <1>1, Inductive, PTL

(* The deliveries of the pickup date and of the day after follow the pickup*)
(* in all seconds of the server's day but its last.                        *)
THEOREM DeliveriesFollowPickups == Spec => []DeliveryFollowsPickup
<1>1. IInv => DeliveryFollowsPickup
    BY DEF IInv, DeliveryInv
<1> QED BY <1>1, Inductive, PTL

-----------------------------------------------------------------------------
(* Asking again.  The slots of generateTimeSlot are all the half hours     *)
(* between the rounded start and the end, and the rounding is monotone.    *)
LEMMA SlotsIff ==
    ASSUME NEW start \in Nat, NEW end \in Nat, NEW slot
    PROVE  slot \in Slots(start, end) <=>
               /\ \E n \in Nat : slot = n * HalfHour
               /\ RoundUp(start) <= slot /\ slot <= end
<1> DEFINE R == RoundUp(start)
<1>1. PICK j \in Nat : R = j * HalfHour
    BY RoundUpIs
<1>2. ASSUME slot \in Slots(start, end)
      PROVE  /\ \E n \in Nat : slot = n * HalfHour
             /\ R <= slot /\ slot <= end
    <2>1. PICK k \in 0 .. (end - R) \div HalfHour : slot = R + k * HalfHour
        BY <1>2 DEF Slots
    <2> HIDE DEF R
    <2>2. k \in Nat /\ k * HalfHour <= end - R
        BY <1>1, <2>1 DEF HalfHour
    <2>3. slot = (j + k) * HalfHour /\ j + k \in Nat
        BY <1>1, <2>1, <2>2 DEF HalfHour
    <2>4. R <= slot /\ slot <= end
        BY <1>1, <2>1, <2>2 DEF HalfHour
    <2> QED BY <2>3, <2>4
<1>3. ASSUME NEW n \in Nat, slot = n * HalfHour, R <= slot, slot <= end
      PROVE  slot \in Slots(start, end)
    <2> HIDE DEF R
    <2>1. /\ n - j \in Nat
          /\ slot = R + (n - j) * HalfHour
          /\ (n - j) * HalfHour <= end - R
        BY <1>1, <1>3 DEF HalfHour
    <2>2. n - j \in 0 .. (end - R) \div HalfHour
        BY <1>1, <2>1 DEF HalfHour
    <2> QED BY <2>1, <2>2 DEF Slots, R
<1> QED BY <1>2, <1>3

Parts(t, h, m, r) ==
    /\ m <= 59 /\ r <= 59
    /\ t = h * 3600 + m * 60 + r
    /\ RoundUp(t) = h * 3600 + (IF m >= 30 THEN 3600
                                ELSE IF m >= 1 THEN 1800 ELSE 0)

LEMMA RoundUpParts ==
    ASSUME NEW t \in Nat
    PROVE  \E h \in Nat, m \in Nat, r \in Nat : Parts(t, h, m, r)
<1> DEFINE h == t \div 3600
           m == (t % 3600) \div 60
           r == (t % 3600) % 60
<1>1. /\ h \in Nat /\ m \in Nat /\ r \in Nat /\ m <= 59 /\ r <= 59
      /\ t = h * 3600 + m * 60 + r
    OBVIOUS
<1>2. RoundUp(t) = h * 3600 + (IF m >= 30 THEN 3600
                               ELSE IF m >= 1 THEN 1800 ELSE 0)
    BY DEF RoundUp, Hour, HalfHour
<1> HIDE DEF h, m, r
<1> QED BY <1>1, <1>2 DEF Parts

LEMMA RoundUpIsMonotone ==
    ASSUME NEW s \in Nat, NEW t \in Nat, s <= t
    PROVE  RoundUp(s) <= RoundUp(t)
<1>1. PICK h \in Nat, m \in Nat, r \in Nat : Parts(s, h, m, r)
    BY RoundUpParts
<1>2. PICK i \in Nat, n \in Nat, u \in Nat : Parts(t, i, n, u)
    BY RoundUpParts
<1>3. h < i \/ (h = i /\ m <= n)
    BY <1>1, <1>2 DEF Parts
<1>4. CASE h < i
    BY <1>1, <1>2, <1>4 DEF Parts
<1>5. CASE h = i /\ m <= n
    BY <1>1, <1>2, <1>5 DEF Parts
<1> QED BY <1>3, <1>4, <1>5

(* The minute of a second, in seconds.                                     *)
Minute(t) == t - (t % 60)

(* The half hours that are left: all that do not lie before the minute of  *)
(* the start, to the end, but for one: asked in the very minute of a half  *)
(* hour, generateTimeSlot passes over it, and asked in that of a full hour *)
(* it does not.                                                            *)
THEOREM SlotsAreWhatIsLeft ==
    ASSUME NEW start \in Nat, NEW end \in Nat, NEW slot
    PROVE  slot \in Slots(start, end) <=>
               \E n \in Nat :
                   /\ slot = n * HalfHour
                   /\ Minute(start) <= slot /\ slot <= end
                   /\ ~(slot = Minute(start) /\ n % 2 = 1)
<1>1. PICK h \in Nat, m \in Nat, r \in Nat : Parts(start, h, m, r)
    BY RoundUpParts
<1>2. Minute(start) = h * 3600 + m * 60
    BY <1>1 DEF Parts, Minute
<1>3. ASSUME NEW n \in Nat
      PROVE  RoundUp(start) <= n * HalfHour <=>
                 /\ Minute(start) <= n * HalfHour
                 /\ ~(n * HalfHour = Minute(start) /\ n % 2 = 1)
    <2>1. PICK i \in Nat : n = 2 * i \/ n = 2 * i + 1
        <3>1. /\ n \div 2 \in Nat
              /\ n = 2 * (n \div 2) \/ n = 2 * (n \div 2) + 1
            OBVIOUS
        <3> QED BY <3>1
    <2>2. n = 2 * i => n % 2 = 0 /\ n * HalfHour = i * 3600
        BY DEF HalfHour
    <2>3. n = 2 * i + 1 => n % 2 = 1 /\ n * HalfHour = i * 3600 + 1800
        BY DEF HalfHour
    <2>4. CASE m >= 30
        BY <1>1, <1>2, <2>1, <2>2, <2>3, <2>4 DEF Parts
    <2>5. CASE m \in 1 .. 29
        BY <1>1, <1>2, <2>1, <2>2, <2>3, <2>5 DEF Parts
    <2>6. CASE m = 0
        BY <1>1, <1>2, <2>1, <2>2, <2>3, <2>6 DEF Parts
    <2> QED BY <2>4, <2>5, <2>6
<1> QED BY <1>3, SlotsIff

(* A window offers no more when asked later.                               *)
LEMMA WindowShrinks ==
    ASSUME NEW q, NEW s \in Nat, NEW t \in Nat, s <= t, NEW w,
           w.open \in Nat, w.cut \in Nat, w.late \in Nat, w.close \in Nat,
           w.late <= w.close,
           NEW slot \in InWindow(q, t, w)
    PROVE  slot \in InWindow(q, s, w)
<1>1. CASE ~SameNumber(q) \/ t <= w.open
    BY <1>1 DEF InWindow
<1>2. CASE SameNumber(q) /\ ~(t <= w.open)
    <2>1. slot \in Slots(t, w.late) /\ t <= w.cut
        BY <1>2 DEF InWindow
    <2>2. \A x \in Nat : RoundUp(x) \in Nat
        BY RoundUpIs
    <2>3. /\ \E n \in Nat : slot = n * HalfHour
          /\ RoundUp(t) <= slot /\ slot <= w.late
        BY <2>1, SlotsIff
    <2>4. slot \in Nat
        BY <2>3 DEF HalfHour
    <2>5. CASE s <= w.open
        <3>1. RoundUp(w.open) <= RoundUp(t)
            BY <1>2, RoundUpIsMonotone
        <3>2. RoundUp(w.open) <= slot /\ slot <= w.close
            BY <2>2, <2>3, <2>4, <3>1
        <3>3. slot \in Slots(w.open, w.close)
            BY <2>3, <3>2, SlotsIff
        <3> QED BY <2>5, <3>3 DEF InWindow
    <2>6. CASE ~(s <= w.open)
        <3>1. RoundUp(s) <= RoundUp(t)
            BY RoundUpIsMonotone
        <3>2. RoundUp(s) <= slot /\ slot <= w.late
            BY <2>2, <2>3, <2>4, <3>1
        <3>3. slot \in Slots(s, w.late)
            BY <2>3, <3>2, SlotsIff
        <3>4. s <= w.cut
            BY <2>1
        <3> QED BY <2>6, <1>2, <3>3, <3>4 DEF InWindow
    <2> QED BY <2>5, <2>6
<1> QED BY <1>1, <1>2

LEMMA HourWindowShrinks ==
    ASSUME NEW q, NEW s \in Nat, NEW t \in Nat, s <= t,
           NEW open \in Nat, NEW cut \in Nat, NEW late \in Nat,
           NEW close \in Nat, late <= close,
           NEW slot \in InWindow(q, t, Window(open, cut, late, close))
    PROVE  slot \in InWindow(q, s, Window(open, cut, late, close))
<1> DEFINE w == Window(open, cut, late, close)
<1>1. /\ w.open \in Nat /\ w.cut \in Nat /\ w.late \in Nat /\ w.close \in Nat
      /\ w.late <= w.close
    BY DEF Window, Hour
<1> HIDE DEF w
<1>2. slot \in InWindow(q, s, w)
    BY <1>1, WindowShrinks DEF w
<1> QED BY <1>2 DEF w

LEMMA HotelShrinks ==
    ASSUME NEW q, NEW s \in Nat, NEW t \in Nat, s <= t
    PROVE  /\ HotelToHotel(q, t) \subseteq HotelToHotel(q, s)
           /\ HotelToAirport(q, t) \subseteq HotelToAirport(q, s)
<1>1. /\ InWindow(q, t, Window(9, 12, 12, 12))
             \subseteq InWindow(q, s, Window(9, 12, 12, 12))
      /\ InWindow(q, t, Window(9, 13, 13, 13))
             \subseteq InWindow(q, s, Window(9, 13, 13, 13))
      /\ InWindow(q, t, Window(9, 13, 12, 13))
             \subseteq InWindow(q, s, Window(9, 13, 12, 13))
    BY HourWindowShrinks
<1> QED BY <1>1 DEF HotelToHotel, HotelToAirport

LEMMA AirportShrinks ==
    ASSUME NEW q, NEW s \in Nat, NEW t \in Nat, s <= t
    PROVE  /\ AirportToAirport(q, t) \subseteq AirportToAirport(q, s)
           /\ AirportToBooth(q, t) \subseteq AirportToBooth(q, s)
           /\ AirportToHotel(q, s).status = "SUCCESS" =>
                  AirportToHotel(q, t).slots \subseteq AirportToHotel(q, s).slots
<1>1. /\ InWindow(q, t, Window(8, 12, 23, 23))
             \subseteq InWindow(q, s, Window(8, 12, 23, 23))
      /\ InWindow(q, t, Window(0, 12, 23, 23))
             \subseteq InWindow(q, s, Window(0, 12, 23, 23))
    BY HourWindowShrinks
<1>2. AirportToAirport(q, t) \subseteq AirportToAirport(q, s)
    BY <1>1 DEF AirportToAirport
<1>3. AirportToBooth(q, t) \subseteq AirportToBooth(q, s)
    <2> DEFINE w(open) == [open |-> open * Hour, cut |-> 31 * Hour,
                           late |-> 23 * Hour + HalfHour,
                           close |-> 23 * Hour + HalfHour]
    <2>1. ASSUME NEW open \in Nat
          PROVE  /\ w(open).open \in Nat /\ w(open).cut \in Nat
                 /\ w(open).late \in Nat /\ w(open).close \in Nat
                 /\ w(open).late <= w(open).close
        BY DEF Hour, HalfHour
    <2>2. \A x : AirportToBooth(q, x) =
              CASE q.from = 1 -> InWindow(q, x, w(8))
                [] q.from = 3 -> InWindow(q, x, w(0))
                [] OTHER -> {}
        BY DEF AirportToBooth
    <2> HIDE DEF w
    <2>3. ASSUME NEW open \in Nat
          PROVE  InWindow(q, t, w(open)) \subseteq InWindow(q, s, w(open))
        BY <2>1, WindowShrinks
    <2>4. /\ InWindow(q, t, w(8)) \subseteq InWindow(q, s, w(8))
          /\ InWindow(q, t, w(0)) \subseteq InWindow(q, s, w(0))
        BY <2>3
    <2> QED BY <2>2, <2>4
<1>4. ASSUME AirportToHotel(q, s).status = "SUCCESS"
      PROVE  AirportToHotel(q, t).slots \subseteq AirportToHotel(q, s).slots
    BY <1>1, <1>4 DEF AirportToHotel, Offered, Throws, Answer
<1> QED BY <1>2, <1>3, <1>4

LEMMA BoothShrinks ==
    ASSUME NEW q, NEW s \in Nat, NEW t \in Nat, s <= t
    PROVE  /\ BoothToHotel(q, s).status = "SUCCESS" =>
                  BoothToHotel(q, t).slots \subseteq BoothToHotel(q, s).slots
           /\ q.from \notin {7, 17, 18} =>
                  BoothToAirport(q, t) \subseteq BoothToAirport(q, s)
<1>1. /\ InWindow(q, t, Window(10, 12, 16, 16))
             \subseteq InWindow(q, s, Window(10, 12, 16, 16))
      /\ InWindow(q, t, Window(10, 12, 13, 13))
             \subseteq InWindow(q, s, Window(10, 12, 13, 13))
    BY HourWindowShrinks
<1>2. ASSUME q.from \notin {7, 17, 18}
      PROVE  BoothToAirport(q, t) \subseteq BoothToAirport(q, s)
    BY <1>1, <1>2 DEF BoothToAirport
<1>3. CASE q.from \in {6, 18} /\ q.to \in {5, 9}
    BY <1>1, <1>2, <1>3 DEF BoothToHotel, Offered, Answer
<1>4. CASE q.from = 17 /\ q.to \in {5, 9}
    BY <1>1, <1>2, <1>4 DEF BoothToHotel, Offered, Answer
<1>5. CASE ~(q.from \in {6, 17, 18} /\ q.to \in {5, 9})
    <2>1. BoothToHotel(q, t).slots = {}
        BY <1>5 DEF BoothToHotel, Offered, Throws, Answer
    <2> QED BY <2>1, <1>2
<1> QED BY <1>2, <1>3, <1>4, <1>5

LEMMA FromSlotsShrink ==
    ASSUME NEW q, NEW s \in Nat, NEW t \in Nat, s <= t, ~OpensLate(q),
           FromSlots(q, s).status = "SUCCESS"
    PROVE  FromSlots(q, t).slots \subseteq FromSlots(q, s).slots
<1>1. CASE Route(q) = <<"HOTEL", "HOTEL">>
    BY <1>1, HotelShrinks DEF FromSlots, Offered, Answer
<1>2. CASE Route(q) = <<"HOTEL", "AIRPORT">>
    BY <1>2, HotelShrinks DEF FromSlots, Offered, Answer
<1>3. CASE Route(q) = <<"AIRPORT", "AIRPORT">>
    BY <1>3, AirportShrinks DEF FromSlots, Offered, Answer
<1>4. CASE Route(q) = <<"AIRPORT", "HOTEL">>
    <2>1. \A x : FromSlots(q, x) = AirportToHotel(q, x)
        BY <1>4 DEF FromSlots
    <2> QED BY <2>1, AirportShrinks
<1>5. CASE Route(q) = <<"AIRPORT", "BOOTH">>
    BY <1>5, AirportShrinks DEF FromSlots, Offered, Answer
<1>6. CASE Route(q) = <<"BOOTH", "HOTEL">>
    <2>1. \A x : FromSlots(q, x) = BoothToHotel(q, x)
        BY <1>6 DEF FromSlots
    <2> QED BY <2>1, BoothShrinks
<1>7. CASE Route(q) = <<"BOOTH", "AIRPORT">>
    <2>1. q.from \notin {7, 17, 18}
        BY <1>7 DEF OpensLate
    <2> QED BY <1>7, <2>1, BoothShrinks DEF FromSlots, Offered, Answer
<1>8. CASE /\ Route(q) # <<"HOTEL", "HOTEL">>
           /\ Route(q) # <<"HOTEL", "AIRPORT">>
           /\ Route(q) # <<"AIRPORT", "AIRPORT">>
           /\ Route(q) # <<"AIRPORT", "HOTEL">>
           /\ Route(q) # <<"AIRPORT", "BOOTH">>
           /\ Route(q) # <<"BOOTH", "HOTEL">>
           /\ Route(q) # <<"BOOTH", "AIRPORT">>
    BY <1>8 DEF FromSlots
<1> QED BY <1>1, <1>2, <1>3, <1>4, <1>5, <1>6, <1>7, <1>8

(* A successful offer is what the rules say at the time it was asked for.  *)
LEMMA FromTimeSlotIs ==
    ASSUME NEW q, NEW t
    PROVE  \/ FromTimeSlotDefault(q, t) = FromSlots(q, t)
           \/ /\ FromTimeSlotDefault(q, t).status # "SUCCESS"
              /\ FromTimeSlotDefault(q, t).slots = {}
<1> DEFINE refusal == Refusal(q, q.day = "past")
<1>1. CASE refusal = {}
    BY <1>1 DEF FromTimeSlotDefault
<1>2. ASSUME NEW s \in {"BRANCH_NOTFOUND", "BRANCH_INACTIVE", "FAIL"},
             refusal = {s}
      PROVE  /\ FromTimeSlotDefault(q, t).status # "SUCCESS"
             /\ FromTimeSlotDefault(q, t).slots = {}
    BY <1>2 DEF FromTimeSlotDefault, Answer
<1>3. \/ refusal = {}
      \/ \E s \in {"BRANCH_NOTFOUND", "BRANCH_INACTIVE", "FAIL"} :
             refusal = {s}
    BY DEF Refusal
<1> HIDE DEF refusal
<1> QED BY <1>1, <1>2, <1>3

AskedInv ==
    /\ now \in Nat
    /\ offer.status = "SUCCESS" =>
           /\ askedAt \in Nat /\ askedAt <= now
           /\ offer = FromSlots(query, askedAt)

LEMMA AskedStep ==
    AskedInv /\ [Next]_vars /\ TypeOK' => AskedInv'
<1> SUFFICES ASSUME AskedInv, [Next]_vars, TypeOK' PROVE AskedInv'
    OBVIOUS
<1> USE DEF AskedInv
<1>0. now' \in Nat
    BY TimesAreNat DEF TypeOK
<1>1. CASE Pass
    BY <1>0, <1>1, TimesAreNat DEF Pass
<1>2. CASE AskFrom
    <2>1. /\ offer' = FromTimeSlotDefault(query, now)
          /\ askedAt' = now /\ now' = now /\ query' = query
        BY <1>2 DEF AskFrom
    <2>2. offer'.status = "SUCCESS" => offer' = FromSlots(query', askedAt')
        BY <2>1, FromTimeSlotIs
    <2> QED BY <1>0, <2>1, <2>2
<1>3. CASE Pick
    BY <1>3 DEF Pick
<1>4. CASE AskTo
    BY <1>4 DEF AskTo
<1>5. CASE \E b \in Branches \cap {query.from, query.to} : Switch(b)
    BY <1>5 DEF Switch
<1>6. CASE UNCHANGED vars
    BY <1>6 DEF vars
<1> QED BY <1>1, <1>2, <1>3, <1>4, <1>5, <1>6 DEF Next

(* Who asks again later is offered no pickup that was not offered before,  *)
(* but for the booths that open late.                                      *)
THEOREM OffersShrink == Spec => OffersOnlyShrink
<1> DEFINE Shrinks ==
        (offer.status = "SUCCESS" /\ offer'.status = "SUCCESS"
            /\ ~OpensLate(query))
        => offer'.slots \subseteq offer.slots
<1>1. Init => AskedInv
    BY TimesAreNat DEF Init, AskedInv, NoAnswer, Answer
<1>2. AskedInv /\ [Next]_vars => [Shrinks]_vars
    <2> SUFFICES ASSUME AskedInv, Next, offer.status = "SUCCESS",
                        offer'.status = "SUCCESS", ~OpensLate(query)
                 PROVE  offer'.slots \subseteq offer.slots
        BY DEF vars
    <2>1. CASE AskFrom
        <3>1. offer' = FromTimeSlotDefault(query, now)
            BY <2>1 DEF AskFrom
        <3>2. offer' = FromSlots(query, now)
            BY <3>1, FromTimeSlotIs
        <3>3. /\ askedAt \in Nat /\ now \in Nat /\ askedAt <= now
              /\ offer = FromSlots(query, askedAt)
            BY DEF AskedInv
        <3> QED BY <3>2, <3>3, FromSlotsShrink
    <2>2. CASE Pass \/ Pick \/ AskTo
               \/ \E b \in Branches \cap {query.from, query.to} : Switch(b)
        BY <2>2 DEF Pass, Pick, AskTo, Switch
    <2> QED BY <2>1, <2>2 DEF Next
<1>3. Spec => []AskedInv
    <2>1. AskedInv /\ [Next]_vars /\ TypeOK' => AskedInv'
        BY AskedStep
    <2> QED BY <1>1, <2>1, TypeCorrect, PTL DEF Spec
<1> QED BY <1>2, <1>3, PTL DEF Spec, OffersOnlyShrink
-----------------------------------------------------------------------------
LEMMA SlotsShrink ==
    ASSUME NEW s \in Nat, NEW t \in Nat, s <= t, NEW end \in Nat
    PROVE  Slots(t, end) \subseteq Slots(s, end)
<1> SUFFICES ASSUME NEW slot \in Slots(t, end) PROVE slot \in Slots(s, end)
    OBVIOUS
<1>1. /\ \E n \in Nat : slot = n * HalfHour
      /\ RoundUp(t) <= slot /\ slot <= end
    BY SlotsIff
<1>2. RoundUp(s) <= RoundUp(t) /\ RoundUp(s) \in Nat /\ RoundUp(t) \in Nat
    BY RoundUpIsMonotone, RoundUpIs
<1>3. RoundUp(s) <= slot
    BY <1>1, <1>2 DEF HalfHour
<1> QED BY <1>1, <1>3, SlotsIff

(* Whoever picks a later time among the pickups is offered no delivery     *)
(* that an earlier pickup would not have been offered: the rules switch to *)
(* later openings, and then to none, as the pickup gets later.             *)
THEOREM LaterPickupsLeaveNoMore ==
    ASSUME NEW q, NEW sameDay \in BOOLEAN, NEW f \in Nat, NEW g \in Nat,
           f <= g
    PROVE  ToSlots(q, sameDay, g) \subseteq ToSlots(q, sameDay, f)
<1>1. HotelFromHotel(q, sameDay, g) \subseteq HotelFromHotel(q, sameDay, f)
    BY DEF HotelFromHotel, Hour
<1>2. AirportFromHotel(sameDay, g) \subseteq AirportFromHotel(sameDay, f)
    BY DEF AirportFromHotel, Hour
<1>3. AirportFromAirport(sameDay, g) \subseteq AirportFromAirport(sameDay, f)
    <2>1. Slots(21 * Hour, 23 * Hour + HalfHour)
              \subseteq Slots(20 * Hour, 23 * Hour + HalfHour)
        <3>1. /\ 20 * Hour \in Nat /\ 21 * Hour \in Nat
              /\ 20 * Hour <= 21 * Hour /\ 23 * Hour + HalfHour \in Nat
            BY DEF Hour, HalfHour
        <3> QED BY <3>1, SlotsShrink
    <2>2. /\ f < 14 * Hour \/ ~(g < 14 * Hour)
          /\ f < 17 * Hour \/ ~(g < 17 * Hour)
        BY DEF Hour
    <2>3. f < 14 * Hour => f < 17 * Hour
        BY DEF Hour
    <2> QED BY <2>1, <2>2, <2>3 DEF AirportFromAirport
<1>4. HotelFromAirport(q, sameDay, g) \subseteq HotelFromAirport(q, sameDay, f)
    <2>1. f >= 16 * Hour => g >= 16 * Hour
        BY DEF Hour
    <2> QED BY <2>1 DEF HotelFromAirport
<1>5. BoothFromAirport(q, g) \subseteq BoothFromAirport(q, f)
    <2>1. f >= 12 * Hour => g >= 12 * Hour
        BY DEF Hour
    <2> QED BY <2>1 DEF BoothFromAirport
<1>6. AirportFromBooth(q, sameDay, g) \subseteq AirportFromBooth(q, sameDay, f)
    <2>1. Between(20, 23) \subseteq Between(18, 23)
        <3>1. /\ 18 * Hour \in Nat /\ 20 * Hour \in Nat
              /\ 18 * Hour <= 20 * Hour /\ 23 * Hour \in Nat
            BY DEF Hour
        <3> QED BY <3>1, SlotsShrink DEF Between
    <2>2. f < 14 * Hour \/ ~(g < 14 * Hour)
        BY DEF Hour
    <2> QED BY <2>1, <2>2 DEF AirportFromBooth
<1> QED BY <1>1, <1>2, <1>3, <1>4, <1>5, <1>6 DEF ToSlots
=============================================================================
