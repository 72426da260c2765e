------------------------- MODULE BranchPagesProofs -------------------------
(***************************************************************************)
(* What holds of the pages of branches for any table, any list and any     *)
(* size of a page: types, and what a caller who reads all pages may miss   *)
(* or be shown twice.  The argument is about the place of a branch on the  *)
(* list, the number of listed branches before it.                          *)
(***************************************************************************)
EXTENDS BranchPages, FiniteSetTheorems, TLAPS

Smaller(S, b) == {c \in S : c < b}
Place(S, b) == Cardinality(Smaller(S, b))

(* Where the pages of numbers page and page + 1 begin.                     *)
LEMMA PageBounds ==
    ASSUME NEW p \in Nat \ {0}
    PROVE  /\ p * Size \in Nat
           /\ (p - 1) * Size \in Nat
           /\ p * Size = (p - 1) * Size + Size
           /\ ((p + 1) - 1) * Size = p * Size
<1>1. PICK q \in Nat : p = q + 1
    <2>1. p - 1 \in Nat /\ p = (p - 1) + 1
        OBVIOUS
    <2> QED  BY <2>1
<1>2. q * Size \in Nat /\ (q + 1) * Size = q * Size + Size
    BY SizeAssumption, SMT
<1>3. p - 1 = q /\ (p + 1) - 1 = p
    BY <1>1
<1> QED  BY <1>1, <1>2, <1>3, SizeAssumption

-----------------------------------------------------------------------------
(* Places on a finite list of numbers.                                     *)

LEMMA PlaceIsNumber ==
    ASSUME NEW S, IsFiniteSet(S), NEW b
    PROVE  /\ IsFiniteSet(Smaller(S, b))
           /\ Place(S, b) \in Nat
           /\ Place(S, b) <= Cardinality(S)
           /\ Cardinality(S) \in Nat
<1>1. Smaller(S, b) \in SUBSET S
    BY DEF Smaller
<1> QED  BY <1>1, FS_Subset, FS_CardinalityType DEF Place

(* Fewer before a branch, an earlier place.                                *)
LEMMA PlaceIsMonotone ==
    ASSUME NEW S, IsFiniteSet(S), NEW T, NEW b,
           Smaller(T, b) \subseteq Smaller(S, b)
    PROVE  Place(T, b) <= Place(S, b)
<1>1. IsFiniteSet(Smaller(S, b))
    BY PlaceIsNumber
<1> QED  BY <1>1, FS_Subset DEF Place

(* A member has a place on the list.                                       *)
LEMMA PlaceOfMember ==
    ASSUME NEW S \in SUBSET Nat, IsFiniteSet(S), NEW b \in S
    PROVE  Place(S, b) \in 0 .. Cardinality(S) - 1
<1>1. Smaller(S, b) \in SUBSET S /\ Smaller(S, b) # S
    BY DEF Smaller
<1>2. Place(S, b) # Cardinality(S)
    BY <1>1, FS_Subset DEF Place
<1> QED  BY <1>2, PlaceIsNumber

(* No two members share one.                                               *)
LEMMA PlacesDiffer ==
    ASSUME NEW S \in SUBSET Nat, IsFiniteSet(S), NEW a \in S, NEW b \in S,
           a < b
    PROVE  Place(S, a) < Place(S, b)
<1>1. Smaller(S, a) \in SUBSET Smaller(S, b)
    <2>1. \A c \in S : c < a => c < b
        OBVIOUS
    <2> QED  BY <2>1 DEF Smaller
<1>2. a \in Smaller(S, b) /\ a \notin Smaller(S, a)
    BY DEF Smaller
<1>3. IsFiniteSet(Smaller(S, b))
    BY PlaceIsNumber
<1>4. /\ Place(S, a) <= Place(S, b)
      /\ Place(S, b) # Place(S, a)
    BY <1>1, <1>2, <1>3, FS_Subset DEF Place
<1>5. Place(S, a) \in Nat /\ Place(S, b) \in Nat
    BY PlaceIsNumber
<1> QED  BY <1>4, <1>5

(* Every place of the list is taken.                                       *)
LEMMA PlacesAreTaken ==
    ASSUME NEW S \in SUBSET Nat, IsFiniteSet(S),
           NEW k \in 0 .. Cardinality(S) - 1
    PROVE  \E b \in S : Place(S, b) = k
<1> DEFINE R == 0 .. Cardinality(S) - 1
           f == [b \in S |-> Place(S, b)]
<1>1. Cardinality(S) \in Nat
    BY FS_CardinalityType
<1>2. IsFiniteSet(R) /\ Cardinality(R) = Cardinality(S)
    BY <1>1, FS_Interval
<1>3. f \in [S -> R]
    BY PlaceOfMember
<1>4. ASSUME NEW a \in S, NEW b \in S, f[a] = f[b]
      PROVE  a = b
    <2>1. Place(S, a) = Place(S, b) /\ Place(S, a) \in R
        BY <1>4, PlaceOfMember
    <2>2. ~ (a < b) /\ ~ (b < a)
        BY <2>1, PlacesDiffer, <1>1
    <2> QED  BY <2>2
<1>5. f \in Injection(S, R)
    BY <1>3, <1>4 DEF Injection, IsInjective
<1> HIDE DEF R, f
<1>6. f \in Surjection(S, R)
    BY <1>5, <1>2, FS_Injection
<1>7. \A r \in R : \E b \in S : f[b] = r
    BY <1>6 DEF Surjection
<1> QED  BY <1>7 DEF f, R

(* A page before a member's own is full.                                   *)
LEMMA EarlierPagesAreFull ==
    ASSUME NEW S \in SUBSET Nat, IsFiniteSet(S), NEW p \in Nat \ {0},
           NEW b \in S, Place(S, b) >= p * Size
    PROVE  Cardinality(PageOf(S, p)) >= Size
<1> DEFINE I == (p - 1) * Size .. p * Size - 1
           P == PageOf(S, p)
           f == [c \in P |-> Place(S, c)]
<1>1. /\ p * Size \in Nat
      /\ (p - 1) * Size \in Nat
      /\ p * Size = (p - 1) * Size + Size
    BY PageBounds
<1>2. P = {c \in S : Place(S, c) \in I}
    BY DEF PageOf, Place, Smaller
<1>3. f \in [P -> I]
    BY <1>2
<1>4. Place(S, b) \in 0 .. Cardinality(S) - 1 /\ Cardinality(S) \in Nat
    BY PlaceOfMember, FS_CardinalityType
<1>5. \A k \in I : \E c \in P : f[c] = k
    <2> SUFFICES ASSUME NEW k \in I PROVE \E c \in P : f[c] = k
        OBVIOUS
    <2>1. k \in 0 .. Cardinality(S) - 1
        BY <1>1, <1>4
    <2>2. PICK c \in S : Place(S, c) = k
        BY <2>1, PlacesAreTaken
    <2> QED  BY <2>2, <1>2
<1>6. IsFiniteSet(P) /\ Cardinality(P) \in Nat
    BY <1>2, FS_Subset, FS_CardinalityType
<1>7. Cardinality(I) = Size
    BY <1>1, FS_Interval, SizeAssumption
<1> HIDE DEF I, P, f
<1>8. f \in Surjection(P, I)
    BY <1>3, <1>5 DEF Surjection
<1>9. Cardinality(I) <= Cardinality(P)
    BY <1>8, <1>6, FS_Surjection
<1> QED  BY <1>6, <1>7, <1>9, SizeAssumption DEF P

-----------------------------------------------------------------------------
(* Every reachable state is well typed; no count is beyond the list        *)
(* (findBranchAvailables).                                                 *)

LEMMA ListedIsFinite ==
    /\ Listed \in SUBSET Nat
    /\ IsFiniteSet(Listed)
    /\ Cardinality(Listed) \in Nat
BY BranchesAssumption, FS_Subset, FS_CardinalityType

LEMMA AvailableIsFinite ==
    /\ Available \in SUBSET Nat
    /\ IsFiniteSet(Available)
    /\ Cardinality(Available) \in 0 .. Cardinality(Listed)
<1>1. Available \in SUBSET Listed
    BY DEF Available
<1>2. IsFiniteSet(Available) /\ Cardinality(Available) <= Cardinality(Listed)
    BY <1>1, ListedIsFinite, FS_Subset
<1>3. Cardinality(Available) \in Nat
    BY <1>2, FS_CardinalityType
<1> QED  BY <1>1, <1>2, <1>3, ListedIsFinite

LEMMA InitTypes == Init => TypeOK
BY ListedIsFinite DEF Init, TypeOK

LEMMA StepTypes == TypeOK /\ [Next]_vars => TypeOK'
<1> SUFFICES ASSUME TypeOK, [Next]_vars PROVE TypeOK'
    OBVIOUS
<1> USE DEF TypeOK, history
<1>1. CASE Count
    BY <1>1, AvailableIsFinite DEF Count
<1>2. CASE ReadPage
    <2>1. PageOf(Available, page) \subseteq Listed
        BY DEF PageOf, Available
    <2> QED  BY <1>2, <2>1 DEF ReadPage
<1>3. CASE DatabaseFails
    BY <1>3 DEF DatabaseFails
<1>4. ASSUME NEW b \in Branches, Switch(b) PROVE TypeOK'
    BY <1>4 DEF Switch
<1>5. CASE UNCHANGED vars
    BY <1>5 DEF vars
<1> QED  BY <1>1, <1>2, <1>3, <1>4, <1>5 DEF Next

(* Types hold in every reachable state.                                    *)
THEOREM TypeCorrect == Spec => []TypeOK
<1> QED  BY InitTypes, StepTypes, PTL DEF Spec

-----------------------------------------------------------------------------
(* What a switch does to the place of a branch.                            *)

LEMMA PlacesAfterSwitch ==
    ASSUME TypeOK, NEW c \in Branches, Switch(c), NEW b
    PROVE  /\ ~ Before(cameOn', b) =>
                   Place(Available', b) <= Place(Available, b)
           /\ ~ Before(wentOff', b) =>
                   Place(Available', b) >= Place(Available, b)
<1>1. IsFiniteSet(Available) /\ IsFiniteSet(Available')
    <2>1. Available' \in SUBSET Listed
        BY DEF Available
    <2> QED  BY <2>1, AvailableIsFinite, ListedIsFinite, FS_Subset
<1>2. Place(Available, b) \in Nat /\ Place(Available', b) \in Nat
    BY <1>1, PlaceIsNumber
<1>3. ASSUME ~ Before(cameOn', b)
      PROVE  Smaller(Available', b) \subseteq Smaller(Available, b)
    BY <1>3 DEF Smaller, Available, Before, Switch
<1>4. ASSUME ~ Before(wentOff', b)
      PROVE  Smaller(Available, b) \subseteq Smaller(Available', b)
    BY <1>4 DEF Smaller, Available, Before, Switch
<1> QED  BY <1>1, <1>2, <1>3, <1>4, PlaceIsMonotone

(* History only grows.                                                     *)
LEMMA HistoryGrows ==
    ASSUME NEW c \in Branches, Switch(c), NEW b
    PROVE  /\ Before(cameOn, b) => Before(cameOn', b)
           /\ Before(wentOff, b) => Before(wentOff', b)
BY DEF Switch, Before

-----------------------------------------------------------------------------
(* A branch shown already lies before the page asked for, unless one       *)
(* before it came on and pushed it back.                                   *)
ShownLieBehind ==
    pc # "over" =>
        \A b \in got : ~ Before(cameOn, b) =>
            Place(Available, b) < (page - 1) * Size

TwiceInv == ShownLieBehind /\ ShownTwiceOnlyAfterSwitchOn

LEMMA StepTwice == TypeOK /\ TwiceInv /\ [Next]_vars => TwiceInv'
<1> SUFFICES ASSUME TypeOK, TwiceInv, [Next]_vars PROVE TwiceInv'
    OBVIOUS
<1> USE DEF TwiceInv, ShownLieBehind, ShownTwiceOnlyAfterSwitchOn
<1>1. CASE Count
    BY <1>1 DEF Count, history, Available
<1>2. CASE ReadPage
    <2> DEFINE rows == PageOf(Available, page)
    <2>1. /\ page * Size \in Nat /\ (page - 1) * Size \in Nat
          /\ page * Size = (page - 1) * Size + Size
          /\ ((page + 1) - 1) * Size = page * Size
        BY PageBounds DEF TypeOK
    <2>2. \A b \in rows : /\ Place(Available, b) >= (page - 1) * Size
                          /\ Place(Available, b) < page * Size
        BY <2>1 DEF PageOf, Place, Smaller
    <2>3. \A b : Place(Available, b) \in Nat
        BY AvailableIsFinite, PlaceIsNumber
    <2>4. /\ got' = got \cup rows
          /\ twice' = twice \cup (got \cap rows)
          /\ pc' # "over" => page' = page + 1
          /\ pc = "page"
          /\ Available' = Available /\ cameOn' = cameOn
        BY <1>2 DEF ReadPage, history, Available
    <2> HIDE DEF rows
    <2>5. ShownTwiceOnlyAfterSwitchOn'
        <3> SUFFICES ASSUME NEW b \in got \cap rows PROVE Before(cameOn, b)
            BY <2>4 DEF Before
        <3>1. ~ (Place(Available, b) < (page - 1) * Size)
            BY <2>1, <2>2, <2>3
        <3> QED  BY <2>4, <3>1
    <2>6. ShownLieBehind'
        <3> SUFFICES ASSUME pc' # "over", NEW b \in got \cup rows,
                            ~ Before(cameOn, b)
                     PROVE  Place(Available, b) < page * Size
            BY <2>1, <2>4 DEF Before, Place, Smaller
        <3>1. CASE b \in rows
            BY <2>2, <3>1
        <3>2. CASE b \in got
            <4>1. Place(Available, b) < (page - 1) * Size
                BY <2>4, <3>2
            <4> QED  BY <4>1, <2>1, <2>3, SizeAssumption
        <3> QED  BY <3>1, <3>2
    <2> QED  BY <2>5, <2>6
<1>3. CASE DatabaseFails
    BY <1>3 DEF DatabaseFails, history, Available, Place, Smaller, Before
<1>4. ASSUME NEW c \in Branches, Switch(c) PROVE TwiceInv'
    <2>1. /\ got' = got /\ twice' = twice /\ page' = page /\ pc # "over"
        BY <1>4 DEF Switch
    <2>2. ShownTwiceOnlyAfterSwitchOn'
        BY <2>1, <1>4, HistoryGrows
    <2>3. ShownLieBehind'
        <3> SUFFICES ASSUME NEW b \in got, ~ Before(cameOn', b)
                     PROVE  Place(Available', b) < (page - 1) * Size
            BY <2>1
        <3>1. ~ Before(cameOn, b)
            BY <1>4, HistoryGrows
        <3>2. Place(Available, b) < (page - 1) * Size
            BY <2>1, <3>1
        <3>3. Place(Available', b) <= Place(Available, b)
            BY <1>4, PlacesAfterSwitch
        <3>4. Place(Available, b) \in Nat /\ Place(Available', b) \in Nat
            <4>1. IsFiniteSet(Available')
                BY ListedIsFinite, FS_Subset DEF Available
            <4> QED  BY <4>1, AvailableIsFinite, PlaceIsNumber
        <3>5. (page - 1) * Size \in Nat
            BY PageBounds DEF TypeOK
        <3> QED  BY <3>2, <3>3, <3>4, <3>5
    <2> QED  BY <2>2, <2>3
<1>5. CASE UNCHANGED vars
    BY <1>5 DEF vars, Available, Place, Smaller, Before
<1> QED  BY <1>1, <1>2, <1>3, <1>4, <1>5 DEF Next

(* A branch is shown on two pages only if one before it was switched on    *)
(* meanwhile (the ORDER BY and OFFSET of findBranchAvailables), for any    *)
(* number of branches and any size of a page.                              *)
THEOREM ShownOnce == Spec => []ShownTwiceOnlyAfterSwitchOn
<1>1. Init => TwiceInv
    BY DEF Init, TwiceInv, ShownLieBehind, ShownTwiceOnlyAfterSwitchOn
<1> QED  BY <1>1, StepTwice, TypeCorrect, PTL DEF Spec, TwiceInv

-----------------------------------------------------------------------------
(* A branch that was on all the while and is not shown yet lies on the     *)
(* pages still to come, unless one before it went off; and within the      *)
(* count the caller was told, unless one before it came on.                *)
MissingLieAhead ==
    pc # "over" =>
        \A b \in (steady \cap Listed) \ got : ~ Before(wentOff, b) =>
            Place(Available, b) >= (page - 1) * Size
SteadyAreCounted ==
    pc = "page" =>
        \A b \in steady \cap Listed : ~ Before(cameOn, b) =>
            Place(Available, b) < total

MissedInv == MissingLieAhead /\ SteadyAreCounted /\ MissedOnlyAfterSwitch

LEMMA InitMissed == Init => MissedInv
<1> SUFFICES ASSUME Init PROVE MissedInv
    OBVIOUS
<1>1. (page - 1) * Size = 0
    BY SizeAssumption DEF Init
<1>2. \A b : Place(Available, b) \in Nat
    BY AvailableIsFinite, PlaceIsNumber
<1> QED  BY <1>1, <1>2 DEF Init, MissedInv, MissingLieAhead,
            SteadyAreCounted, MissedOnlyAfterSwitch

LEMMA CountMissed == TypeOK /\ MissedInv /\ Count => MissedInv'
<1> SUFFICES ASSUME TypeOK, MissedInv, Count PROVE MissedInv'
    OBVIOUS
<1> USE DEF MissedInv
<1>1. /\ pc = "count"
      /\ total' = Cardinality(Available)
      /\ pc' = IF total' = 0 THEN "over" ELSE "page"
      /\ active' = active /\ page' = page /\ got' = got
      /\ trusting' = trusting /\ steady' = steady
      /\ wentOff' = wentOff /\ cameOn' = cameOn
    BY DEF Count, history
<1>2. steady \cap Listed \subseteq Available
    BY DEF TypeOK, Available
<1>3. Available' = Available
    BY <1>1 DEF Available
<1>4. MissingLieAhead'
    BY <1>1, <1>3 DEF MissingLieAhead, Before, Place, Smaller
<1>5. SteadyAreCounted'
    <2>1. \A b \in Available : Place(Available, b) < Cardinality(Available)
        BY AvailableIsFinite, PlaceOfMember
    <2> QED  BY <2>1, <1>1, <1>2, <1>3 DEF SteadyAreCounted, Place, Smaller
<1>6. MissedOnlyAfterSwitch'
    <2>1. total' = 0 => Available = {}
        BY <1>1, AvailableIsFinite, FS_EmptySet
    <2> QED  BY <2>1, <1>1, <1>2 DEF MissedOnlyAfterSwitch
<1> QED  BY <1>4, <1>5, <1>6

LEMMA ReadPageMissed == TypeOK /\ MissedInv /\ ReadPage => MissedInv'
<1> SUFFICES ASSUME TypeOK, MissedInv, ReadPage PROVE MissedInv'
    OBVIOUS
<1> USE DEF MissedInv
<1> DEFINE rows == PageOf(Available, page)
           last == IF trusting THEN page * Size >= total
                   ELSE Cardinality(rows) < Size
<1>1. /\ pc = "page"
      /\ got' = got \cup rows
      /\ pc' = IF last THEN "over" ELSE "count"
      /\ page' = IF last THEN page ELSE page + 1
      /\ active' = active /\ total' = total
      /\ trusting' = trusting /\ steady' = steady
      /\ wentOff' = wentOff /\ cameOn' = cameOn
    BY DEF ReadPage, history
<1>2. /\ page * Size \in Nat /\ (page - 1) * Size \in Nat
      /\ ((page + 1) - 1) * Size = page * Size
    BY PageBounds DEF TypeOK
<1>3. Available' = Available
    BY <1>1 DEF Available
<1>4. \A b : Place(Available, b) \in Nat
    BY AvailableIsFinite, PlaceIsNumber
<1>5. ASSUME NEW b \in (steady \cap Listed) \ got', ~ Before(wentOff, b)
      PROVE  b \in Available /\ Place(Available, b) >= page * Size
    <2>1. b \in Available /\ b \notin rows /\ b \notin got
        BY <1>1, <1>5 DEF TypeOK, Available
    <2>2. Place(Available, b) >= (page - 1) * Size
        BY <2>1, <1>1, <1>5 DEF MissingLieAhead
    <2>3. Place(Available, b) \notin (page - 1) * Size .. page * Size - 1
        BY <2>1 DEF PageOf, Place, Smaller
    <2> QED  BY <2>1, <2>2, <2>3, <1>2, <1>4
<1> HIDE DEF rows
<1>6. MissingLieAhead'
    BY <1>1, <1>2, <1>3, <1>5 DEF MissingLieAhead, Before, Place, Smaller
<1>7. SteadyAreCounted'
    BY <1>1 DEF SteadyAreCounted
<1>8. MissedOnlyAfterSwitch'
    <2> SUFFICES ASSUME last, NEW b \in (steady \cap Listed) \ got',
                        ~ Before(wentOff, b)
                 PROVE  trusting /\ Before(cameOn, b)
        BY <1>1 DEF MissedOnlyAfterSwitch, Before
    <2>1. b \in Available /\ Place(Available, b) >= page * Size
        BY <1>5
    <2>2. CASE ~ trusting
        <3>1. Cardinality(rows) >= Size
            BY <2>1, AvailableIsFinite, EarlierPagesAreFull DEF rows, TypeOK
        <3>2. Cardinality(rows) < Size
            BY <2>2
        <3>3. Cardinality(rows) \in Nat
            <4>1. rows \in SUBSET Available
                BY DEF rows, PageOf
            <4> QED  BY <4>1, AvailableIsFinite, FS_Subset,
                        FS_CardinalityType
        <3> QED  BY <3>1, <3>2, <3>3, SizeAssumption
    <2>3. CASE trusting
        <3>1. page * Size >= total /\ total \in Nat
            BY <2>3, ListedIsFinite DEF TypeOK
        <3>2. ~ (Place(Available, b) < total)
            BY <3>1, <2>1, <1>2, <1>4
        <3> QED  BY <3>2, <2>3, <1>1 DEF SteadyAreCounted
    <2> QED  BY <2>2, <2>3
<1> QED  BY <1>6, <1>7, <1>8

LEMMA SwitchMissed ==
    ASSUME TypeOK, MissedInv, NEW c \in Branches, Switch(c)
    PROVE  MissedInv'
<1> USE DEF MissedInv
<1>1. /\ pc # "over" /\ pc' = pc /\ page' = page /\ total' = total
      /\ got' = got /\ trusting' = trusting /\ steady' \subseteq steady
    BY DEF Switch
<1>2. \A b : Place(Available, b) \in Nat /\ Place(Available', b) \in Nat
    <2>1. IsFiniteSet(Available')
        BY ListedIsFinite, FS_Subset DEF Available
    <2> QED  BY <2>1, AvailableIsFinite, PlaceIsNumber
<1>3. MissingLieAhead'
    <2> SUFFICES ASSUME NEW b \in (steady' \cap Listed) \ got,
                        ~ Before(wentOff', b)
                 PROVE  Place(Available', b) >= (page - 1) * Size
        BY <1>1 DEF MissingLieAhead
    <2>1. Place(Available, b) >= (page - 1) * Size
        BY <1>1, HistoryGrows DEF MissingLieAhead
    <2>2. Place(Available', b) >= Place(Available, b)
        BY PlacesAfterSwitch
    <2>3. (page - 1) * Size \in Nat
        BY PageBounds DEF TypeOK
    <2> QED  BY <2>1, <2>2, <2>3, <1>2
<1>4. SteadyAreCounted'
    <2> SUFFICES ASSUME pc = "page", NEW b \in steady' \cap Listed,
                        ~ Before(cameOn', b)
                 PROVE  Place(Available', b) < total
        BY <1>1 DEF SteadyAreCounted
    <2>1. Place(Available, b) < total
        BY <1>1, HistoryGrows DEF SteadyAreCounted
    <2>2. Place(Available', b) <= Place(Available, b)
        BY PlacesAfterSwitch
    <2>3. total \in Nat
        BY ListedIsFinite DEF TypeOK
    <2> QED  BY <2>1, <2>2, <2>3, <1>2
<1>5. MissedOnlyAfterSwitch'
    BY <1>1 DEF MissedOnlyAfterSwitch
<1> QED  BY <1>3, <1>4, <1>5

LEMMA StepMissed == TypeOK /\ MissedInv /\ [Next]_vars => MissedInv'
<1> SUFFICES ASSUME TypeOK, MissedInv, [Next]_vars PROVE MissedInv'
    OBVIOUS
<1> USE DEF MissedInv, MissingLieAhead, SteadyAreCounted,
        MissedOnlyAfterSwitch
<1>1. CASE DatabaseFails
    BY <1>1 DEF DatabaseFails, history, Available, Place, Smaller, Before
<1>2. CASE UNCHANGED vars
    BY <1>2 DEF vars, Available, Place, Smaller, Before
<1> QED  BY <1>1, <1>2, CountMissed, ReadPageMissed, SwitchMissed DEF Next

(* Who reads all pages misses a branch that was on all the while only if   *)
(* one before it was switched off meanwhile, or on for a caller who stops  *)
(* at the total (the count and the page of findBranchAvailables), for any  *)
(* number of branches and any size of a page.                              *)
THEOREM MissedForAReason == Spec => []MissedOnlyAfterSwitch
<1> QED  BY InitMissed, StepMissed, TypeCorrect, PTL DEF Spec, MissedInv

-----------------------------------------------------------------------------
(* What is on was on from the start or came on since, and what was shown is*)
(* on or went off since.                                                   *)
SwitchesAreKnown ==
    /\ active \subseteq steady \cup cameOn
    /\ got \subseteq active \cup wentOff

LEMMA StepSwitches ==
    ASSUME SwitchesAreKnown, [Next]_vars
    PROVE  SwitchesAreKnown'
<1> USE DEF SwitchesAreKnown
<1>1. CASE Count \/ DatabaseFails \/ UNCHANGED vars
    BY <1>1 DEF Count, DatabaseFails, vars, history
<1>2. CASE ReadPage
    <2>1. PageOf(Available, page) \subseteq active
        BY DEF PageOf, Available
    <2> QED  BY <1>2, <2>1 DEF ReadPage, history
<1>3. ASSUME NEW b \in Branches, Switch(b) PROVE SwitchesAreKnown'
    BY <1>3 DEF Switch
<1> QED  BY <1>1, <1>2, <1>3 DEF Next

(* A list that nobody changes is read whole and without repetition, for any*)
(* number of branches and any size of a page: offsets into it hold.        *)
THEOREM QuietListsAreReadWhole == Spec => []QuietListIsReadWhole
<1>1. Init => SwitchesAreKnown
    BY DEF Init, SwitchesAreKnown
<1>2. Spec => []SwitchesAreKnown
    BY <1>1, StepSwitches, PTL DEF Spec
<1>3. TypeOK /\ SwitchesAreKnown /\ MissedOnlyAfterSwitch
          /\ ShownTwiceOnlyAfterSwitchOn => QuietListIsReadWhole
    BY DEF TypeOK, SwitchesAreKnown, MissedOnlyAfterSwitch, Available,
           ShownTwiceOnlyAfterSwitchOn, QuietListIsReadWhole, Before
<1> QED  BY <1>2, <1>3, TypeCorrect, MissedForAReason, ShownOnce, PTL
=============================================================================
