-------------------------- MODULE BranchLookupProofs --------------------------
(***************************************************************************)
(* What the result of a lookup tells of the end it was made for.           *)
(***************************************************************************)
EXTENDS BranchLookup, TLAPS

(* What was found for an end, by lookups made while branches on were seen  *)
(* switched on and branches off were seen switched off, tells the truth.   *)
Tells(end, found, on, off) ==
    /\ found \in Resolution
    /\ found.status # "BRANCH_CONDITION_NOTFOUND"
    /\ found.status = "SUCCESS" <=> found.data # None
    /\ found.data # None => /\ found.data \in on
                            /\ BranchesOf(end) = {found.data}
    /\ found.status = "BRANCH_INACTIVE" => BranchesOf(end) \cap off # {}
    /\ found.status = "BRANCH_NOTFOUND" => BranchesOf(end) \cap Branches = {}
    /\ found.status = "UNKNOWNERROR" => end.id = None /\ end.place \in Places

LEMMA ResolutionIs ==
    /\ \A b \in Branches : /\ Found(b) \in Resolution
                           /\ Found(b).status = "SUCCESS"
                           /\ Found(b).data = b
                           /\ b # None
    /\ \A s : /\ NotFound(s).status = s
              /\ NotFound(s).data = None
              /\ s \in DefaultStatus => NotFound(s) \in Resolution
    /\ {"BRANCH_NOTFOUND", "BRANCH_INACTIVE", "FAIL", "UNKNOWNERROR"}
           \subseteq DefaultStatus
    /\ \A found \in Resolution : /\ found.status \in DefaultStatus
                                 /\ found.data \in Branches \cup {None}
                                 /\ found.data # None => found.status = "SUCCESS"
BY BranchesAssumption DEF Found, NotFound, Resolution, DefaultStatus

(* The row of a branch id tells of the end it came from.                   *)
LEMMA RowTells ==
    ASSUME NEW on \in SUBSET Branches, NEW end \in End, NEW b,
           BranchesOf(end) = {b}
    PROVE  Tells(end, BranchRow(b, on), on, Branches \ on)
<1>1. CASE b \notin Branches
    BY <1>1, ResolutionIs DEF BranchRow, Tells
<1>2. CASE b \in on
    BY <1>2, ResolutionIs DEF BranchRow, Tells
<1>3. CASE b \in Branches \ on
    BY <1>3, ResolutionIs DEF BranchRow, Tells
<1> QED BY <1>1, <1>2, <1>3

(* So does the support-area service's answer for a coordinate, where it    *)
(* does not throw.                                                         *)
LEMMA PlaceTells ==
    ASSUME NEW on \in SUBSET Branches, NEW end \in End, end.id = None,
           end.place # None
    PROVE  LET found == PlaceRow(end.place, on)
           IN  found.status # "throws" =>
                   Tells(end, found, on, Branches \ on)
<1> DEFINE p == end.place
           area == SupportArea[p]
<1>0. p \in Places /\ BranchesOf(end) = {area}
    BY DEF End, BranchesOf
<1>1. area \in Branches \cup {UnknownBranch, Outside, Malformed}
    BY <1>0, SupportAreaAssumption
<1>2. Tells(end, BranchRow(area, on), on, Branches \ on)
    BY <1>0, RowTells
<1>3. CASE area \in Branches
    <2>1. PlaceRow(p, on) = BranchRow(area, on)
        BY <1>3, BranchesAssumption DEF PlaceRow
    <2> QED BY <1>2, <2>1
<1>4. CASE area \notin Branches
    <2>1. PlaceRow(p, on) \in {NotFound("FAIL"), NotFound("BRANCH_NOTFOUND"),
                              NotFound("throws")}
        BY <1>1, <1>4 DEF PlaceRow
    <2>2. Tells(end, NotFound("FAIL"), on, Branches \ on)
        BY ResolutionIs DEF Tells
    <2>3. Tells(end, NotFound("BRANCH_NOTFOUND"), on, Branches \ on)
        BY <1>0, <1>4, ResolutionIs DEF Tells
    <2> QED BY <2>1, <2>2, <2>3, ResolutionIs
<1> QED BY <1>3, <1>4

(* With the missing row checked for, no answer of the service throws.      *)
LEMMA CheckedPlaceTells ==
    ASSUME NEW on \in SUBSET Branches, NEW end \in End, end.id = None,
           end.place # None
    PROVE  Tells(end, CheckedPlaceRow(end.place, on), on, Branches \ on)
<1> DEFINE p == end.place
           area == SupportArea[p]
<1>0. p \in Places /\ BranchesOf(end) = {area}
    BY DEF End, BranchesOf
<1>1. CASE area = UnknownBranch
    <2>1. CheckedPlaceRow(p, on) = NotFound("BRANCH_NOTFOUND")
        BY <1>1 DEF CheckedPlaceRow
    <2>2. BranchesOf(end) \cap Branches = {}
        BY <1>0, <1>1, BranchesAssumption
    <2> QED BY <2>1, <2>2, ResolutionIs DEF Tells
<1>2. CASE area # UnknownBranch
    <2>1. area \in Branches \cup {Outside, Malformed}
        BY <1>0, <1>2, SupportAreaAssumption
    <2>2. PlaceRow(p, on) \in {NotFound("FAIL"), NotFound("BRANCH_NOTFOUND"),
                              BranchRow(area, on)}
        BY <1>2, <2>1 DEF PlaceRow
    <2>3. PlaceRow(p, on).status # "throws"
        BY <2>2, ResolutionIs DEF BranchRow
    <2> QED BY <1>2, <2>3, PlaceTells DEF CheckedPlaceRow
<1> QED BY <1>1, <1>2

LEMMA LostTells ==
    ASSUME NEW end \in End, end.id = None, end.place # None,
           NEW on \in SUBSET Branches
    PROVE  Tells(end, NotFound("UNKNOWNERROR"), on, Branches \ on)
<1>1. end.place \in Places
    BY DEF End
<1> QED BY <1>1, ResolutionIs DEF Tells

(* findOneBranchCustom tells the truth of the moment it reads the table.   *)
LEMMA LookupTells ==
    ASSUME NEW on \in SUBSET Branches, NEW end \in End, Named(end) # None,
           NEW found \in FindOneBranchCustom(end, on),
           found.status # "throws"
    PROVE  Tells(end, found, on, Branches \ on)
<1>1. CASE end.id # None
    <2>1. BranchesOf(end) = {end.id} /\ found = BranchRow(end.id, on)
        BY <1>1 DEF FindOneBranchCustom, BranchesOf
    <2> QED BY <2>1, RowTells
<1>2. CASE end.id = None
    <2>1. end.place # None
        BY <1>2 DEF Named
    <2>2. found \in {PlaceRow(end.place, on), NotFound("UNKNOWNERROR")}
        BY <1>2 DEF FindOneBranchCustom, OrLost
    <2> QED BY <1>2, <2>1, <2>2, PlaceTells, LostTells
<1> QED BY <1>1, <1>2

(* Only a coordinate that is not recognised makes a lookup FAIL.           *)
LEMMA FailIsMalformed ==
    ASSUME NEW on \in SUBSET Branches, NEW end \in End, Named(end) # None,
           NEW found \in FindOneBranchCustom(end, on),
           found.status = "FAIL"
    PROVE  Unrecognised(end)
<1>1. \A b : BranchRow(b, on).status # "FAIL"
    BY ResolutionIs DEF BranchRow, Found
<1>2. end.id = None /\ end.place \in Places
    BY <1>1 DEF FindOneBranchCustom, Named, End
<1>3. found = PlaceRow(end.place, on)
    BY <1>2, ResolutionIs DEF FindOneBranchCustom, OrLost
<1> QED BY <1>1, <1>2, <1>3, ResolutionIs DEF PlaceRow, Unrecognised

(* The answers a lookup has for an end, when it does not throw.            *)
Outcomes == {"SUCCESS", "BRANCH_NOTFOUND", "BRANCH_INACTIVE", "FAIL",
             "UNKNOWNERROR"}

LEMMA LookupOutcomes ==
    ASSUME NEW on, NEW end, NEW found \in FindOneBranchCustom(end, on)
    PROVE  found.status \in Outcomes \cup {"throws"}
<1>1. \A b : BranchRow(b, on).status \in Outcomes
    BY DEF BranchRow, Found, NotFound, Outcomes
<1>2. \A p : PlaceRow(p, on).status \in Outcomes \cup {"throws"}
    BY <1>1 DEF PlaceRow, NotFound, Outcomes
<1>3. NotFound("UNKNOWNERROR").status \in Outcomes
    BY DEF NotFound, Outcomes
<1> QED BY <1>1, <1>2, <1>3 DEF FindOneBranchCustom, OrLost

(* What was true of branches seen stays true as more of them are seen.     *)
LEMMA TellsMore ==
    ASSUME NEW end, NEW found, NEW on, NEW off, NEW on2, NEW off2,
           on \subseteq on2, off \subseteq off2,
           Tells(end, found, on, off)
    PROVE  Tells(end, found, on2, off2)
BY DEF Tells

(* Before anything was looked up, nothing is told.                         *)
LEMMA NothingTold ==
    ASSUME NEW end, NEW on, NEW off
    PROVE  Tells(end, NotFound("FAIL"), on, off)
BY ResolutionIs DEF Tells
=============================================================================
