---------------------------- MODULE BranchLookup ----------------------------
(***************************************************************************)
(* How the services find the branch an end of a transport stands for       *)
(* (BranchService over OldSystemService.findSupportArea, and the helpers   *)
(* mappingLatlng and getBranchTransformType).  A lookup reads the branch   *)
(* table of the moment: every operator takes the set "on" of the branches  *)
(* that are switched on then.                                              *)
(***************************************************************************)
EXTENDS BookingTypes, FiniteSets

CONSTANTS
    Branches,      \* ids of the rows of the branch table
    UnknownBranch, \* an id without a row
    Places,        \* coordinates
    SupportArea,   \* what the old system's support-area service says of each
    None           \* an absent field

(* SupportArea[p] is a branch id, Outside when the service answers status  *)
(* false, or Malformed when verifyLatlng does not recognise the coordinate *)
(* (its pattern has no sign: a negative latitude).                         *)
CONSTANTS Outside, Malformed

(* An end as its DTO leaves it: toNumber and toFloat make an absent field  *)
(* of an id, a latitude or a longitude 0.                                  *)
End == [id : Branches \cup {UnknownBranch, None},
        place : Places \cup {None}]

ASSUME BranchesAssumption ==
    /\ {UnknownBranch, None, Outside, Malformed} \cap Branches = {}
    /\ None \notin {UnknownBranch} \cup Places
ASSUME SupportAreaAssumption ==
    SupportArea \in
        [Places -> Branches \cup {UnknownBranch, Outside, Malformed}]

(* FormatFindOneBranch: a status, and a branch only when it is SUCCESS.    *)
Found(b) == [status |-> "SUCCESS", data |-> b]
NotFound(status) == [status |-> status, data |-> None]
Resolution ==
    {Found(b) : b \in Branches} \cup {NotFound(s) : s \in DefaultStatus}

-----------------------------------------------------------------------------
(* getBranchTransformType: how an end is named, the id preferred; the      *)
(* transform FAILs when one of the two is not named at all.                *)
Named(end) == IF end.id # None THEN end.id ELSE end.place
Mapped(in) == Named(in.from) # None /\ Named(in.to) # None

(* Mutants: the active flag not checked; the two refusals exchanged.       *)
ActiveUnchecked(b, on) ==
    IF b \in Branches THEN Found(b) ELSE NotFound("BRANCH_NOTFOUND")
RefusalsExchanged(b, on) ==
    IF b \notin Branches THEN NotFound("BRANCH_INACTIVE")
    ELSE IF b \in on THEN Found(b) ELSE NotFound("BRANCH_NOTFOUND")

(* findOneBranchType with the checks that follow it: the row of a branch,  *)
(* or null, as the table has it.                                           *)
BranchRow(b, on) ==
    IF b \notin Branches THEN NotFound("BRANCH_NOTFOUND")
    ELSE IF b \in on THEN Found(b) ELSE NotFound("BRANCH_INACTIVE")

(* findOneBranch asks the same with a query of its own.                    *)
FindOneBranch(b, on) == BranchRow(b, on)

(* Mutant: the service's answer used whatever its status.                  *)
StatusUnchecked(p, on) ==
    CASE SupportArea[p] = Malformed -> NotFound("FAIL")
      [] SupportArea[p] = UnknownBranch -> NotFound("throws")
      [] OTHER -> Found(SupportArea[p])

(* findOneBranchCustom by lat and lng, when the support-area service       *)
(* answers: "throws" is the read of null.active for an id without a row.   *)
PlaceRow(p, on) ==
    CASE SupportArea[p] = Malformed -> NotFound("FAIL")
      [] SupportArea[p] = Outside -> NotFound("BRANCH_NOTFOUND")
      [] SupportArea[p] = UnknownBranch -> NotFound("throws")
      [] OTHER -> BranchRow(SupportArea[p], on)

(* findOneBranchCustom by latlng does check for the missing row.           *)
CheckedPlaceRow(p, on) ==
    IF SupportArea[p] = UnknownBranch THEN NotFound("BRANCH_NOTFOUND")
    ELSE PlaceRow(p, on)

(* The answer of the support-area service can be lost: UNKNOWNERROR.  A    *)
(* coordinate that is not recognised is not asked for.                     *)
OrLost(p, found) ==
    IF SupportArea[p] = Malformed THEN {found}
    ELSE {found, NotFound("UNKNOWNERROR")}

(* A coordinate that verifyLatlng does not recognise.                      *)
Unrecognised(end) ==
    end.id = None /\ end.place \in Places /\ SupportArea[end.place] = Malformed

(* What findOneBranchCustom may return for an end with its id, lat and lng *)
(* as options.                                                             *)
FindOneBranchCustom(end, on) ==
    IF end.id # None THEN {BranchRow(end.id, on)}
    ELSE OrLost(end.place, PlaceRow(end.place, on))

(* The branches an end may stand for.                                      *)
BranchesOf(end) ==
    IF end.id # None THEN {end.id}
    ELSE IF end.place # None THEN {SupportArea[end.place]} ELSE {}
=============================================================================
