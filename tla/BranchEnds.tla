----------------------------- MODULE BranchEnds -----------------------------
(***************************************************************************)
(* The reads that look at both ends of a transport before it is booked:    *)
(* verifyArea, findTimeSlots and getLuggageSize, each with its controller. *)
(*                                                                         *)
(* The two ends are resolved one after the other, and findTimeSlots hands  *)
(* the ids to a service that reads both rows again.  The old system's      *)
(* staff switches branches on and off at every one of these awaits.  What  *)
(* slots the service then offers is the matter of module TimeSlots.        *)
(***************************************************************************)
EXTENDS BranchLookup

CONSTANTS
    Requests,   \* the HTTP requests
    Inputs      \* their contents

(* dated says that a query for slots has the date (and, for deliveries,    *)
(* the time) of the pickup, which the DTO leaves optional.                 *)
Input == [kind : {"area", "slots", "sizes"}, from : End, to : End,
          dated : BOOLEAN]

ASSUME InputsAssumption == Inputs \subseteq Input

VARIABLES
    active,     \* the branches switched on
    pc,         \* the await at which the handler of a request stands
    input,      \* the contents of a request
    fromBranch, \* what was found for the first end
    toBranch,   \* and for the second
    reply,      \* what a request has been answered
    verified,   \* the ends that an answer of verifyArea names
    seen        \* history: the branches that were on, and those that were
                \* off, at some time while a request was handled, and those
                \* that were on since the service read its first branch

vars == <<active, pc, input, fromBranch, toBranch, reply, verified, seen>>

Idle == "idle"
Done == "done"
PC == {Idle, "from", "to", "offerFrom", "offerTo", "sizes", Done}
History == [on : SUBSET Branches, off : SUBSET Branches,
            lately : SUBSET Branches]

(* The controllers' own 400 and 404 beside the statuses of the services.   *)
EndsReply == Reply \cup {"BAD_REQUEST", "NOT_FOUND"}

GoTo(r, label) == pc' = [pc EXCEPT ![r] = label]

Respond(r, status) ==
    /\ reply' = [reply EXCEPT ![r] = status]
    /\ GoTo(r, Done)

-----------------------------------------------------------------------------
Nobody == [from |-> None, to |-> None]

Init ==
    /\ active \in SUBSET Branches
    /\ pc = [r \in Requests |-> Idle]
    /\ input \in [Requests -> Inputs]
    /\ fromBranch = [r \in Requests |-> NotFound("FAIL")]
    /\ toBranch = [r \in Requests |-> NotFound("FAIL")]
    /\ reply = [r \in Requests |-> "pending"]
    /\ verified = [r \in Requests |-> Nobody]
    /\ seen = [r \in Requests |-> [on |-> {}, off |-> {}, lately |-> {}]]

(* All three turn down an end that is not named; a query for slots without *)
(* its date falls through every case and throws on the null that is left.  *)
Arrive(r) ==
    /\ pc[r] = Idle
    /\ seen' = [seen EXCEPT ![r] = [on |-> active, off |-> Branches \ active,
                                    lately |-> {}]]
    /\ IF ~Mapped(input[r]) THEN Respond(r, "BAD_REQUEST")
       ELSE IF input[r].kind = "slots" /\ ~input[r].dated
            THEN Respond(r, "exception")
       ELSE /\ GoTo(r, IF input[r].kind = "sizes" THEN "sizes" ELSE "from")
            /\ UNCHANGED reply
    /\ UNCHANGED <<active, input, fromBranch, toBranch, verified>>

(* findOneBranch for an id, findOneBranchCustom for a coordinate: verifyArea *)
(* passes lat and lng, findTimeSlots latlng.                               *)
Resolve(kind, end) ==
    IF end.id # None THEN {FindOneBranch(end.id, active)}
    ELSE OrLost(end.place, IF kind = "area" THEN PlaceRow(end.place, active)
                           ELSE CheckedPlaceRow(end.place, active))

ResolveFrom(r) ==
    /\ pc[r] = "from"
    /\ \E found \in Resolve(input[r].kind, input[r].from) :
          IF found.status = "throws"
          THEN Respond(r, "exception") /\ UNCHANGED fromBranch
          ELSE /\ fromBranch' = [fromBranch EXCEPT ![r] = found]
               /\ GoTo(r, "to")
               /\ UNCHANGED reply
    /\ UNCHANGED <<active, input, toBranch, verified, seen>>

ById(end) == end.id # None

(* The first end's refusal is told first; between two ids, the second's is *)
(* told with the status of the first, which is SUCCESS then.               *)
VerifyStatus(r, to) ==
    IF fromBranch[r].status # "SUCCESS" THEN fromBranch[r].status
    ELSE IF ById(input[r].from) /\ ById(input[r].to) THEN fromBranch[r].status
    ELSE to.status

(* The ends as data names them: from a coordinate to an id they change     *)
(* places, and from a coordinate to a coordinate the first is overwritten. *)
VerifiedEnds(r) ==
    LET from == Named(input[r].from)
        to == Named(input[r].to)
    IN  IF ById(input[r].from) THEN [from |-> from, to |-> to]
        ELSE IF ById(input[r].to) THEN [from |-> to, to |-> from]
        ELSE [from |-> None, to |-> to]

(* verifyArea resolves its second end and answers, a refusal too, with 200.*)
VerifyTo(r) ==
    /\ pc[r] = "to"
    /\ input[r].kind = "area"
    /\ \E found \in Resolve("area", input[r].to) :
          IF found.status = "throws"
          THEN Respond(r, "exception") /\ UNCHANGED <<toBranch, verified>>
          ELSE /\ toBranch' = [toBranch EXCEPT ![r] = found]
               /\ Respond(r, VerifyStatus(r, found))
               /\ verified' = [verified EXCEPT ![r] =
                      IF {fromBranch[r].status, found.status} = {"SUCCESS"}
                      THEN VerifiedEnds(r) ELSE Nobody]
    /\ UNCHANGED <<active, input, fromBranch, seen>>

(* The time slot controller answers the refusal of the end it found first. *)
CheckTo(r) ==
    /\ pc[r] = "to"
    /\ input[r].kind = "slots"
    /\ \E found \in Resolve("slots", input[r].to) :
          /\ toBranch' = [toBranch EXCEPT ![r] = found]
          /\ IF fromBranch[r].status # "SUCCESS"
             THEN Respond(r, fromBranch[r].status)
             ELSE IF found.status # "SUCCESS" THEN Respond(r, found.status)
             ELSE GoTo(r, "offerFrom") /\ UNCHANGED reply
    /\ UNCHANGED <<active, input, fromBranch, verified, seen>>

(* The service reads the two rows again, by the ids that were found.       *)
OfferFrom(r) ==
    /\ pc[r] = "offerFrom"
    /\ fromBranch' = [fromBranch EXCEPT ![r] = BranchRow(@.data, active)]
    /\ GoTo(r, "offerTo")
    /\ seen' = [seen EXCEPT ![r].lately = active]
    /\ UNCHANGED <<active, input, toBranch, reply, verified>>

(* Mutant: the service looks at the first branch only.                     *)
FirstLookedAt(from, to) == from.status = "SUCCESS"

BothServed(from, to) == from.status = "SUCCESS" /\ to.status = "SUCCESS"

(* What the rules then offer, refuse (a date that is past) or throw on.    *)
OfferTo(r) ==
    /\ pc[r] = "offerTo"
    /\ toBranch' = [toBranch EXCEPT ![r] = BranchRow(@.data, active)]
    /\ IF BothServed(fromBranch[r], toBranch'[r])
       THEN \E status \in {"SUCCESS", "FAIL", "exception"} : Respond(r, status)
       ELSE Respond(r, "BRANCH_INACTIVE")
    /\ UNCHANGED <<active, input, fromBranch, verified, seen>>

(* One row of the size table, always the same: the ids that were looked up *)
(* for it (findOneBranchIdOldSystem) are passed on and not used.           *)
FindSizes(r) ==
    /\ pc[r] = "sizes"
    /\ \E status \in {"SUCCESS", "NOT_FOUND"} : Respond(r, status)
    /\ UNCHANGED <<active, input, fromBranch, toBranch, verified, seen>>

DatabaseFails(r) ==
    /\ pc[r] \notin {Idle, Done}
    /\ Respond(r, "exception")
    /\ UNCHANGED <<active, input, fromBranch, toBranch, verified, seen>>

(* The old system's staff switches a branch on or off.                     *)
Switch(b) ==
    /\ active' = IF b \in active THEN active \ {b} ELSE active \cup {b}
    /\ seen' = [r \in Requests |->
           IF pc[r] \in {Idle, Done} THEN seen[r]
           ELSE [on |-> seen[r].on \cup active',
                 off |-> seen[r].off \cup (Branches \ active'),
                 lately |-> IF pc[r] = "offerTo"
                            THEN seen[r].lately \cup active' ELSE {}]]
    /\ UNCHANGED <<pc, input, fromBranch, toBranch, reply, verified>>

-----------------------------------------------------------------------------
Handler(r) ==
    \/ ResolveFrom(r) \/ VerifyTo(r) \/ CheckTo(r) \/ OfferFrom(r)
    \/ OfferTo(r) \/ FindSizes(r) \/ DatabaseFails(r)

Next ==
    \/ \E r \in Requests : Arrive(r) \/ Handler(r)
    \/ \E b \in Branches : Switch(b)

Spec == Init /\ [][Next]_vars

-----------------------------------------------------------------------------
TypeOK ==
    /\ active \subseteq Branches
    /\ pc \in [Requests -> PC]
    /\ input \in [Requests -> Input]
    /\ fromBranch \in [Requests -> Resolution]
    /\ toBranch \in [Requests -> Resolution]
    /\ reply \in [Requests -> EndsReply]
    /\ verified \in [Requests -> [from : Branches \cup Places \cup {None},
                                  to : Branches \cup Places \cup {None}]]
    /\ seen \in [Requests -> History]

Ends(r) == {input[r].from, input[r].to}

(* An answer of verifyArea that names an end names one of the request, and *)
(* both branches of the request were on at some time while it was handled. *)
VerifiedEndsAreServed ==
    \A r \in Requests :
        verified[r].to # None =>
            /\ {verified[r].from, verified[r].to}
                   \subseteq {Named(end) : end \in Ends(r)} \cup {None}
            /\ \A end \in Ends(r) : BranchesOf(end) \subseteq seen[r].on

(* Slots are offered between branches that were on at some time since the  *)
(* service began to look at them, not only when the controller found them. *)
OffersAreOfServedBranches ==
    \A r \in Requests :
        input[r].kind = "slots" /\ reply[r] = "SUCCESS" =>
            \A end \in Ends(r) : BranchesOf(end) \subseteq seen[r].lately

(* The reason given for a refusal holds of an end of the request, and the  *)
(* second end's is not given when the first end has no branch at all.      *)
EndsRefusalIsJustified ==
    \A r \in Requests :
        /\ reply[r] = "BRANCH_INACTIVE" =>
               \E end \in Ends(r) : BranchesOf(end) \cap seen[r].off # {}
        /\ reply[r] = "BRANCH_NOTFOUND" =>
               \E end \in Ends(r) : BranchesOf(end) \cap Branches = {}
        /\ reply[r] = "UNKNOWNERROR" => \E end \in Ends(r) : ~ById(end)
        /\ BranchesOf(input[r].from) \cap Branches = {} =>
               reply[r] # "BRANCH_INACTIVE"

(* The other three cases of verifyArea, and the check of toBranch itself,  *)
(* answer the refusal of the second end with its own status: SUCCESS says  *)
(* that both ends were found.                                              *)
RefusedEndIsTold ==
    \A r \in Requests :
        input[r].kind = "area" /\ reply[r] = "SUCCESS" =>
            /\ fromBranch[r].status = "SUCCESS"
            /\ toBranch[r].status = "SUCCESS"

(* The answer of verifyArea names the first end as from, the second as to, *)
(* as VerifyAreaFormat has them.                                           *)
VerifiedEndsKeepTheirSides ==
    \A r \in Requests :
        verified[r].to # None =>
            verified[r] = [from |-> Named(input[r].from),
                           to |-> Named(input[r].to)]
=============================================================================
