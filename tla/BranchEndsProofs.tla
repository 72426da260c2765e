--------------------------- MODULE BranchEndsProofs ---------------------------
(***************************************************************************)
(* Proofs, for every number of branches and requests, of the safety        *)
(* properties of BranchEnds.                                               *)
(***************************************************************************)
EXTENDS BranchEnds, BranchLookupProofs

AtWork(r) == pc[r] \notin {Idle, Done}
EndsNamed == \A r \in Requests : AtWork(r) => Mapped(input[r])

(* What concerns one request is changed by its own steps only, but for     *)
(* the branches it is seen to live through.                                *)
Mine(r) == Arrive(r) \/ Handler(r)

LEMMA OthersStay ==
    ASSUME TypeOK, [Next]_vars, NEW r \in Requests, ~Mine(r)
    PROVE  /\ pc'[r] = pc[r] /\ reply'[r] = reply[r]
           /\ fromBranch'[r] = fromBranch[r] /\ toBranch'[r] = toBranch[r]
           /\ verified'[r] = verified[r]
<1> DEFINE Untouched ==
        /\ pc'[r] = pc[r] /\ reply'[r] = reply[r]
        /\ fromBranch'[r] = fromBranch[r] /\ toBranch'[r] = toBranch[r]
        /\ verified'[r] = verified[r]
<1> USE DEF TypeOK
<1>1. ASSUME NEW q \in Requests, q # r, Mine(q) PROVE Untouched
    <2> USE <1>1 DEF Respond, GoTo
    <2>1. CASE Arrive(q)
        BY <2>1 DEF Arrive
    <2>2. CASE ResolveFrom(q)
        BY <2>2 DEF ResolveFrom
    <2>3. CASE VerifyTo(q)
        BY <2>3 DEF VerifyTo
    <2>4. CASE CheckTo(q)
        BY <2>4 DEF CheckTo
    <2>5. CASE OfferFrom(q)
        BY <2>5 DEF OfferFrom
    <2>6. CASE OfferTo(q)
        BY <2>6 DEF OfferTo
    <2>7. CASE FindSizes(q)
        BY <2>7 DEF FindSizes
    <2>8. CASE DatabaseFails(q)
        BY <2>8 DEF DatabaseFails
    <2> QED BY <1>1, <2>1, <2>2, <2>3, <2>4, <2>5, <2>6, <2>7, <2>8
            DEF Mine, Handler
<1>2. ASSUME NEW b \in Branches, Switch(b) PROVE Untouched
    BY <1>2 DEF Switch
<1>3. CASE UNCHANGED vars
    BY <1>3 DEF vars
<1> QED BY <1>1, <1>2, <1>3 DEF Next, Mine

LEMMA InputStays ==
    ASSUME [Next]_vars
    PROVE  input' = input
BY DEF Next, Arrive, Handler, ResolveFrom, VerifyTo, CheckTo, OfferFrom,
       OfferTo, FindSizes, DatabaseFails, Switch, vars

LEMMA EndsNamedStep ==
    ASSUME TypeOK, EndsNamed, [Next]_vars
    PROVE  EndsNamed'
<1> SUFFICES ASSUME NEW r \in Requests, AtWork(r)'
             PROVE  Mapped(input[r])
    BY InputStays DEF EndsNamed
<1>1. CASE AtWork(r)
    BY <1>1 DEF EndsNamed
<1>2. CASE ~AtWork(r)
    <2>1. Mine(r)
        BY <1>2, OthersStay DEF AtWork
    <2>2. CASE Arrive(r)
        BY <2>2 DEF Arrive, Respond, GoTo, AtWork, TypeOK, Done
    <2>3. ~Handler(r)
        BY <1>2 DEF AtWork, Handler, ResolveFrom, VerifyTo, CheckTo, OfferFrom,
                    OfferTo, FindSizes, DatabaseFails, Done, Idle
    <2> QED BY <2>1, <2>2, <2>3 DEF Mine
<1> QED BY <1>1, <1>2

(* While a request is handled, what is on and off now has been seen so,    *)
(* and what is on now has been seen since the service began to look.       *)
SeenInv ==
    \A r \in Requests :
        /\ AtWork(r) => /\ active \subseteq seen[r].on
                        /\ Branches \ active \subseteq seen[r].off
        /\ pc[r] = Idle => seen[r].on = {} /\ seen[r].off = {}
        /\ pc[r] = "offerTo" => active \subseteq seen[r].lately

SeenGrows ==
    \A r \in Requests :
        /\ seen[r].on \subseteq seen'[r].on /\ seen[r].off \subseteq seen'[r].off
        /\ pc[r] \in {"offerTo", Done} => seen[r].lately \subseteq seen'[r].lately

LEMMA SeenStep ==
    ASSUME TypeOK, SeenInv, [Next]_vars
    PROVE  SeenInv' /\ SeenGrows
<1> USE DEF TypeOK, AtWork, Idle, Done
<1>1. ASSUME NEW r \in Requests, Arrive(r) PROVE SeenInv' /\ SeenGrows
    <2>1. /\ UNCHANGED active /\ pc[r] = Idle
          /\ pc'[r] \in {"sizes", "from", Done}
          /\ seen' = [seen EXCEPT ![r] = [on |-> active, off |-> Branches \ active,
                                          lately |-> {}]]
          /\ \A q \in Requests \ {r} : pc'[q] = pc[q]
        BY <1>1 DEF Arrive, Respond, GoTo
    <2> QED BY <2>1 DEF SeenInv, SeenGrows
<1>2. ASSUME NEW r \in Requests, OfferFrom(r) PROVE SeenInv' /\ SeenGrows
    <2>1. /\ UNCHANGED active /\ pc[r] = "offerFrom" /\ pc'[r] = "offerTo"
          /\ seen'[r].on = seen[r].on /\ seen'[r].off = seen[r].off
          /\ seen'[r].lately = active
          /\ \A q \in Requests \ {r} : pc'[q] = pc[q] /\ seen'[q] = seen[q]
        BY <1>2 DEF OfferFrom, GoTo, History
    <2> QED BY <2>1 DEF SeenInv, SeenGrows
<1>3. ASSUME NEW r \in Requests, Handler(r), ~OfferFrom(r)
      PROVE  SeenInv' /\ SeenGrows
    <2>1. /\ UNCHANGED <<active, seen>> /\ pc[r] \notin {Idle, Done}
          /\ pc'[r] \notin {Idle, "offerTo"}
          /\ \A q \in Requests \ {r} : pc'[q] = pc[q]
        BY <1>3 DEF Handler, ResolveFrom, VerifyTo, CheckTo, OfferTo, FindSizes,
                    DatabaseFails, Respond, GoTo
    <2> QED BY <2>1 DEF SeenInv, SeenGrows
<1>4. ASSUME NEW b \in Branches, Switch(b) PROVE SeenInv' /\ SeenGrows
    BY <1>4 DEF Switch, SeenInv, SeenGrows, History
<1>5. CASE UNCHANGED vars
    BY <1>5 DEF vars, SeenInv, SeenGrows
<1> QED BY <1>1, <1>2, <1>3, <1>4, <1>5 DEF Next

-----------------------------------------------------------------------------
(* What a handler has found of its ends is true of the branches seen; the  *)
(* service begins with two branches, and has looked at the first one since *)
(* when it comes to the second.                                            *)
Told(r) == /\ Tells(input[r].from, fromBranch[r], seen[r].on, seen[r].off)
           /\ Tells(input[r].to, toBranch[r], seen[r].on, seen[r].off)

FoundBy(r) ==
    /\ Told(r)
    /\ pc[r] = "offerFrom" => fromBranch[r].data # None
    /\ pc[r] \in {"offerFrom", "offerTo"} => toBranch[r].data # None
    /\ pc[r] = "offerTo" =>
           /\ fromBranch[r].status \in {"SUCCESS", "BRANCH_INACTIVE"}
           /\ fromBranch[r].data # None => fromBranch[r].data \in seen[r].lately

FoundInv == \A r \in Requests : FoundBy(r)

(* What a resolution of an end gives, where it does not throw; the slots'  *)
(* never does.                                                             *)
LEMMA Resolved ==
    ASSUME TypeOK, EndsNamed, NEW r \in Requests, AtWork(r),
           NEW end \in Ends(r), NEW found \in Resolve(input[r].kind, end)
    PROVE  /\ found.status # "throws" =>
                  Tells(end, found, active, Branches \ active)
           /\ input[r].kind # "area" => found.status # "throws"
<1>1. end \in End /\ Named(end) # None /\ active \in SUBSET Branches
    BY DEF TypeOK, Input, Ends, EndsNamed, Mapped
<1>2. ASSUME NEW x, Tells(end, x, active, Branches \ active)
      PROVE  x.status # "throws"
    BY <1>2, ResolutionIs DEF Tells, DefaultStatus
<1>3. CASE end.id # None
    <2>1. found = BranchRow(end.id, active) /\ BranchesOf(end) = {end.id}
        BY <1>3 DEF Resolve, FindOneBranch, BranchesOf
    <2> QED BY <1>1, <1>2, <2>1, RowTells
<1>4. CASE end.id = None
    <2>1. end.place # None
        BY <1>1, <1>4 DEF Named
    <2>2. /\ found \in {PlaceRow(end.place, active),
                        CheckedPlaceRow(end.place, active),
                        NotFound("UNKNOWNERROR")}
          /\ input[r].kind # "area" =>
                 found \in {CheckedPlaceRow(end.place, active),
                            NotFound("UNKNOWNERROR")}
        BY <1>4 DEF Resolve, OrLost
    <2>3. /\ Tells(end, CheckedPlaceRow(end.place, active), active,
                   Branches \ active)
          /\ Tells(end, NotFound("UNKNOWNERROR"), active, Branches \ active)
        BY <1>1, <1>4, <2>1, CheckedPlaceTells, LostTells
    <2>4. found = PlaceRow(end.place, active) /\ found.status # "throws" =>
              Tells(end, found, active, Branches \ active)
        BY <1>1, <1>4, <2>1, PlaceTells
    <2> QED BY <1>2, <2>2, <2>3, <2>4
<1> QED BY <1>3, <1>4

(* The row of a branch that was found for an end, read again.              *)
LEMMA ReadAgain ==
    ASSUME TypeOK, NEW end \in End, NEW on, NEW off,
           NEW found, Tells(end, found, on, off), found.data # None
    PROVE  /\ Tells(end, BranchRow(found.data, active), active,
                    Branches \ active)
           /\ BranchRow(found.data, active).status
                  \in {"SUCCESS", "BRANCH_INACTIVE"}
<1>1. BranchesOf(end) = {found.data} /\ found.data \in Branches
    BY ResolutionIs DEF Tells
<1>2. BranchRow(found.data, active).status \in {"SUCCESS", "BRANCH_INACTIVE"}
    BY <1>1, ResolutionIs DEF BranchRow
<1> QED BY <1>1, <1>2, RowTells DEF TypeOK

LEMMA FoundStep ==
    ASSUME TypeOK, EndsNamed, SeenInv, FoundInv, [Next]_vars
    PROVE  FoundInv'
<1> SUFFICES ASSUME NEW r \in Requests PROVE FoundBy(r)'
    BY DEF FoundInv
<1>0. /\ input' = input /\ FoundBy(r)
      /\ seen[r].on \subseteq seen'[r].on /\ seen[r].off \subseteq seen'[r].off
      /\ pc[r] = "offerTo" => seen[r].lately \subseteq seen'[r].lately
    BY InputStays, SeenStep DEF SeenGrows, FoundInv
<1>1. /\ Tells(input[r].from, fromBranch[r], seen'[r].on, seen'[r].off)
      /\ Tells(input[r].to, toBranch[r], seen'[r].on, seen'[r].off)
    BY <1>0, TellsMore DEF FoundBy, Told
<1>2. CASE /\ fromBranch'[r] = fromBranch[r] /\ toBranch'[r] = toBranch[r]
           /\ pc'[r] = pc[r] \/ pc'[r] \notin {"offerFrom", "offerTo"}
    BY <1>0, <1>1, <1>2 DEF FoundBy, Told
<1>3. ASSUME AtWork(r), NEW end, NEW found,
             Tells(end, found, active, Branches \ active)
      PROVE  Tells(end, found, seen'[r].on, seen'[r].off)
    <2>1. /\ active \subseteq seen'[r].on
          /\ Branches \ active \subseteq seen'[r].off
        BY <1>0, <1>3 DEF SeenInv
    <2> QED BY <1>3, <2>1, TellsMore
<1>e. input[r].from \in Ends(r) /\ input[r].to \in Ends(r)
      /\ input[r].from \in End /\ input[r].to \in End
    BY DEF Ends, TypeOK, Input
<1>4. CASE ResolveFrom(r)
    <2> USE <1>4 DEF ResolveFrom, TypeOK, Respond, GoTo, Done
    <2>1. PICK found \in Resolve(input[r].kind, input[r].from) :
              \/ fromBranch'[r] = fromBranch[r] /\ pc'[r] = Done
              \/ /\ found.status # "throws"
                 /\ fromBranch'[r] = found
                 /\ pc'[r] = "to"
        OBVIOUS
    <2>2. toBranch'[r] = toBranch[r] /\ AtWork(r)
        BY DEF AtWork, Idle
    <2>3. found.status # "throws" =>
              Tells(input[r].from, found, seen'[r].on, seen'[r].off)
        BY <1>3, <1>e, <2>2, Resolved
    <2> QED BY <1>0, <1>1, <2>1, <2>2, <2>3 DEF FoundBy, Told
<1>5. CASE VerifyTo(r) \/ CheckTo(r)
    <2>1. /\ fromBranch'[r] = fromBranch[r] /\ AtWork(r)
          /\ pc'[r] \in {"offerFrom", Done}
          /\ pc'[r] = "offerFrom" => fromBranch[r].status = "SUCCESS"
        BY <1>5 DEF AtWork, Idle, Done, VerifyTo, CheckTo, Respond, GoTo, TypeOK
    <2>2. \/ pc'[r] = Done /\ toBranch'[r] = toBranch[r]
          \/ \E found \in Resolve(input[r].kind, input[r].to) :
                /\ found.status # "throws" /\ toBranch'[r] = found
                /\ pc'[r] = "offerFrom" => found.status = "SUCCESS"
        <3>1. CASE VerifyTo(r)
            BY <3>1 DEF VerifyTo, Respond, GoTo, TypeOK, Done
        <3>2. CASE CheckTo(r)
            <4>1. PICK found \in Resolve("slots", input[r].to) :
                      /\ toBranch' = [toBranch EXCEPT ![r] = found]
                      /\ pc'[r] = "offerFrom" => found.status = "SUCCESS"
                BY <3>2 DEF CheckTo, Respond, GoTo, TypeOK, Done
            <4>2. input[r].kind = "slots"
                BY <3>2 DEF CheckTo
            <4>3. found.status # "throws"
                BY <1>e, <2>1, <4>1, <4>2, Resolved
            <4> QED BY <4>1, <4>2, <4>3 DEF TypeOK
        <3> QED BY <1>5, <3>1, <3>2
    <2>3. CASE pc'[r] = Done /\ toBranch'[r] = toBranch[r]
        BY <1>2, <2>1, <2>3 DEF Done
    <2>4. ASSUME NEW found \in Resolve(input[r].kind, input[r].to),
                 found.status # "throws", toBranch'[r] = found,
                 pc'[r] = "offerFrom" => found.status = "SUCCESS"
          PROVE  FoundBy(r)'
        <3>1. Tells(input[r].to, found, seen'[r].on, seen'[r].off)
            BY <1>3, <1>e, <2>1, <2>4, Resolved
        <3>2. Told(r)'
            BY <1>0, <1>1, <2>1, <2>4, <3>1 DEF Told
        <3> QED BY <2>1, <2>4, <3>2 DEF FoundBy, Told, Tells, Done
    <2> QED BY <2>2, <2>3, <2>4
<1>6. CASE OfferFrom(r)
    <2>1. /\ AtWork(r) /\ pc[r] = "offerFrom" /\ pc'[r] = "offerTo"
          /\ fromBranch'[r] = BranchRow(fromBranch[r].data, active)
          /\ toBranch'[r] = toBranch[r] /\ seen'[r].lately = active
        BY <1>6 DEF OfferFrom, GoTo, TypeOK, AtWork, Idle, Done, History
    <2>2. /\ Tells(input[r].from, fromBranch'[r], active, Branches \ active)
          /\ fromBranch'[r].status \in {"SUCCESS", "BRANCH_INACTIVE"}
        <3>1. /\ Tells(input[r].from, fromBranch[r], seen[r].on, seen[r].off)
              /\ fromBranch[r].data # None
            BY <1>0, <2>1 DEF FoundBy, Told
        <3> QED BY <1>e, <2>1, <3>1, ReadAgain
    <2>3. Told(r)'
        BY <1>0, <1>1, <1>3, <2>1, <2>2 DEF Told
    <2>4. fromBranch'[r].data # None => fromBranch'[r].data \in active
        BY <2>2 DEF Tells
    <2> QED BY <1>0, <2>1, <2>2, <2>3, <2>4 DEF FoundBy
<1>7. CASE OfferTo(r)
    <2>1. /\ AtWork(r) /\ pc[r] = "offerTo" /\ pc'[r] = Done
          /\ toBranch'[r] = BranchRow(toBranch[r].data, active)
          /\ fromBranch'[r] = fromBranch[r]
        BY <1>7 DEF OfferTo, Respond, GoTo, TypeOK, AtWork, Idle, Done
    <2>2. Tells(input[r].to, toBranch'[r], active, Branches \ active)
        <3>1. /\ Tells(input[r].to, toBranch[r], seen[r].on, seen[r].off)
              /\ toBranch[r].data # None
            BY <1>0, <2>1 DEF FoundBy, Told
        <3> QED BY <1>e, <2>1, <3>1, ReadAgain
    <2>3. Told(r)'
        BY <1>0, <1>1, <1>3, <2>1, <2>2 DEF Told
    <2> QED BY <2>1, <2>3 DEF FoundBy, Done
<1>8. CASE Arrive(r) \/ FindSizes(r) \/ DatabaseFails(r)
    BY <1>2, <1>8 DEF Arrive, FindSizes, DatabaseFails, Respond, GoTo, TypeOK,
                      Done
<1>9. CASE ~Mine(r)
    BY <1>2, <1>9, OthersStay
<1> QED BY <1>4, <1>5, <1>6, <1>7, <1>8, <1>9 DEF Mine, Handler

-----------------------------------------------------------------------------
(* An answer tells of what the handler has found, the first end first.     *)
Reason(r) ==
    /\ reply[r] = "BRANCH_INACTIVE" =>
           \/ fromBranch[r].status = "BRANCH_INACTIVE"
           \/ /\ fromBranch[r].status = "SUCCESS"
              /\ toBranch[r].status = "BRANCH_INACTIVE"
    /\ reply[r] \in {"BRANCH_NOTFOUND", "UNKNOWNERROR"} =>
           reply[r] \in {fromBranch[r].status, toBranch[r].status}
    /\ input[r].kind = "slots" /\ reply[r] = "SUCCESS" =>
           /\ fromBranch[r].data # None /\ fromBranch[r].data \in seen[r].lately
           /\ toBranch[r].data # None /\ toBranch[r].data \in seen[r].lately
    /\ reply[r] # "pending" => pc[r] = Done
    /\ pc[r] = "sizes" => input[r].kind # "slots"

(* An answer of verifyArea that names the ends has found them both.        *)
Verified(r) ==
    verified[r].to # None =>
        /\ pc[r] = Done
        /\ {verified[r].from, verified[r].to}
               \subseteq {Named(end) : end \in Ends(r)} \cup {None}
        /\ fromBranch[r].data # None /\ toBranch[r].data # None

AnswerInv == \A r \in Requests : Reason(r) /\ Verified(r)

(* The ends that verifyArea names are ends of the request with a branch.   *)
LEMMA VerifiedEndsAre ==
    ASSUME TypeOK, NEW r \in Requests
    PROVE  /\ VerifiedEnds(r).from \in {Named(end) : end \in Ends(r)} \cup {None}
           /\ VerifiedEnds(r).to \in {Named(end) : end \in Ends(r)}
           /\ VerifiedEnds(r) = [from |-> VerifiedEnds(r).from,
                                 to |-> VerifiedEnds(r).to]
<1>1. input[r].from \in Ends(r) /\ input[r].to \in Ends(r)
    BY DEF Ends
<1> DEFINE F == Named(input[r].from)
           T == Named(input[r].to)
<1>2. F \in {Named(end) : end \in Ends(r)} /\ T \in {Named(end) : end \in Ends(r)}
    BY <1>1
<1>3. VerifiedEnds(r) \in {[from |-> F, to |-> T], [from |-> T, to |-> F],
                          [from |-> None, to |-> T]}
    BY DEF VerifiedEnds
<1> HIDE DEF F, T
<1> QED BY <1>2, <1>3

LEMMA AnswerStep ==
    ASSUME TypeOK, EndsNamed, SeenInv, FoundInv, AnswerInv, [Next]_vars
    PROVE  AnswerInv'
<1> SUFFICES ASSUME NEW r \in Requests PROVE Reason(r)' /\ Verified(r)'
    BY DEF AnswerInv
<1>0. /\ Reason(r) /\ Verified(r) /\ FoundBy(r) /\ FoundInv'
      /\ input' = input /\ Ends(r)' = Ends(r)
      /\ pc[r] \in {"offerTo", Done} => seen[r].lately \subseteq seen'[r].lately
    BY InputStays, SeenStep, FoundStep DEF SeenGrows, AnswerInv, FoundInv, Ends
<1> USE DEF TypeOK
<1>1. CASE /\ fromBranch'[r] = fromBranch[r] /\ toBranch'[r] = toBranch[r]
           /\ reply'[r] = reply[r] /\ verified'[r] = verified[r]
           /\ pc'[r] = pc[r]
    BY <1>0, <1>1 DEF Reason, Verified
<1>p. pc[r] # Done => reply[r] = "pending"
    BY <1>0 DEF Reason
<1>3. CASE ~Mine(r)
    BY <1>1, <1>3, OthersStay
<1>4. CASE Arrive(r) \/ DatabaseFails(r) \/ ResolveFrom(r) \/ OfferFrom(r)
    <2>1. /\ pc[r] # Done /\ verified'[r] = verified[r]
          /\ reply'[r] \in {"pending", "BAD_REQUEST", "exception"}
          /\ reply'[r] = "pending" \/ pc'[r] = Done
          /\ pc'[r] = "sizes" => input[r].kind # "slots" \/ pc[r] = "sizes"
        <3> USE <1>p DEF Respond, GoTo, Idle, Done
        <3>1. CASE Arrive(r)
            BY <3>1 DEF Arrive
        <3>2. CASE DatabaseFails(r)
            BY <3>2 DEF DatabaseFails
        <3>3. CASE ResolveFrom(r) \/ OfferFrom(r)
            BY <3>3 DEF ResolveFrom, OfferFrom
        <3> QED BY <1>4, <3>1, <3>2, <3>3
    <2> QED BY <1>0, <2>1 DEF Reason, Verified
<1>5. CASE FindSizes(r)
    <2>1. /\ pc[r] = "sizes" /\ pc'[r] = Done /\ verified'[r] = verified[r]
          /\ reply'[r] \in {"SUCCESS", "NOT_FOUND"}
        BY <1>5 DEF FindSizes, Respond, GoTo
    <2> QED BY <1>0, <2>1 DEF Reason, Verified, Done
<1>6. CASE VerifyTo(r)
    <2>1. /\ pc[r] = "to" /\ input[r].kind = "area" /\ pc'[r] = Done
          /\ fromBranch'[r] = fromBranch[r]
          /\ \/ reply'[r] = "exception" /\ verified'[r] = verified[r]
             \/ /\ reply'[r] = VerifyStatus(r, toBranch'[r])
                /\ verified'[r] =
                      IF {fromBranch[r].status, toBranch'[r].status} = {"SUCCESS"}
                      THEN VerifiedEnds(r) ELSE Nobody
        <3>1. PICK found \in Resolve("area", input[r].to) :
                  IF found.status = "throws"
                  THEN Respond(r, "exception") /\ UNCHANGED <<toBranch, verified>>
                  ELSE /\ toBranch' = [toBranch EXCEPT ![r] = found]
                       /\ Respond(r, VerifyStatus(r, found))
                       /\ verified' = [verified EXCEPT ![r] =
                              IF {fromBranch[r].status, found.status} = {"SUCCESS"}
                              THEN VerifiedEnds(r) ELSE Nobody]
            BY <1>6 DEF VerifyTo
        <3>2. CASE found.status = "throws"
            BY <1>6, <3>1, <3>2 DEF VerifyTo, Respond, GoTo
        <3>3. CASE found.status # "throws"
            <4>1. toBranch'[r] = found
                BY <3>1, <3>3
            <4> QED BY <1>6, <3>1, <3>3, <4>1 DEF VerifyTo, Respond, GoTo
        <3> QED BY <3>2, <3>3
    <2>2. CASE reply'[r] = "exception" /\ verified'[r] = verified[r]
        BY <1>0, <2>1, <2>2 DEF Reason, Verified, Done
    <2>3. ASSUME reply'[r] = VerifyStatus(r, toBranch'[r]) PROVE Reason(r)'
        <3>1. \/ reply'[r] = fromBranch[r].status
              \/ fromBranch[r].status = "SUCCESS"
                 /\ reply'[r] = toBranch'[r].status
            BY <2>3 DEF VerifyStatus
        <3> QED BY <1>0, <2>1, <3>1 DEF Reason, Done
    <2>4. ASSUME verified'[r] =
                     IF {fromBranch[r].status, toBranch'[r].status} = {"SUCCESS"}
                     THEN VerifiedEnds(r) ELSE Nobody
          PROVE  Verified(r)'
        <3>1. CASE verified'[r] = Nobody
            BY <3>1 DEF Verified, Nobody
        <3>2. CASE /\ fromBranch[r].status = "SUCCESS"
                   /\ toBranch'[r].status = "SUCCESS"
                   /\ verified'[r] = VerifiedEnds(r)
            <4>1. Told(r)'
                BY <1>0 DEF FoundInv, FoundBy
            <4>2. fromBranch'[r].data # None /\ toBranch'[r].data # None
                BY <2>1, <3>2, <4>1 DEF Told, Tells
            <4>3. {verified'[r].from, verified'[r].to}
                      \subseteq {Named(end) : end \in Ends(r)} \cup {None}
                BY <3>2, VerifiedEndsAre
            <4> QED BY <1>0, <2>1, <4>2, <4>3 DEF Verified
        <3> QED BY <2>4, <3>1, <3>2
    <2> QED BY <2>1, <2>2, <2>3, <2>4
<1>7. CASE CheckTo(r)
    <2>1. /\ pc[r] = "to" /\ verified'[r] = verified[r]
          /\ fromBranch'[r] = fromBranch[r]
          /\ \/ reply'[r] = reply[r] /\ pc'[r] = "offerFrom"
             \/ /\ pc'[r] = Done /\ reply'[r] # "SUCCESS"
                /\ \/ reply'[r] = fromBranch[r].status
                   \/ fromBranch[r].status = "SUCCESS"
                      /\ reply'[r] = toBranch'[r].status
        BY <1>7 DEF CheckTo, Respond, GoTo
    <2> QED BY <1>0, <1>p, <2>1 DEF Reason, Verified, Done
<1>8. CASE OfferTo(r)
    <2>1. /\ pc[r] = "offerTo" /\ pc'[r] = Done /\ verified'[r] = verified[r]
          /\ UNCHANGED <<active, seen>>
          /\ fromBranch'[r] = fromBranch[r]
          /\ toBranch'[r] = BranchRow(toBranch[r].data, active)
          /\ IF BothServed(fromBranch[r], toBranch'[r])
             THEN reply'[r] \in {"SUCCESS", "FAIL", "exception"}
             ELSE reply'[r] = "BRANCH_INACTIVE"
        BY <1>8 DEF OfferTo, Respond, GoTo
    <2>2. /\ fromBranch[r].status \in {"SUCCESS", "BRANCH_INACTIVE"}
          /\ fromBranch[r].status = "SUCCESS" =>
                 fromBranch[r].data # None /\ fromBranch[r].data \in seen[r].lately
        BY <1>0, <2>1 DEF FoundBy, Told, Tells
    <2>3. toBranch'[r].status \in {"SUCCESS", "BRANCH_INACTIVE"}
          /\ Tells(input[r].to, toBranch'[r], active, Branches \ active)
        <3>1. /\ Tells(input[r].to, toBranch[r], seen[r].on, seen[r].off)
              /\ toBranch[r].data # None /\ input[r].to \in End
            BY <1>0, <2>1 DEF FoundBy, Told, Input
        <3>2. TypeOK
            OBVIOUS
        <3> HIDE DEF TypeOK
        <3> QED BY <2>1, <3>1, <3>2, ReadAgain
    <2>4. toBranch'[r].status = "SUCCESS" =>
              toBranch'[r].data # None /\ toBranch'[r].data \in seen[r].lately
        BY <2>1, <2>3 DEF Tells, SeenInv
    <2> QED BY <1>0, <2>1, <2>2, <2>3, <2>4 DEF Reason, Verified, BothServed, Done
<1> QED BY <1>3, <1>4, <1>5, <1>6, <1>7, <1>8 DEF Mine, Handler

-----------------------------------------------------------------------------
(* Wherever a handler goes, and whatever it answers, is of its type.       *)
LEMMA Moves ==
    ASSUME TypeOK, NEW r \in Requests
    PROVE  /\ \A s \in EndsReply : Respond(r, s) =>
                  reply' \in [Requests -> EndsReply] /\ pc' \in [Requests -> PC]
           /\ \A l \in PC : GoTo(r, l) /\ UNCHANGED reply =>
                  reply' \in [Requests -> EndsReply] /\ pc' \in [Requests -> PC]
<1>1. Done \in PC
    BY DEF PC
<1>2. /\ pc \in [Requests -> PC]
      /\ reply \in [Requests -> EndsReply]
    BY DEF TypeOK
<1>3. ASSUME NEW s \in EndsReply, Respond(r, s)
      PROVE  reply' \in [Requests -> EndsReply] /\ pc' \in [Requests -> PC]
    BY ONLY <1>1, <1>2, <1>3 DEF Respond, GoTo
<1>4. ASSUME NEW l \in PC, GoTo(r, l), UNCHANGED reply
      PROVE  reply' \in [Requests -> EndsReply] /\ pc' \in [Requests -> PC]
    BY ONLY <1>2, <1>4 DEF GoTo
<1> QED BY <1>3, <1>4

LEMMA TypeOKStep ==
    ASSUME TypeOK, EndsNamed, SeenInv, FoundInv, [Next]_vars
    PROVE  TypeOK'
<1> USE DEF TypeOK
<1>p. {"from", "to", "offerFrom", "offerTo", "sizes", Done} \subseteq PC
    BY DEF PC
<1>r. DefaultStatus \cup {"exception", "BAD_REQUEST", "NOT_FOUND"} \subseteq EndsReply
      /\ {"SUCCESS", "FAIL", "BRANCH_INACTIVE"} \subseteq DefaultStatus
    BY DEF EndsReply, Reply, DefaultStatus
<1>1. ASSUME NEW r \in Requests, Arrive(r) PROVE TypeOK'
    <2>1. seen' \in [Requests -> History]
        BY <1>1 DEF Arrive, History
    <2>2. reply' \in [Requests -> EndsReply] /\ pc' \in [Requests -> PC]
        BY <1>1, <1>p, <1>r DEF Arrive, Respond, GoTo
    <2> QED BY <1>1, <2>1, <2>2 DEF Arrive
<1>2. ASSUME NEW r \in Requests, Handler(r) PROVE TypeOK'
    <2>f. FoundInv' /\ FoundBy(r)'
        BY <1>2, FoundStep DEF Next, FoundInv
    <2>b. fromBranch'[r] \in Resolution /\ toBranch'[r] \in Resolution
        BY <2>f DEF FoundBy, Told, Tells
    <2>n. NotFound("FAIL").status \in DefaultStatus
          /\ \A found \in Resolution : found.status \in DefaultStatus
        BY ResolutionIs
    <2> USE DEF Respond, GoTo
    <2>1. CASE ResolveFrom(r)
        BY <1>p, <1>r, <2>1, <2>b DEF ResolveFrom
    <2>2. CASE VerifyTo(r)
        <3>1. /\ fromBranch' = fromBranch
              /\ toBranch' \in [Requests -> Resolution]
              /\ UNCHANGED <<active, input, seen>>
              /\ \/ Respond(r, "exception") /\ UNCHANGED verified
                 \/ /\ Respond(r, VerifyStatus(r, toBranch'[r]))
                    /\ verified' = [verified EXCEPT ![r] =
                          IF {fromBranch[r].status, toBranch'[r].status}
                                 = {"SUCCESS"}
                          THEN VerifiedEnds(r) ELSE Nobody]
            BY <2>2, <2>b DEF VerifyTo
        <3>2. VerifyStatus(r, toBranch'[r]) \in DefaultStatus
            BY <2>b, <2>n DEF VerifyStatus
        <3>3. reply' \in [Requests -> EndsReply] /\ pc' \in [Requests -> PC]
            BY <1>p, <1>r, <3>1, <3>2
        <3> DEFINE Names == Branches \cup Places \cup {None}
        <3>4. Nobody \in [from : Names, to : Names]
            BY DEF Nobody
        <3>5. CASE {fromBranch[r].status, toBranch'[r].status} = {"SUCCESS"}
            <4>1. /\ Tells(input[r].from, fromBranch[r], seen'[r].on, seen'[r].off)
                  /\ Tells(input[r].to, toBranch'[r], seen'[r].on, seen'[r].off)
                BY <2>f, <3>1 DEF FoundBy, Told
            <4>2. /\ BranchesOf(input[r].from) = {fromBranch[r].data}
                  /\ BranchesOf(input[r].to) = {toBranch'[r].data}
                  /\ fromBranch[r].data \in Branches \cup {None}
                  /\ toBranch'[r].data \in Branches \cup {None}
                <5>1. fromBranch[r].status = "SUCCESS"
                      /\ toBranch'[r].status = "SUCCESS"
                    BY <3>5
                <5>2. fromBranch[r].data # None /\ toBranch'[r].data # None
                    BY <4>1, <5>1 DEF Tells
                <5>3. fromBranch[r] \in Resolution /\ toBranch'[r] \in Resolution
                    BY <4>1 DEF Tells
                <5> QED BY <4>1, <5>2, <5>3, ResolutionIs DEF Tells
            <4>3. Named(input[r].from) \in Names /\ Named(input[r].to) \in Names
                BY <4>2 DEF Named, BranchesOf, Input, End
            <4>4. VerifiedEnds(r) \in [from : Names, to : Names]
                BY <4>3 DEF VerifiedEnds
            <4>5. verified' = [verified EXCEPT ![r] = VerifiedEnds(r)]
                      \/ UNCHANGED verified
                BY <3>1, <3>5
            <4> QED BY <3>1, <3>3, <4>4, <4>5
        <3>6. CASE {fromBranch[r].status, toBranch'[r].status} # {"SUCCESS"}
            BY <3>1, <3>3, <3>4, <3>6
        <3> QED BY <3>5, <3>6
    <2>3. CASE CheckTo(r)
        <3>1. PICK found \in Resolve("slots", input[r].to) :
                  /\ toBranch' = [toBranch EXCEPT ![r] = found]
                  /\ IF fromBranch[r].status # "SUCCESS"
                     THEN Respond(r, fromBranch[r].status)
                     ELSE IF found.status # "SUCCESS"
                     THEN Respond(r, found.status)
                     ELSE GoTo(r, "offerFrom") /\ UNCHANGED reply
            BY <2>3 DEF CheckTo
        <3>2. found \in Resolution
            BY <2>b, <3>1
        <3>3. reply' \in [Requests -> EndsReply] /\ pc' \in [Requests -> PC]
            <4>1. fromBranch[r].status \in EndsReply /\ found.status \in EndsReply
                BY <1>r, <2>n, <3>2
            <4> HIDE DEF Respond, GoTo
            <4> QED BY <1>p, <3>1, <4>1, Moves
        <3>4. toBranch' \in [Requests -> Resolution]
            BY <3>1, <3>2
        <3>5. UNCHANGED <<active, input, fromBranch, verified, seen>>
            BY <2>3 DEF CheckTo
        <3> QED BY <3>3, <3>4, <3>5
    <2>4. CASE OfferFrom(r)
        BY <1>p, <2>4, <2>b DEF OfferFrom, History
    <2>5. CASE OfferTo(r)
        BY <1>p, <1>r, <2>5, <2>b DEF OfferTo
    <2>6. CASE FindSizes(r)
        BY <1>p, <1>r, <2>6 DEF FindSizes
    <2>7. CASE DatabaseFails(r)
        BY <1>p, <1>r, <2>7 DEF DatabaseFails
    <2> QED BY <1>2, <2>1, <2>2, <2>3, <2>4, <2>5, <2>6, <2>7 DEF Handler
<1>3. ASSUME NEW b \in Branches, Switch(b) PROVE TypeOK'
    BY <1>3 DEF Switch, History
<1>4. CASE UNCHANGED vars
    BY <1>4 DEF vars
<1> QED BY <1>1, <1>2, <1>3, <1>4 DEF Next

-----------------------------------------------------------------------------
IInv == TypeOK /\ EndsNamed /\ SeenInv /\ FoundInv /\ AnswerInv

LEMMA InitIInv == Init => IInv
<1> SUFFICES ASSUME Init PROVE IInv
    OBVIOUS
<1>1. TypeOK
    <2>1. NotFound("FAIL") \in Resolution
        BY ResolutionIs
    <2>2. [on |-> {}, off |-> {}, lately |-> {}] \in History
        BY DEF History
    <2>3. "pending" \in EndsReply /\ Idle \in PC
        BY DEF EndsReply, Reply, PC
    <2>4. input \in [Requests -> Input]
        BY InputsAssumption DEF Init
    <2> QED BY <2>1, <2>2, <2>3, <2>4 DEF Init, TypeOK, Nobody
<1>2. ASSUME NEW r \in Requests
      PROVE  /\ pc[r] = Idle /\ ~AtWork(r) /\ reply[r] = "pending"
             /\ seen[r] = [on |-> {}, off |-> {}, lately |-> {}]
             /\ fromBranch[r] = NotFound("FAIL") /\ toBranch[r] = NotFound("FAIL")
             /\ verified[r] = Nobody
    BY DEF Init, AtWork
<1>3. EndsNamed /\ SeenInv
    BY <1>2 DEF EndsNamed, SeenInv, Idle
<1>4. FoundInv
    BY <1>2, NothingTold DEF FoundInv, FoundBy, Told, Idle
<1>5. AnswerInv
    BY <1>2 DEF AnswerInv, Reason, Verified, Nobody, Idle
<1> QED BY <1>1, <1>3, <1>4, <1>5 DEF IInv

LEMMA IInvHolds == Spec => []IInv
<1>1. IInv /\ [Next]_vars => IInv'
    BY TypeOKStep, EndsNamedStep, SeenStep, FoundStep, AnswerStep DEF IInv
<1> QED BY <1>1, InitIInv, PTL DEF Spec

(* Every state of a running service is well typed; no resolution is one    *)
(* that the handlers would throw on later.                                 *)
THEOREM TypeCorrect == Spec => []TypeOK
BY IInvHolds, PTL DEF IInv

(* When verifyArea names an end, it is one of the request, and both of its *)
(* branches were on while it was handled, however often they were switched.*)
THEOREM VerifiedAreServed == Spec => []VerifiedEndsAreServed
<1>1. ASSUME IInv, NEW r \in Requests, verified[r].to # None
      PROVE  /\ {verified[r].from, verified[r].to}
                    \subseteq {Named(end) : end \in Ends(r)} \cup {None}
             /\ \A end \in Ends(r) : BranchesOf(end) \subseteq seen[r].on
    <2>1. Verified(r) /\ Told(r)
        BY <1>1 DEF IInv, AnswerInv, FoundInv, FoundBy
    <2> QED BY <1>1, <2>1 DEF Verified, Told, Tells, Ends
<1>2. IInv => VerifiedEndsAreServed
    BY <1>1 DEF VerifiedEndsAreServed
<1> QED BY <1>2, IInvHolds, PTL

(* Slots are offered only between branches that were on since the service  *)
(* began to look at them, whatever happened after the controller's check.  *)
THEOREM OffersAreServed == Spec => []OffersAreOfServedBranches
<1>1. ASSUME IInv, NEW r \in Requests, input[r].kind = "slots",
             reply[r] = "SUCCESS"
      PROVE  \A end \in Ends(r) : BranchesOf(end) \subseteq seen[r].lately
    <2>1. Reason(r) /\ Told(r)
        BY <1>1 DEF IInv, AnswerInv, FoundInv, FoundBy
    <2> QED BY <1>1, <2>1 DEF Reason, Told, Tells, Ends
<1>2. IInv => OffersAreOfServedBranches
    BY <1>1 DEF OffersAreOfServedBranches
<1> QED BY <1>2, IInvHolds, PTL

(* The reason given for a refusal was true of an end of the request at     *)
(* some time while it was handled, and the first end's is given first.     *)
THEOREM RefusalsAreJustified == Spec => []EndsRefusalIsJustified
<1>1. ASSUME IInv, NEW r \in Requests
      PROVE  /\ reply[r] = "BRANCH_INACTIVE" =>
                    \E end \in Ends(r) : BranchesOf(end) \cap seen[r].off # {}
             /\ reply[r] = "BRANCH_NOTFOUND" =>
                    \E end \in Ends(r) : BranchesOf(end) \cap Branches = {}
             /\ reply[r] = "UNKNOWNERROR" => \E end \in Ends(r) : ~ById(end)
             /\ BranchesOf(input[r].from) \cap Branches = {} =>
                    reply[r] # "BRANCH_INACTIVE"
    <2>1. Reason(r) /\ Told(r) /\ seen[r].off \subseteq Branches
        BY <1>1 DEF IInv, AnswerInv, FoundInv, FoundBy, TypeOK, History
    <2>2. fromBranch[r].data \in Branches \cup {None}
        BY <1>1, ResolutionIs DEF IInv, TypeOK
    <2>3. input[r].from \in Ends(r) /\ input[r].to \in Ends(r)
        BY DEF Ends
    <2> QED BY <2>1, <2>2, <2>3 DEF Reason, Told, Tells, ById
<1>2. IInv => EndsRefusalIsJustified
    BY <1>1 DEF EndsRefusalIsJustified
<1> QED BY <1>2, IInvHolds, PTL
=============================================================================
