---------------------------- MODULE CreateBooking ----------------------------
(***************************************************************************)
(* Creating a booking (BookingsService.createBooking with BranchService and*)
(* OldSystemService below it).                                             *)
(*                                                                         *)
(* A request names two ends, each by a branch id or by a coordinate.  The  *)
(* handler resolves the first end, then the second, then the branch        *)
(* condition that joins them, sends the order to the old system and looks  *)
(* it up in the order table.  Every one of these is an await: branches are *)
(* switched on and off, and other requests are handled, in between.        *)
(***************************************************************************)
EXTENDS CreateRequests

VARIABLES
    active,     \* the branches switched on
    table,      \* the order table, in the order its rows were inserted
    pc,         \* the await at which the handler of a request stands
    input,      \* the contents of a request
    fromBranch, \* what findOneBranchCustom returned for the first end
    toBranch,   \* and for the second
    wire,       \* createOrder calls the old system may still carry out
    answer,     \* what the handler knows of its call
    number,     \* order_number in the call's answer, 0 when there is none
    reply,      \* the status a request has been answered with
    replied,    \* the row of the table that answer names
    seen        \* history: the branches that were on, and those that were
                \* off, at some time while a request was handled

vars == <<active, table, pc, input, fromBranch, toBranch, wire, answer,
          number, reply, replied, seen>>

Idle == "idle"
Done == "done"
PC == {Idle, "from", "to", "condition", "create", Done}

GoTo(r, label) == pc' = [pc EXCEPT ![r] = label]

(* The handler of r returns status, or throws.                             *)
Respond(r, status) ==
    /\ reply' = [reply EXCEPT ![r] = status]
    /\ GoTo(r, Done)

-----------------------------------------------------------------------------
Init ==
    /\ active \in SUBSET Branches
    /\ table = [n \in 1 .. OtherOrders |-> OtherOrder]
    /\ pc = [r \in Requests |-> Idle]
    /\ input \in [Requests -> Inputs]
    /\ fromBranch = [r \in Requests |-> NotFound("FAIL")]
    /\ toBranch = [r \in Requests |-> NotFound("FAIL")]
    /\ wire = {}
    /\ answer = [r \in Requests |-> "none"]
    /\ number = [r \in Requests |-> 0]
    /\ reply = [r \in Requests |-> "pending"]
    /\ replied = [r \in Requests |-> 0]
    /\ seen = [r \in Requests |-> NothingSeen]

(* A request comes in; the agent's row is read once (that may fail) and    *)
(* never changes.                                                          *)
Arrive(r) ==
    /\ pc[r] = Idle
    /\ seen' = [seen EXCEPT ![r] = SeenNow(active)]
    /\ \/ Respond(r, "exception")
       \/ input[r].agent # Booker /\ Respond(r, "UNAUTHORIZED")
       \/ /\ input[r].agent = Booker
          /\ IF Mapped(input[r]) THEN GoTo(r, "from") /\ UNCHANGED reply
             ELSE Respond(r, "FAIL")
    /\ UNCHANGED <<active, table, input, fromBranch, toBranch, wire, answer, number,
                   replied>>

ResolveFrom(r) ==
    /\ pc[r] = "from"
    /\ \E found \in FindOneBranchCustom(input[r].from, active) :
          IF found.status = "throws"
          THEN Respond(r, "exception") /\ UNCHANGED fromBranch
          ELSE /\ fromBranch' = [fromBranch EXCEPT ![r] = found]
               /\ GoTo(r, "to")
               /\ UNCHANGED reply
    /\ UNCHANGED <<active, table, input, toBranch, wire, answer, number, replied,
                   seen>>

(* The second end is resolved even when the first one was not found; the   *)
(* answer then tells of the first.                                         *)
ResolveTo(r) ==
    /\ pc[r] = "to"
    /\ \E found \in FindOneBranchCustom(input[r].to, active) :
          IF found.status = "throws"
          THEN Respond(r, "exception") /\ UNCHANGED toBranch
          ELSE /\ toBranch' = [toBranch EXCEPT ![r] = found]
               /\ IF fromBranch[r].status = "SUCCESS"
                     /\ found.status = "SUCCESS"
                  THEN GoTo(r, "condition") /\ UNCHANGED reply
                  ELSE Respond(r, IF fromBranch[r].data = None
                                  THEN fromBranch[r].status
                                  ELSE found.status)
    /\ UNCHANGED <<active, table, input, fromBranch, wire, answer, number, replied,
                   seen>>

(* Mutant: the condition looked up from the second branch to the first.    *)
JoinedBackwards(r) == <<toBranch[r].data, fromBranch[r].data>> \in Conditions

Joined(r) == <<fromBranch[r].data, toBranch[r].data>> \in Conditions

(* Mutant: the images are looked at after the order has been sent.         *)
SubmitThenCheck(r) ==
    /\ pc[r] = "condition"
    /\ IF Joined(r)
       THEN wire' = wire \cup {r} /\ answer' = [answer EXCEPT ![r] = "waiting"]
       ELSE UNCHANGED <<wire, answer>>
    /\ IF ~Joined(r) THEN Respond(r, "BRANCH_CONDITION_NOTFOUND")
       ELSE IF input[r].images = "large" THEN Respond(r, "IMAGETOOLARGE")
       ELSE GoTo(r, "create") /\ UNCHANGED reply
    /\ UNCHANGED <<active, table, input, fromBranch, toBranch, number, replied,
                   seen>>

(* findOneBranchTypeCondition, the payload (which reads imageLuggages[0],  *)
(* a TypeError when the field is absent) and the image limit.              *)
Submit(r) ==
    /\ pc[r] = "condition"
    /\ IF ~Joined(r) THEN Respond(r, "BRANCH_CONDITION_NOTFOUND")
                          /\ UNCHANGED <<wire, answer>>
       ELSE IF input[r].images = "absent"
            THEN Respond(r, "exception") /\ UNCHANGED <<wire, answer>>
       ELSE IF input[r].images = "large"
            THEN Respond(r, "IMAGETOOLARGE") /\ UNCHANGED <<wire, answer>>
       ELSE /\ wire' = wire \cup {r}
            /\ answer' = [answer EXCEPT ![r] = "waiting"]
            /\ GoTo(r, "create")
            /\ UNCHANGED reply
    /\ UNCHANGED <<active, table, input, fromBranch, toBranch, number, replied,
                   seen>>

(* Mutant: the order looked up under the agent's own number.               *)
LookupByRef(r) == {n \in DOMAIN table : table[n].ref = input[r].ref} \cup {0}

(* repo.findOne by the order number of the answer: the row's place in the  *)
(* table.  Without an answer the number is undefined, TypeORM leaves the   *)
(* condition out, and the database returns any row (0 stands for none).    *)
LookupRows(r) ==
    IF number[r] # 0 THEN {number[r]}
    ELSE IF table = << >> THEN {0} ELSE DOMAIN table

(* Mutant: only a success lets the handler run on.                         *)
AwaitSuccess(r) == answer[r] = "ok"

(* The await of createOrder has ended.                                     *)
Settled(r) == answer[r] # "waiting"

(* Mutant: a call whose answer was lost is made again.                     *)
LookUpOrResend(r) ==
    /\ pc[r] = "create"
    /\ Settled(r)
    /\ IF answer[r] = "lost"
       THEN /\ wire' = wire \cup {r}
            /\ answer' = [answer EXCEPT ![r] = "waiting"]
            /\ UNCHANGED <<pc, reply, replied>>
       ELSE /\ \E n \in LookupRows(r) : replied' = [replied EXCEPT ![r] = n]
            /\ Respond(r, "SUCCESS")
            /\ UNCHANGED <<wire, answer>>
    /\ UNCHANGED <<active, table, input, fromBranch, toBranch, number, seen>>

(* status is set to FAIL when the call has failed, and to SUCCESS next.    *)
LookUp(r) ==
    /\ pc[r] = "create"
    /\ Settled(r)
    /\ \E n \in LookupRows(r) : replied' = [replied EXCEPT ![r] = n]
    /\ Respond(r, "SUCCESS")
    /\ UNCHANGED <<active, table, input, fromBranch, toBranch, wire, answer, number,
                   seen>>

(* A database statement is rejected.                                       *)
DatabaseFails(r) ==
    /\ \/ pc[r] \in {"from", "to", "condition"}
       \/ pc[r] = "create" /\ Settled(r)
    /\ Respond(r, "exception")
    /\ UNCHANGED <<active, table, input, fromBranch, toBranch, wire, answer, number,
                   replied, seen>>

-----------------------------------------------------------------------------
(* The old system inserts the order; its answer may be lost or too late.   *)
CarryOut(r) ==
    /\ r \in wire
    /\ wire' = wire \ {r}
    /\ table' = Append(table,
                       [ref |-> input[r].ref, req |-> r,
                        from |-> fromBranch[r].data, to |-> toBranch[r].data])
    /\ IF answer[r] = "waiting"
       THEN \/ /\ answer' = [answer EXCEPT ![r] = "ok"]
               /\ number' = [number EXCEPT ![r] = Len(table')]
            \/ /\ answer' = [answer EXCEPT ![r] = "lost"]
               /\ UNCHANGED number
       ELSE UNCHANGED <<answer, number>>
    /\ UNCHANGED <<active, pc, input, fromBranch, toBranch, reply, replied,
                   seen>>

Refuse(r) ==
    /\ r \in wire
    /\ wire' = wire \ {r}
    /\ answer' = IF answer[r] = "waiting"
                 THEN [answer EXCEPT ![r] = "refused"] ELSE answer
    /\ UNCHANGED <<active, table, pc, input, fromBranch, toBranch, number, reply,
                   replied, seen>>

Break(r) ==
    /\ answer[r] = "waiting"
    /\ answer' = [answer EXCEPT ![r] = "lost"]
    /\ UNCHANGED <<active, table, pc, input, fromBranch, toBranch, number, wire,
                   reply, replied, seen>>

(* The old system's staff switches a branch on or off.                     *)
Switch(b) ==
    /\ active' = IF b \in active THEN active \ {b} ELSE active \cup {b}
    /\ seen' = [r \in Requests |->
           IF pc[r] \in {Idle, Done} THEN seen[r]
           ELSE [on |-> seen[r].on \cup active',
                 off |-> seen[r].off \cup (Branches \ active')]]
    /\ UNCHANGED <<table, pc, input, fromBranch, toBranch, wire, answer, number,
                   reply, replied>>

-----------------------------------------------------------------------------
Handler(r) ==
    \/ ResolveFrom(r) \/ ResolveTo(r) \/ Submit(r) \/ LookUp(r)
    \/ DatabaseFails(r)

Transport(r) == CarryOut(r) \/ Refuse(r) \/ Break(r)

Next ==
    \/ \E r \in Requests : Arrive(r) \/ Handler(r) \/ Transport(r)
    \/ \E b \in Branches : Switch(b)

Spec == Init /\ [][Next]_vars

(* Resolving this end asks the old system's support area.                  *)
AsksFor(end) ==
    end.id = None /\ end.place \in Places /\ SupportArea[end.place] # Malformed

AsksSupportArea(r) ==
    \/ pc[r] = "from" /\ AsksFor(input[r].from)
    \/ pc[r] = "to" /\ AsksFor(input[r].to)

(* As in Bookings: settled awaits run on and the database answers or       *)
(* fails, but nothing is assumed of the calls to the old system, which are *)
(* made without a timeout: neither of createOrder nor of the support area. *)
Fairness ==
    \A r \in Requests : WF_vars(~AsksSupportArea(r) /\ Handler(r))

FairSpec == Spec /\ Fairness

-----------------------------------------------------------------------------
OrderRow == [ref : Refs \cup {None}, req : Requests \cup {None},
             from : Branches \cup {None}, to : Branches \cup {None}]

TypeOK ==
    /\ active \subseteq Branches
    /\ table \in Seq(OrderRow)
    /\ pc \in [Requests -> PC]
    /\ input \in [Requests -> Input]
    /\ fromBranch \in [Requests -> Resolution]
    /\ toBranch \in [Requests -> Resolution]
    /\ wire \subseteq Requests
    /\ answer \in [Requests -> {"none", "waiting", "ok", "refused", "lost"}]
    /\ number \in [Requests -> Nat]
    /\ reply \in [Requests -> Reply]
    /\ replied \in [Requests -> Nat]
    /\ seen \in [Requests -> History]

OrdersOf(r) == {n \in DOMAIN table : table[n].req = r}

(* When the old system has confirmed the order, the success answer names   *)
(* the order of this very request, also while other requests (a retry      *)
(* under the same agentBookingNumber, say) are being handled.              *)
ConfirmedReplyNamesItsOrder ==
    \A r \in Requests :
        reply[r] = "SUCCESS" /\ answer[r] = "ok" => replied[r] \in OrdersOf(r)

(* Both branches of every order were seen switched on while its request    *)
(* was handled (at different moments perhaps), and a condition joins them. *)
OrdersJoinServedBranches ==
    \A r \in Requests : \A n \in OrdersOf(r) :
        /\ {table[n].from, table[n].to} \subseteq seen[r].on
        /\ <<table[n].from, table[n].to>> \in Conditions

(* The two ends of request r.                                              *)
Ends(r) == {input[r].from, input[r].to}

(* The reason given for a refusal holds: the branch was off at some time   *)
(* while the request was handled, is in no row, is served but joined to    *)
(* the other by no condition.                                              *)
RefusalIsJustified ==
    \A r \in Requests :
        /\ reply[r] = "BRANCH_INACTIVE" =>
               \E end \in Ends(r) : BranchesOf(end) \cap seen[r].off # {}
        /\ reply[r] = "BRANCH_NOTFOUND" =>
               \E end \in Ends(r) : BranchesOf(end) \cap Branches = {}
        /\ reply[r] = "BRANCH_CONDITION_NOTFOUND" =>
               /\ \A end \in Ends(r) : BranchesOf(end) \subseteq seen[r].on
               /\ (BranchesOf(input[r].from) \X BranchesOf(input[r].to))
                      \cap Conditions = {}
        /\ reply[r] = "UNKNOWNERROR" =>
               \E end \in Ends(r) : end.id = None /\ end.place \in Places

(* A request answered with a client error (a code of 400 or 401) has made  *)
(* no order, and none is on its way: the agent may send it again.          *)
RefusedCreateLeavesNoOrder ==
    \A r \in Requests :
        reply[r] # "pending" /\ HttpCode(reply[r]) \in {400, 401}
            => r \notin wire /\ OrdersOf(r) = {}

(* A request makes one order at the most: whether its answer was lost, or  *)
(* came too late, or the agent was told of an error, the order is not made *)
(* again, and is not on its way a second time.                             *)
OneOrderPerRequest ==
    \A r \in Requests :
        /\ \A m, n \in OrdersOf(r) : m = n
        /\ r \in wire => OrdersOf(r) = {}

(* createBooking sets FAIL when createOrder has failed or answered status  *)
(* false, as if only a confirmed order were a success.                     *)
SuccessMeansConfirmed ==
    \A r \in Requests : reply[r] = "SUCCESS" => answer[r] = "ok"

(* The comment above the agent check: 2323 is Goodlugg, the agent the      *)
(* endpoint is there for.                                                  *)
GoodluggIsLetPass ==
    \A r \in Requests : input[r].agent = 2323 => reply[r] # "UNAUTHORIZED"

(* A call to the old system that the handler of r awaits may be open.      *)
HasOpenCall(r) ==
    AsksSupportArea(r) \/ (pc[r] = "create" /\ answer[r] = "waiting")

(* Every booking request that comes in is answered, whatever becomes of    *)
(* its order, unless one of its calls stays open for ever.                 *)
OnlyOpenCallsHoldCreates ==
    \A r \in Requests :
        (pc[r] # Idle) ~> (reply[r] # "pending" \/ []HasOpenCall(r))
=============================================================================
