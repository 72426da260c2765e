--------------------------- MODULE CreateContract ---------------------------
(***************************************************************************)
(* What an agent may rely on when it creates a booking, without any of the *)
(* lookups, awaits and messages of the service: a request stands for one   *)
(* order, which may be made once or never; it is asked and then answered,  *)
(* once; a refusal has a reason and ends the matter; and an answer that    *)
(* the old system confirmed names the order that was made.                 *)
(***************************************************************************)
EXTENDS CreateRequests

VARIABLES
    active,     \* the branches switched on
    input,      \* the contents of a request
    asked,      \* the requests that have come in
    seen,       \* the branches on, and off, while a request was handled
    open,       \* the requests whose order may still be made
    table,      \* the order table
    confirmed,  \* the requests whose order the service knows to be made
    reply,      \* what each request has been answered
    named       \* the row of the table that a success names

vars == <<active, input, asked, seen, open, table, confirmed, reply, named>>

Ends(r) == {input[r].from, input[r].to}
Waits(r) == r \in asked /\ reply[r] = "pending"

(* The branches that r stands for, when both were on and may be joined.    *)
Routes(r) ==
    {route \in (BranchesOf(input[r].from) \X BranchesOf(input[r].to))
                   \cap Conditions :
        {route[1], route[2]} \subseteq seen[r].on}

(* A request that nothing speaks against.                                  *)
Bookable(r) ==
    /\ input[r].agent = Booker
    /\ input[r].images = "small"
    /\ Routes(r) # {}

Init ==
    /\ active \in SUBSET Branches
    /\ input \in [Requests -> Inputs]
    /\ asked = {}
    /\ seen = [r \in Requests |-> NothingSeen]
    /\ open = Requests
    /\ table = [n \in 1 .. OtherOrders |-> OtherOrder]
    /\ confirmed = {}
    /\ reply = [r \in Requests |-> "pending"]
    /\ named = [r \in Requests |-> 0]

-----------------------------------------------------------------------------
Answer(r, said) == reply' = [reply EXCEPT ![r] = said]

(* The order of r has not been made, and never will be.                    *)
Close(r) == r \in open /\ open' = open \ {r}

(* What may be said against r; an error is always possible.                *)
SaidOfIt(r, why) ==
    CASE why = "UNAUTHORIZED" -> input[r].agent # Booker
      [] why = "FAIL" ->
             \E end \in Ends(r) : Named(end) = None \/ Unrecognised(end)
      [] why = "IMAGETOOLARGE" ->
             input[r].images = "large" /\ Routes(r) # {}
      [] OTHER -> why = "exception"

(* What may be said against its branches, as they were while it was handled.*)
SaidOfEnds(r, why) ==
    CASE why = "BRANCH_INACTIVE" ->
             \E end \in Ends(r) : BranchesOf(end) \cap seen[r].off # {}
      [] why = "BRANCH_NOTFOUND" ->
             \E end \in Ends(r) : BranchesOf(end) \cap Branches = {}
      [] why = "UNKNOWNERROR" ->
             \E end \in Ends(r) : end.id = None /\ end.place \in Places
      [] OTHER ->
             /\ why = "BRANCH_CONDITION_NOTFOUND"
             /\ \A end \in Ends(r) : BranchesOf(end) \subseteq seen[r].on
             /\ Routes(r) = {}

ComesIn(r) ==
    /\ r \notin asked
    /\ asked' = asked \cup {r}
    /\ seen' = [seen EXCEPT ![r] = SeenNow(active)]
    /\ UNCHANGED <<active, input, table, confirmed, named>>

Ask(r) == ComesIn(r) /\ UNCHANGED <<open, reply>>

(* Turned down as it comes in.                                             *)
AskInVain(r) ==
    /\ ComesIn(r)
    /\ \E why \in {"UNAUTHORIZED", "FAIL", "exception"} :
          SaidOfIt(r, why) /\ Answer(r, why)
    /\ Close(r)

Refuse(r) ==
    /\ Waits(r)
    /\ \E why \in Reply :
          (SaidOfIt(r, why) \/ SaidOfEnds(r, why)) /\ Answer(r, why)
    /\ Close(r)
    /\ UNCHANGED <<active, input, asked, seen, table, confirmed, named>>

(* The old system makes the order of r, maybe after r has been answered;   *)
(* as long as it has not been, the service may get to know of it.          *)
Make(r) ==
    /\ r \in asked
    /\ Bookable(r)
    /\ Close(r)
    /\ \E route \in Routes(r) :
          table' = Append(table, [ref |-> input[r].ref, req |-> r,
                                  from |-> route[1], to |-> route[2]])
    /\ \/ UNCHANGED confirmed
       \/ Waits(r) /\ confirmed' = confirmed \cup {r}
    /\ UNCHANGED <<active, input, asked, seen, reply, named>>

(* It turns the order down.                                                *)
Drop(r) ==
    /\ r \in asked
    /\ Close(r)
    /\ UNCHANGED <<active, input, asked, seen, table, confirmed, reply, named>>

(* The rows a success may name.  Unless the order is confirmed that is any *)
(* row, and whether the order is made, or will be, remains open.           *)
Rows(r) ==
    IF r \in confirmed THEN {n \in DOMAIN table : table[n].req = r}
    ELSE IF table = << >> THEN {0} ELSE DOMAIN table

Succeed(r) ==
    /\ Waits(r)
    /\ Bookable(r)
    /\ Answer(r, "SUCCESS")
    /\ \E n \in Rows(r) : named' = [named EXCEPT ![r] = n]
    /\ UNCHANGED <<active, input, asked, seen, open, table, confirmed>>

(* An error after the order was passed on says nothing of it either.       *)
Fail(r) ==
    /\ Waits(r)
    /\ Bookable(r)
    /\ Answer(r, "exception")
    /\ UNCHANGED <<active, input, asked, seen, open, table, confirmed, named>>

Switch(b) ==
    /\ active' = IF b \in active THEN active \ {b} ELSE active \cup {b}
    /\ seen' = [r \in Requests |->
           IF Waits(r) THEN [on |-> seen[r].on \cup active',
                             off |-> seen[r].off \cup (Branches \ active')]
           ELSE seen[r]]
    /\ UNCHANGED <<input, asked, open, table, confirmed, reply, named>>

Next ==
    \/ \E r \in Requests :
          \/ Ask(r) \/ AskInVain(r) \/ Refuse(r) \/ Make(r) \/ Drop(r)
          \/ Succeed(r) \/ Fail(r)
    \/ \E b \in Branches : Switch(b)

Spec == Init /\ [][Next]_vars
=============================================================================
