-------------------------- MODULE CreateBookingProofs --------------------------
(***************************************************************************)
(* Proofs, for every number of branches, requests and orders, of the       *)
(* safety properties of CreateBooking.                                     *)
(***************************************************************************)
EXTENDS CreateBookingRefinement, BranchLookupProofs

(* The row that the old system inserts for r, and what inserting it does.  *)
NewRow(r) == [ref |-> input[r].ref, req |-> r,
              from |-> fromBranch[r].data, to |-> toBranch[r].data]

LEMMA Inserted ==
    ASSUME TypeOK, NEW r \in Requests, CarryOut(r)
    PROVE  /\ NewRow(r) \in OrderRow
           /\ table' \in Seq(OrderRow)
           /\ Len(table') = Len(table) + 1
           /\ DOMAIN table' = DOMAIN table \cup {Len(table')}
           /\ Len(table') \notin DOMAIN table
           /\ \A n \in DOMAIN table : table'[n] = table[n]
           /\ table'[Len(table')] = NewRow(r)
<1>1. input[r] \in Input /\ input[r].ref \in Refs
    BY DEF TypeOK, Input
<1>2. fromBranch[r].data \in Branches \cup {None}
      /\ toBranch[r].data \in Branches \cup {None}
    BY ResolutionIs DEF TypeOK
<1>3. NewRow(r) \in OrderRow
    BY <1>1, <1>2 DEF NewRow, OrderRow
<1>4. table' = Append(table, NewRow(r)) /\ table \in Seq(OrderRow)
    BY DEF CarryOut, NewRow, TypeOK
<1> HIDE DEF NewRow
<1> QED BY <1>3, <1>4

LEMMA InitTypeOK == Init => TypeOK
<1> SUFFICES ASSUME Init PROVE TypeOK
    OBVIOUS
<1>1. table \in Seq(OrderRow)
    <2>1. OtherOrder \in OrderRow
        BY DEF OtherOrder, OrderRow
    <2>2. table = [n \in 1 .. OtherOrders |-> OtherOrder] /\ OtherOrders \in Nat
        BY OtherOrdersAssumption DEF Init
    <2> HIDE DEF OtherOrder, OrderRow
    <2> QED BY <2>1, <2>2
<1>2. NotFound("FAIL") \in Resolution
    BY ResolutionIs
<1>3. input \in [Requests -> Input]
    BY InputsAssumption DEF Init
<1>4. NothingSeen \in History
    BY DEF History, NothingSeen
<1>5. "pending" \in Reply /\ Idle \in PC
    BY DEF Reply, PC
<1> QED BY <1>1, <1>2, <1>3, <1>4, <1>5 DEF Init, TypeOK

(* A handler at work has a request that names both its ends.               *)
AtWork(r) == pc[r] \notin {Idle, Done}
EndsNamed == \A r \in Requests : AtWork(r) => Mapped(input[r])

(* What a resolution of an end gives, where it does not throw.             *)
LEMMA Resolved ==
    ASSUME TypeOK, EndsNamed, NEW r \in Requests, AtWork(r),
           NEW end \in Ends(r), NEW found \in FindOneBranchCustom(end, active),
           found.status # "throws"
    PROVE  Tells(end, found, active, Branches \ active)
<1>1. end \in End /\ Named(end) # None
    BY DEF TypeOK, Input, Ends, EndsNamed, Mapped
<1> QED BY <1>1, LookupTells DEF TypeOK

(* Wherever a handler goes, and whatever it answers, is of its type.       *)
LEMMA Moves ==
    ASSUME TypeOK, NEW r \in Requests
    PROVE  /\ \A s \in Reply : Respond(r, s) =>
                  reply' \in [Requests -> Reply] /\ pc' \in [Requests -> PC]
           /\ \A l \in PC : GoTo(r, l) /\ UNCHANGED reply =>
                  reply' \in [Requests -> Reply] /\ pc' \in [Requests -> PC]
<1>1. Done \in PC
    BY DEF PC
<1>2. /\ pc \in [Requests -> PC]
      /\ reply \in [Requests -> Reply]
    BY DEF TypeOK
<1>3. ASSUME NEW s \in Reply, Respond(r, s)
      PROVE  reply' \in [Requests -> Reply] /\ pc' \in [Requests -> PC]
    BY ONLY <1>1, <1>2, <1>3 DEF Respond, GoTo
<1>4. ASSUME NEW l \in PC, GoTo(r, l), UNCHANGED reply
      PROVE  reply' \in [Requests -> Reply] /\ pc' \in [Requests -> PC]
    BY ONLY <1>2, <1>4 DEF GoTo
<1> QED BY <1>3, <1>4

LEMMA HandlerTypeOK ==
    ASSUME TypeOK, EndsNamed, NEW r \in Requests, Handler(r)
    PROVE  TypeOK'
<1> USE DEF TypeOK, GoTo, Respond
<1>p. {"to", "condition", "create", Done} \subseteq PC
    BY DEF PC
<1>r. DefaultStatus \cup {"exception"} \subseteq Reply
      /\ {"BRANCH_CONDITION_NOTFOUND", "IMAGETOOLARGE", "SUCCESS"}
             \subseteq DefaultStatus
    BY DEF Reply, DefaultStatus
<1>1. CASE ResolveFrom(r)
    <2>1. PICK found \in FindOneBranchCustom(input[r].from, active) :
              IF found.status = "throws"
              THEN Respond(r, "exception") /\ UNCHANGED fromBranch
              ELSE /\ fromBranch' = [fromBranch EXCEPT ![r] = found]
                   /\ GoTo(r, "to")
                   /\ UNCHANGED reply
        BY <1>1 DEF ResolveFrom
    <2>2. found.status # "throws" => found \in Resolution
        BY <1>1, Resolved DEF ResolveFrom, AtWork, Ends, Tells, Idle, Done
    <2>3. fromBranch' \in [Requests -> Resolution]
        BY <2>1, <2>2
    <2>4. reply' \in [Requests -> Reply] /\ pc' \in [Requests -> PC]
        BY <1>p, <1>r, <2>1
    <2> QED BY <1>1, <2>3, <2>4 DEF ResolveFrom
<1>2. CASE ResolveTo(r)
    <2>1. PICK found \in FindOneBranchCustom(input[r].to, active) :
              IF found.status = "throws"
              THEN Respond(r, "exception") /\ UNCHANGED toBranch
              ELSE /\ toBranch' = [toBranch EXCEPT ![r] = found]
                   /\ IF fromBranch[r].status = "SUCCESS"
                         /\ found.status = "SUCCESS"
                      THEN GoTo(r, "condition") /\ UNCHANGED reply
                      ELSE Respond(r, IF fromBranch[r].data = None
                                      THEN fromBranch[r].status
                                      ELSE found.status)
        BY <1>2 DEF ResolveTo
    <2>2. found.status # "throws" => found \in Resolution
        BY <1>2, Resolved DEF ResolveTo, AtWork, Ends, Tells, Idle, Done
    <2>3. /\ found.status # "throws" => found.status \in DefaultStatus
          /\ fromBranch[r].status \in DefaultStatus
        BY <2>2, ResolutionIs
    <2>4. toBranch' \in [Requests -> Resolution]
        BY <1>2, <2>1, <2>2
    <2>5. reply' \in [Requests -> Reply] /\ pc' \in [Requests -> PC]
        BY <1>p, <1>r, <2>1, <2>3
    <2> QED BY <1>2, <2>4, <2>5 DEF ResolveTo
<1>3. CASE Submit(r)
    <2>1. \/ /\ \E s \in {"BRANCH_CONDITION_NOTFOUND", "IMAGETOOLARGE",
                          "exception"} : Respond(r, s)
             /\ UNCHANGED <<wire, answer>>
          \/ /\ wire' = wire \cup {r}
             /\ answer' = [answer EXCEPT ![r] = "waiting"]
             /\ GoTo(r, "create") /\ UNCHANGED reply
        BY <1>3 DEF Submit
    <2>2. reply' \in [Requests -> Reply] /\ pc' \in [Requests -> PC]
        <3> HIDE DEF Respond, GoTo
        <3> QED BY <1>p, <1>r, <2>1, Moves
    <2>3. /\ wire' \subseteq Requests
          /\ answer' \in [Requests ->
                              {"none", "waiting", "ok", "refused", "lost"}]
        BY <2>1
    <2> QED BY <1>3, <2>2, <2>3 DEF Submit
<1>4. CASE LookUp(r)
    <2>1. LookupRows(r) \subseteq Nat
        BY DEF LookupRows
    <2> QED BY <1>4, <1>p, <1>r, <2>1 DEF LookUp
<1>5. CASE DatabaseFails(r)
    BY <1>5, <1>p, <1>r DEF DatabaseFails
<1> QED BY <1>1, <1>2, <1>3, <1>4, <1>5 DEF Handler

LEMMA TypeOKStep ==
    ASSUME TypeOK, EndsNamed, [Next]_vars
    PROVE  TypeOK'
<1> USE DEF TypeOK
<1>1. ASSUME NEW r \in Requests, Arrive(r) PROVE TypeOK'
    <2>1. seen' \in [Requests -> History]
        BY <1>1 DEF Arrive, History, SeenNow
    <2>2. {"exception", "UNAUTHORIZED", "FAIL"} \subseteq Reply
          /\ {"from", Done} \subseteq PC
        BY DEF Reply, DefaultStatus, PC
    <2>3. reply' \in [Requests -> Reply] /\ pc' \in [Requests -> PC]
        BY <1>1, <2>2, Moves DEF Arrive
    <2> QED BY <1>1, <2>1, <2>3 DEF Arrive
<1>2. ASSUME NEW r \in Requests, CarryOut(r) PROVE TypeOK'
    <2>1. table' \in Seq(OrderRow) /\ Len(table') \in Nat
        BY <1>2, Inserted
    <2>2. number' \in [Requests -> Nat]
        BY <1>2, <2>1 DEF CarryOut
    <2> QED BY <1>2, <2>1, <2>2 DEF CarryOut
<1>3. ASSUME NEW r \in Requests, Refuse(r) PROVE TypeOK'
    BY <1>3 DEF Refuse
<1>4. ASSUME NEW r \in Requests, Break(r) PROVE TypeOK'
    BY <1>4 DEF Break
<1>5. ASSUME NEW b \in Branches, Switch(b) PROVE TypeOK'
    BY <1>5 DEF Switch, History
<1>6. CASE UNCHANGED vars
    BY <1>6 DEF vars
<1> QED BY <1>1, <1>2, <1>3, <1>4, <1>5, <1>6, HandlerTypeOK
        DEF Next, Transport

-----------------------------------------------------------------------------
(* What concerns one request is changed by its own steps only, but for     *)
(* the branches it is seen to live through.                                *)
Mine(r) == Arrive(r) \/ Handler(r) \/ Transport(r)

LEMMA OthersStay ==
    ASSUME TypeOK, [Next]_vars, NEW r \in Requests, ~Mine(r)
    PROVE  /\ pc'[r] = pc[r] /\ reply'[r] = reply[r]
           /\ fromBranch'[r] = fromBranch[r] /\ toBranch'[r] = toBranch[r]
           /\ answer'[r] = answer[r] /\ number'[r] = number[r]
           /\ replied'[r] = replied[r]
           /\ r \in wire' <=> r \in wire
           /\ OrdersOf(r)' = OrdersOf(r)
           /\ \A n \in OrdersOf(r) : table'[n] = table[n]
<1> USE DEF TypeOK
<1> DEFINE Untouched ==
        /\ pc'[r] = pc[r] /\ reply'[r] = reply[r]
        /\ fromBranch'[r] = fromBranch[r] /\ toBranch'[r] = toBranch[r]
        /\ answer'[r] = answer[r] /\ number'[r] = number[r]
        /\ replied'[r] = replied[r]
        /\ r \in wire' <=> r \in wire
        /\ table' = table
<1>1. ASSUME NEW q \in Requests, q # r, Arrive(q) \/ Handler(q)
      PROVE  Untouched
    <2> USE <1>1 DEF Respond, GoTo
    <2>1. CASE Arrive(q)
        BY <2>1 DEF Arrive
    <2>2. CASE ResolveFrom(q)
        BY <2>2 DEF ResolveFrom
    <2>3. CASE ResolveTo(q)
        BY <2>3 DEF ResolveTo
    <2>4. CASE Submit(q)
        BY <2>4 DEF Submit
    <2>5. CASE LookUp(q)
        BY <2>5 DEF LookUp
    <2>6. CASE DatabaseFails(q)
        BY <2>6 DEF DatabaseFails
    <2> QED BY <1>1, <2>1, <2>2, <2>3, <2>4, <2>5, <2>6 DEF Handler
<1>2. ASSUME NEW q \in Requests, q # r, Transport(q)
      PROVE  /\ UNCHANGED <<pc, reply, fromBranch, toBranch, replied>>
             /\ answer'[r] = answer[r] /\ number'[r] = number[r]
             /\ r \in wire' <=> r \in wire
    BY <1>2 DEF Transport, CarryOut, Refuse, Break
<1>3. ASSUME NEW q \in Requests, q # r, CarryOut(q)
      PROVE  /\ OrdersOf(r)' = OrdersOf(r)
             /\ \A n \in OrdersOf(r) : table'[n] = table[n]
    <2>1. NewRow(q).req # r
        BY <1>3 DEF NewRow
    <2> QED BY <1>3, <2>1, Inserted DEF OrdersOf
<1>4. ASSUME NEW q \in Requests, Refuse(q) \/ Break(q) PROVE table' = table
    BY <1>4 DEF Refuse, Break
<1>5. ASSUME NEW b \in Branches, Switch(b)
      PROVE  UNCHANGED <<table, pc, input, fromBranch, toBranch, wire, answer,
                         number, reply, replied>>
    BY <1>5 DEF Switch
<1>6. CASE UNCHANGED vars
    BY <1>6 DEF vars, OrdersOf
<1>7. ASSUME UNCHANGED table
      PROVE  /\ OrdersOf(r)' = OrdersOf(r)
             /\ \A n \in OrdersOf(r) : table'[n] = table[n]
    BY <1>7 DEF OrdersOf
<1> QED BY <1>1, <1>2, <1>3, <1>4, <1>5, <1>6, <1>7
        DEF Next, Mine, Transport

LEMMA InputStays ==
    ASSUME [Next]_vars
    PROVE  input' = input
BY DEF Next, Arrive, Handler, ResolveFrom, ResolveTo, Submit, LookUp,
       DatabaseFails, Transport, CarryOut, Refuse, Break, Switch, vars

LEMMA EndsNamedStep ==
    ASSUME TypeOK, EndsNamed, [Next]_vars
    PROVE  EndsNamed'
<1> SUFFICES ASSUME NEW r \in Requests, AtWork(r)'
             PROVE  Mapped(input[r])
    BY InputStays DEF EndsNamed
<1>1. CASE AtWork(r)
    BY <1>1 DEF EndsNamed
<1>2. CASE ~AtWork(r)
    <2>1. Mine(r)
        BY <1>2, OthersStay DEF AtWork
    <2>2. CASE Arrive(r)
        BY <2>2 DEF Arrive, Respond, GoTo, AtWork, TypeOK, Done, Idle
    <2>3. ~Handler(r)
        BY <1>2 DEF AtWork, Handler, ResolveFrom, ResolveTo, Submit, LookUp,
                    DatabaseFails, Done, Idle
    <2>4. ~Transport(r)
        BY <1>2 DEF AtWork, Transport, CarryOut, Refuse, Break
    <2> QED BY <2>1, <2>2, <2>3, <2>4 DEF Mine
<1> QED BY <1>1, <1>2

(* While a request is handled, what is on and off now has been seen so.    *)
SeenInv ==
    \A r \in Requests :
        /\ AtWork(r) => /\ active \subseteq seen[r].on
                        /\ Branches \ active \subseteq seen[r].off
        /\ pc[r] = Idle => seen[r].on = {} /\ seen[r].off = {}

SeenGrows ==
    \A r \in Requests : /\ seen[r].on \subseteq seen'[r].on
                        /\ seen[r].off \subseteq seen'[r].off

LEMMA SeenStep ==
    ASSUME TypeOK, SeenInv, [Next]_vars
    PROVE  SeenInv' /\ SeenGrows
<1> USE DEF TypeOK, AtWork, Idle, Done
<1>1. ASSUME NEW r \in Requests, Arrive(r) PROVE SeenInv' /\ SeenGrows
    <2>1. /\ UNCHANGED active /\ pc[r] = Idle /\ pc'[r] # Idle
          /\ seen' = [seen EXCEPT ![r] = [on |-> active,
                                          off |-> Branches \ active]]
          /\ \A q \in Requests \ {r} : pc'[q] = pc[q]
        BY <1>1 DEF Arrive, Respond, GoTo, SeenNow
    <2> QED BY <2>1 DEF SeenInv, SeenGrows
<1>2. ASSUME NEW r \in Requests, Handler(r) PROVE SeenInv' /\ SeenGrows
    <2>1. /\ UNCHANGED <<active, seen>> /\ pc[r] \notin {Idle, Done}
          /\ pc'[r] # Idle
          /\ \A q \in Requests \ {r} : pc'[q] = pc[q]
        BY <1>2 DEF Handler, ResolveFrom, ResolveTo, Submit, LookUp,
                    DatabaseFails, Respond, GoTo
    <2> QED BY <2>1 DEF SeenInv, SeenGrows
<1>3. ASSUME NEW r \in Requests, Transport(r) PROVE SeenInv' /\ SeenGrows
    <2>1. UNCHANGED <<active, seen, pc>>
        BY <1>3 DEF Transport, CarryOut, Refuse, Break
    <2> QED BY <2>1 DEF SeenInv, SeenGrows
<1>4. ASSUME NEW b \in Branches, Switch(b) PROVE SeenInv' /\ SeenGrows
    BY <1>4 DEF Switch, SeenInv, SeenGrows, History
<1>5. CASE UNCHANGED vars
    BY <1>5 DEF vars, SeenInv, SeenGrows
<1> QED BY <1>1, <1>2, <1>3, <1>4, <1>5 DEF Next

-----------------------------------------------------------------------------
(* What a handler has found of its ends is true of the branches seen, and  *)
(* it goes on to the condition only with two branches.                     *)
Told(r) == /\ Tells(input[r].from, fromBranch[r], seen[r].on, seen[r].off)
           /\ Tells(input[r].to, toBranch[r], seen[r].on, seen[r].off)
BothFound(r) == fromBranch[r].data # None /\ toBranch[r].data # None

FoundInv ==
    \A r \in Requests :
        /\ Told(r)
        /\ pc[r] \in {"condition", "create"} => BothFound(r)

LEMMA FoundStep ==
    ASSUME TypeOK, EndsNamed, SeenInv, FoundInv, [Next]_vars
    PROVE  FoundInv'
<1> SUFFICES ASSUME NEW r \in Requests
             PROVE  /\ Told(r)'
                    /\ pc'[r] \in {"condition", "create"} => BothFound(r)'
    BY DEF FoundInv
<1>0. /\ input' = input
      /\ seen[r].on \subseteq seen'[r].on /\ seen[r].off \subseteq seen'[r].off
      /\ Told(r) /\ (pc[r] \in {"condition", "create"} => BothFound(r))
    BY InputStays, SeenStep DEF SeenGrows, FoundInv
<1>1. /\ fromBranch'[r] = fromBranch[r]
             => Tells(input[r].from, fromBranch[r], seen'[r].on, seen'[r].off)
      /\ toBranch'[r] = toBranch[r]
             => Tells(input[r].to, toBranch[r], seen'[r].on, seen'[r].off)
    BY <1>0, TellsMore DEF Told
<1>2. CASE /\ fromBranch'[r] = fromBranch[r] /\ toBranch'[r] = toBranch[r]
           /\ pc'[r] = pc[r] \/ pc[r] = "condition"
              \/ pc'[r] \notin {"condition", "create"}
    BY <1>0, <1>1, <1>2 DEF Told, BothFound
<1>3. ASSUME NEW end \in Ends(r), AtWork(r),
             NEW found \in FindOneBranchCustom(end, active),
             found.status # "throws"
      PROVE  Tells(end, found, seen'[r].on, seen'[r].off)
    <2>1. /\ active \subseteq seen'[r].on
          /\ Branches \ active \subseteq seen'[r].off
        BY <1>0, <1>3 DEF SeenInv
    <2> QED BY <1>3, <2>1, Resolved, TellsMore
<1>4. CASE ResolveFrom(r)
    <2> USE <1>4 DEF ResolveFrom, TypeOK, Respond, GoTo, Done
    <2>1. PICK found \in FindOneBranchCustom(input[r].from, active) :
              \/ fromBranch'[r] = fromBranch[r] /\ pc'[r] = Done
              \/ /\ found.status # "throws"
                 /\ fromBranch'[r] = found
                 /\ pc'[r] = "to"
        OBVIOUS
    <2>2. toBranch'[r] = toBranch[r] /\ AtWork(r) /\ input[r].from \in Ends(r)
        BY DEF AtWork, Idle, Ends
    <2> QED BY <1>0, <1>1, <1>3, <2>1, <2>2 DEF Told
<1>5. CASE ResolveTo(r)
    <2> USE <1>5 DEF ResolveTo, TypeOK, Respond, GoTo, Done
    <2>1. PICK found \in FindOneBranchCustom(input[r].to, active) :
              \/ toBranch'[r] = toBranch[r] /\ pc'[r] = Done
              \/ /\ found.status # "throws"
                 /\ toBranch'[r] = found
                 /\ \/ pc'[r] = Done
                    \/ /\ pc'[r] = "condition"
                       /\ fromBranch[r].status = "SUCCESS"
                       /\ found.status = "SUCCESS"
        OBVIOUS
    <2>2. fromBranch'[r] = fromBranch[r] /\ AtWork(r) /\ input[r].to \in Ends(r)
        BY DEF AtWork, Idle, Ends
    <2>3. Told(r)'
        BY <1>0, <1>1, <1>3, <2>1, <2>2 DEF Told
    <2> QED BY <1>0, <2>1, <2>2, <2>3 DEF Told, Tells, BothFound
<1>6. CASE Arrive(r)
    BY <1>2, <1>6 DEF Arrive, Respond, GoTo, TypeOK, Done, Idle
<1>7. CASE Submit(r) \/ LookUp(r) \/ DatabaseFails(r)
    BY <1>2, <1>7 DEF Submit, LookUp, DatabaseFails, Respond, GoTo, TypeOK,
                      Done
<1>8. CASE Transport(r)
    BY <1>2, <1>8 DEF Transport, CarryOut, Refuse, Break
<1>9. CASE ~Mine(r)
    BY <1>2, <1>9, OthersStay
<1> QED BY <1>4, <1>5, <1>6, <1>7, <1>8, <1>9 DEF Mine, Handler
-----------------------------------------------------------------------------
(* The order of a request: whatever of it exists was sent for two branches *)
(* that a condition joins, and its handler has been refused nothing.       *)
Sent(r) == r \in wire \/ answer[r] # "none" \/ OrdersOf(r) # {}

OrderOf(r) ==
    /\ Sent(r) => /\ BothFound(r) /\ Joined(r)
                  /\ \/ pc[r] = "create"
                     \/ pc[r] = Done /\ reply[r] \in {"SUCCESS", "exception"}
    /\ \A n \in OrdersOf(r) : /\ table[n].from = fromBranch[r].data
                              /\ table[n].to = toBranch[r].data
    /\ answer[r] = "waiting" => pc[r] = "create"
    /\ answer[r] = "ok" => number[r] \in OrdersOf(r)
    /\ reply[r] # "pending" => pc[r] = Done
    /\ reply[r] = "SUCCESS" /\ answer[r] = "ok" => replied[r] \in OrdersOf(r)

OrderInv == \A r \in Requests : OrderOf(r)

LEMMA OrderStep ==
    ASSUME TypeOK, FoundInv, OrderInv, [Next]_vars
    PROVE  OrderInv'
<1> SUFFICES ASSUME NEW r \in Requests PROVE OrderOf(r)'
    BY DEF OrderInv
<1>0. OrderOf(r)
    BY DEF OrderInv
<1> USE DEF TypeOK
<1>1. CASE ~Mine(r)
    <2>1. /\ pc'[r] = pc[r] /\ reply'[r] = reply[r]
          /\ fromBranch'[r] = fromBranch[r] /\ toBranch'[r] = toBranch[r]
          /\ answer'[r] = answer[r] /\ number'[r] = number[r]
          /\ replied'[r] = replied[r]
          /\ r \in wire' <=> r \in wire
          /\ OrdersOf(r)' = OrdersOf(r)
          /\ \A n \in OrdersOf(r) : table'[n] = table[n]
        BY <1>1, OthersStay
    <2>2. /\ Sent(r)' <=> Sent(r)
          /\ BothFound(r)' <=> BothFound(r)
          /\ Joined(r)' <=> Joined(r)
        BY <2>1 DEF Sent, BothFound, Joined
    <2>3. \A n \in OrdersOf(r)' : /\ table'[n].from = fromBranch'[r].data
                                 /\ table'[n].to = toBranch'[r].data
        <3>1. \A n \in OrdersOf(r) : /\ table[n].from = fromBranch[r].data
                                    /\ table[n].to = toBranch[r].data
            BY <1>0 DEF OrderOf
        <3> HIDE DEF TypeOK
        <3> QED BY <2>1, <3>1
    <2> QED BY <1>0, <2>1, <2>2, <2>3 DEF OrderOf
<1>2. CASE Arrive(r) \/ ResolveFrom(r) \/ ResolveTo(r)
    <2>1. /\ pc[r] \notin {"create", Done}
          /\ pc'[r] = Done \/ reply'[r] = reply[r]
          /\ UNCHANGED <<table, wire, answer, number>>
        BY <1>2 DEF Arrive, ResolveFrom, ResolveTo, Respond, GoTo, Idle, Done
    <2>2. ~Sent(r) /\ reply[r] = "pending"
        BY <1>0, <2>1 DEF OrderOf
    <2>3. ~Sent(r)'
        BY <2>1, <2>2 DEF Sent, OrdersOf
    <2> QED BY <2>1, <2>2, <2>3 DEF OrderOf, Sent
<1>3. CASE Submit(r)
    <2>1. pc[r] = "condition" /\ UNCHANGED <<table, fromBranch, toBranch>>
        BY <1>3 DEF Submit
    <2>2. ~Sent(r) /\ reply[r] = "pending" /\ OrdersOf(r) = {}
        BY <1>0, <2>1 DEF OrderOf, Sent, Done
    <2>3. BothFound(r)' /\ Joined(r)' = Joined(r) /\ OrdersOf(r)' = {}
        BY <2>1, <2>2 DEF FoundInv, BothFound, Joined, OrdersOf
    <2>4. \/ pc'[r] = Done /\ UNCHANGED <<wire, answer>>
          \/ /\ Joined(r)
             /\ pc'[r] = "create" /\ reply' = reply /\ answer'[r] = "waiting"
        BY <1>3 DEF Submit, Respond, GoTo
    <2> QED BY <2>2, <2>3, <2>4 DEF OrderOf, Sent
<1>4. CASE LookUp(r)
    <2>1. PICK n \in LookupRows(r) : replied' = [replied EXCEPT ![r] = n]
        BY <1>4 DEF LookUp
    <2>2. /\ UNCHANGED <<table, fromBranch, toBranch, wire, answer, number>>
          /\ pc'[r] = Done /\ reply'[r] = "SUCCESS" /\ answer[r] # "waiting"
        BY <1>4 DEF LookUp, Respond, GoTo, Settled
    <2>3. answer[r] = "ok" => replied'[r] = number[r]
        <3>1. answer[r] = "ok" => number[r] \in DOMAIN table
            BY <1>0 DEF OrderOf, OrdersOf
        <3>2. answer[r] = "ok" => number[r] # 0
            BY <3>1
        <3> QED BY <2>1, <3>2 DEF LookupRows
    <2>4. OrdersOf(r)' = OrdersOf(r)
        BY <2>2 DEF OrdersOf
    <2> QED BY <1>0, <2>2, <2>3, <2>4 DEF OrderOf, Sent, BothFound, Joined
<1>5. CASE DatabaseFails(r)
    <2>1. /\ UNCHANGED <<table, fromBranch, toBranch, wire, answer, number>>
          /\ pc'[r] = Done /\ reply'[r] = "exception"
          /\ pc[r] = "create" => answer[r] # "waiting"
        BY <1>5 DEF DatabaseFails, Respond, GoTo, Settled
    <2>2. OrdersOf(r)' = OrdersOf(r)
        BY <2>1 DEF OrdersOf
    <2> QED BY <1>0, <2>1, <2>2 DEF OrderOf, Sent, BothFound, Joined
<1>6. CASE CarryOut(r)
    <2>1. /\ r \in wire /\ UNCHANGED <<pc, fromBranch, toBranch, reply, replied>>
          /\ \/ answer[r] = "waiting" /\ answer'[r] = "ok"
                /\ number'[r] = Len(table')
             \/ answer[r] = "waiting" /\ answer'[r] = "lost"
             \/ answer[r] # "waiting" /\ UNCHANGED <<answer, number>>
        BY <1>6 DEF CarryOut
    <2>2. Sent(r)
        BY <2>1 DEF Sent
    <2>3. NewRow(r).req = r /\ NewRow(r).from = fromBranch[r].data
          /\ NewRow(r).to = toBranch[r].data
        BY DEF NewRow
    <2>4. /\ OrdersOf(r)' = OrdersOf(r) \cup {Len(table')}
          /\ \A n \in OrdersOf(r) : table'[n] = table[n]
          /\ table'[Len(table')] = NewRow(r)
        BY <1>6, <2>3, Inserted DEF OrdersOf
    <2>5. answer[r] = "waiting" => reply[r] = "pending"
        BY <1>0, <2>1 DEF OrderOf, Done
    <2>6. \A n \in OrdersOf(r)' : /\ table'[n].from = fromBranch[r].data
                                 /\ table'[n].to = toBranch[r].data
        BY <1>0, <2>3, <2>4 DEF OrderOf
    <2> QED BY <1>0, <2>1, <2>2, <2>4, <2>5, <2>6
            DEF OrderOf, Sent, BothFound, Joined
<1>7. CASE Refuse(r) \/ Break(r)
    <2>1. /\ UNCHANGED <<table, pc, fromBranch, toBranch, reply, replied, number>>
          /\ Sent(r)
          /\ answer'[r] \in {answer[r], "refused", "lost"}
        BY <1>7 DEF Refuse, Break, Sent
    <2>2. OrdersOf(r)' = OrdersOf(r)
        BY <2>1 DEF OrdersOf
    <2> QED BY <1>0, <2>1, <2>2 DEF OrderOf, Sent, BothFound, Joined
<1> QED BY <1>1, <1>2, <1>3, <1>4, <1>5, <1>6, <1>7
        DEF Mine, Handler, Transport

(* A refusal tells of what the handler has found.                          *)
Reason(r) ==
    /\ reply[r] \in {"BRANCH_INACTIVE", "BRANCH_NOTFOUND", "UNKNOWNERROR"}
           => reply[r] \in {fromBranch[r].status, toBranch[r].status}
    /\ reply[r] = "BRANCH_CONDITION_NOTFOUND" => BothFound(r) /\ ~Joined(r)

ReasonInv == \A r \in Requests : Reason(r)

LEMMA ReasonStep ==
    ASSUME TypeOK, EndsNamed, SeenInv, FoundInv, OrderInv, ReasonInv,
           [Next]_vars
    PROVE  ReasonInv'
<1> SUFFICES ASSUME NEW r \in Requests PROVE Reason(r)'
    BY DEF ReasonInv
<1>0. Reason(r) /\ OrderOf(r)
    BY DEF ReasonInv, OrderInv
<1>n. FoundInv' /\ FoundInv
    BY FoundStep
<1> USE DEF TypeOK
<1>1. CASE /\ fromBranch'[r] = fromBranch[r] /\ toBranch'[r] = toBranch[r]
           /\ reply'[r] = reply[r]
    BY <1>0, <1>1 DEF Reason, BothFound, Joined
<1>2. CASE reply'[r] \in {"pending", "SUCCESS", "exception", "UNAUTHORIZED",
                         "FAIL", "IMAGETOOLARGE"}
    BY <1>2 DEF Reason
<1>3. CASE ~Mine(r)
    BY <1>1, <1>3, OthersStay
<1>4. CASE Arrive(r) \/ LookUp(r) \/ DatabaseFails(r)
    BY <1>1, <1>2, <1>4 DEF Arrive, LookUp, DatabaseFails, Respond, GoTo
<1>5. CASE ResolveFrom(r)
    <2>1. reply[r] = "pending"
        BY <1>0, <1>5 DEF OrderOf, ResolveFrom, Done
    <2>2. reply'[r] \in {"pending", "exception"}
        BY <1>5, <2>1 DEF ResolveFrom, Respond
    <2> QED BY <1>2, <2>2
<1>6. CASE ResolveTo(r)
    <2>1. reply[r] = "pending"
        BY <1>0, <1>6 DEF OrderOf, ResolveTo, Done
    <2>2. \/ reply'[r] \in {"pending", "exception"}
          \/ reply'[r] \in {fromBranch'[r].status, toBranch'[r].status}
        BY <1>6, <2>1 DEF ResolveTo, Respond, GoTo
    <2>3. /\ fromBranch'[r].status # "BRANCH_CONDITION_NOTFOUND"
          /\ toBranch'[r].status # "BRANCH_CONDITION_NOTFOUND"
        BY <1>n DEF FoundInv, Told, Tells
    <2> QED BY <1>2, <2>2, <2>3 DEF Reason
<1>7. CASE Submit(r)
    <2>1. pc[r] = "condition" /\ UNCHANGED <<fromBranch, toBranch>>
        BY <1>7 DEF Submit
    <2>2. reply[r] = "pending" /\ BothFound(r)
        BY <1>0, <1>n, <2>1 DEF OrderOf, FoundInv, Done
    <2>3. \/ reply'[r] = "BRANCH_CONDITION_NOTFOUND" /\ ~Joined(r)
          \/ reply'[r] \in {"pending", "exception", "IMAGETOOLARGE"}
        BY <1>7, <2>2 DEF Submit, Respond, GoTo
    <2> QED BY <1>2, <2>1, <2>2, <2>3 DEF Reason, BothFound, Joined
<1>8. CASE Transport(r)
    BY <1>1, <1>8 DEF Transport, CarryOut, Refuse, Break
<1> QED BY <1>3, <1>4, <1>5, <1>6, <1>7, <1>8 DEF Mine, Handler

-----------------------------------------------------------------------------
IInv == /\ TypeOK /\ EndsNamed /\ SeenInv
        /\ FoundInv /\ OrderInv /\ ReasonInv

LEMMA InitIInv == Init => IInv
<1> SUFFICES ASSUME Init PROVE IInv
    OBVIOUS
<1>1. TypeOK
    BY InitTypeOK
<1>2. ASSUME NEW r \in Requests
      PROVE  /\ pc[r] = Idle /\ ~AtWork(r) /\ seen[r] = NothingSeen
             /\ fromBranch[r] = NotFound("FAIL") /\ toBranch[r] = NotFound("FAIL")
             /\ r \notin wire /\ answer[r] = "none" /\ reply[r] = "pending"
    BY DEF Init, AtWork
<1>3. ASSUME NEW r \in Requests PROVE OrdersOf(r) = {}
    <2>1. ASSUME NEW n \in DOMAIN table PROVE table[n].req # r
        BY <2>1, NoneAssumption DEF Init, OtherOrder
    <2> QED BY <2>1 DEF OrdersOf
<1>4. EndsNamed /\ SeenInv
    BY <1>2 DEF EndsNamed, SeenInv, NothingSeen
<1>5. FoundInv
    BY <1>2, NothingTold DEF FoundInv, Told, Idle
<1>6. OrderInv
    BY <1>2, <1>3 DEF OrderInv, OrderOf, Sent
<1>7. ReasonInv
    BY <1>2 DEF ReasonInv, Reason
<1> QED BY <1>1, <1>4, <1>5, <1>6, <1>7 DEF IInv

LEMMA StepIInv == IInv /\ [Next]_vars => IInv'
BY TypeOKStep, EndsNamedStep, SeenStep, FoundStep, OrderStep, ReasonStep
   DEF IInv

LEMMA IInvHolds == Spec => []IInv
BY InitIInv, StepIInv, PTL DEF Spec
(* Every state of a running service is well typed: no row of the table, no *)
(* answer and no place in a handler is outside what the code can hold.     *)
THEOREM TypeCorrect == Spec => []TypeOK
BY IInvHolds, PTL DEF IInv

(* Whatever requests run at the same time, a success answer to a request   *)
(* whose order the old system confirmed names an order of that request.    *)
THEOREM ConfirmedReplies == Spec => []ConfirmedReplyNamesItsOrder
<1>1. IInv => ConfirmedReplyNamesItsOrder
    BY DEF IInv, OrderInv, OrderOf, ConfirmedReplyNamesItsOrder
<1> QED BY <1>1, IInvHolds, PTL

(* The branches of every order were both seen switched on while it was     *)
(* being made, however often they are switched, and a condition joins them.*)
THEOREM OrdersAreServed == Spec => []OrdersJoinServedBranches
<1>1. ASSUME IInv, NEW r \in Requests, NEW n \in OrdersOf(r)
      PROVE  /\ {table[n].from, table[n].to} \subseteq seen[r].on
             /\ <<table[n].from, table[n].to>> \in Conditions
    <2>1. /\ BothFound(r) /\ Joined(r) /\ Told(r)
          /\ table[n].from = fromBranch[r].data
          /\ table[n].to = toBranch[r].data
        BY <1>1 DEF IInv, OrderInv, OrderOf, Sent, FoundInv
    <2> QED BY <2>1 DEF BothFound, Joined, Told, Tells
<1>2. IInv => OrdersJoinServedBranches
    BY <1>1 DEF OrdersJoinServedBranches
<1> QED BY <1>2, IInvHolds, PTL

(* A request answered with a client error made no order and has none on    *)
(* its way, so that sending it again makes no second one.                  *)
THEOREM RefusedMakesNone == Spec => []RefusedCreateLeavesNoOrder
<1>1. ASSUME IInv, NEW r \in Requests, reply[r] # "pending",
             HttpCode(reply[r]) \in {400, 401}
      PROVE  r \notin wire /\ OrdersOf(r) = {}
    <2>1. OrderOf(r)
        BY <1>1 DEF IInv, OrderInv
    <2>2. reply[r] \notin {"SUCCESS", "exception"}
        BY <1>1 DEF HttpCode
    <2>3. ~Sent(r)
        BY <1>1, <2>1, <2>2 DEF OrderOf, Done
    <2> QED BY <2>3 DEF Sent
<1>2. IInv => RefusedCreateLeavesNoOrder
    BY <1>1 DEF RefusedCreateLeavesNoOrder
<1> QED BY <1>2, IInvHolds, PTL

(* The reason given for a refusal was true at some time while the request  *)
(* was handled, whatever was switched on or off between its reads.         *)
THEOREM RefusalsAreJustified == Spec => []RefusalIsJustified
<1>1. ASSUME IInv, NEW r \in Requests
      PROVE  /\ reply[r] = "BRANCH_INACTIVE" =>
                    \E end \in Ends(r) : BranchesOf(end) \cap seen[r].off # {}
             /\ reply[r] = "BRANCH_NOTFOUND" =>
                    \E end \in Ends(r) : BranchesOf(end) \cap Branches = {}
             /\ reply[r] = "BRANCH_CONDITION_NOTFOUND" =>
                    /\ \A end \in Ends(r) : BranchesOf(end) \subseteq seen[r].on
                    /\ (BranchesOf(input[r].from) \X BranchesOf(input[r].to))
                           \cap Conditions = {}
             /\ reply[r] = "UNKNOWNERROR" =>
                    \E end \in Ends(r) : end.id = None /\ end.place \in Places
    <2>1. Told(r) /\ Reason(r)
        BY <1>1 DEF IInv, FoundInv, ReasonInv
    <2>2. CASE reply[r] = fromBranch[r].status
               /\ reply[r] # "BRANCH_CONDITION_NOTFOUND"
        BY <2>1, <2>2 DEF Told, Tells, Ends
    <2>3. CASE reply[r] = toBranch[r].status
               /\ reply[r] # "BRANCH_CONDITION_NOTFOUND"
        BY <2>1, <2>3 DEF Told, Tells, Ends
    <2>4. CASE reply[r] = "BRANCH_CONDITION_NOTFOUND"
        <3>1. BothFound(r) /\ ~Joined(r)
            BY <2>1, <2>4 DEF Reason
        <3>2. /\ BranchesOf(input[r].from) = {fromBranch[r].data}
              /\ BranchesOf(input[r].to) = {toBranch[r].data}
              /\ {fromBranch[r].data, toBranch[r].data} \subseteq seen[r].on
            BY <2>1, <3>1 DEF BothFound, Told, Tells
        <3> QED BY <2>4, <3>1, <3>2 DEF Joined, Ends
    <2> QED BY <2>1, <2>2, <2>3, <2>4 DEF Reason
<1>2. IInv => RefusalIsJustified
    BY <1>1 DEF RefusalIsJustified
<1> QED BY <1>2, IInvHolds, PTL

(* Once an order is in the table, no call for it is on the wire; and none  *)
(* goes out but from a handler that has not sent one (~Sent).              *)
LEMMA OneOrderStep ==
    ASSUME TypeOK, OrderInv, OneOrderPerRequest, [Next]_vars
    PROVE  OneOrderPerRequest'
<1> DEFINE One(r) == /\ \A m, n \in OrdersOf(r) : m = n
                     /\ r \in wire => OrdersOf(r) = {}
<1> SUFFICES ASSUME NEW r \in Requests PROVE One(r)'
    BY DEF OneOrderPerRequest
<1>0. One(r) /\ OrderOf(r)
    BY DEF OneOrderPerRequest, OrderInv
<1>1. ASSUME OrdersOf(r)' = OrdersOf(r), r \in wire' => r \in wire
      PROVE  One(r)'
    BY <1>0, <1>1
<1>2. CASE ~Mine(r)
    BY <1>1, <1>2, OthersStay
<1>3. CASE UNCHANGED <<table, wire>>
    BY <1>1, <1>3 DEF OrdersOf
<1>4. CASE Arrive(r) \/ ResolveFrom(r) \/ ResolveTo(r) \/ LookUp(r)
           \/ DatabaseFails(r) \/ Break(r)
    BY <1>3, <1>4
       DEF Arrive, ResolveFrom, ResolveTo, LookUp, DatabaseFails, Break
<1>5. CASE Submit(r)
    <2>1. OrdersOf(r) = {}
        BY <1>0, <1>5 DEF Submit, OrderOf, Sent, Done
    <2>2. OrdersOf(r)' = {}
        BY <1>5, <2>1 DEF Submit, OrdersOf
    <2> QED BY <2>2
<1>6. CASE CarryOut(r)
    <2>1. OrdersOf(r) = {} /\ r \notin wire'
        BY <1>0, <1>6 DEF CarryOut
    <2>2. OrdersOf(r)' \subseteq {Len(table')}
        BY <1>6, <2>1, Inserted DEF OrdersOf
    <2> QED BY <2>1, <2>2
<1>7. CASE Refuse(r)
    <2>1. OrdersOf(r)' = OrdersOf(r) /\ (r \in wire' => r \in wire)
        BY <1>7 DEF Refuse, OrdersOf
    <2> QED BY <1>1, <2>1
<1> QED BY <1>2, <1>4, <1>5, <1>6, <1>7 DEF Mine, Handler, Transport

(* A booking request makes one order at the most, and none on top of one   *)
(* that it has made, however late its call is carried out and whatever the *)
(* agent was answered meanwhile.                                           *)
THEOREM RequestsMakeOneOrder == Spec => []OneOrderPerRequest
<1>1. ASSUME Init PROVE OneOrderPerRequest
    <2>1. ASSUME NEW r \in Requests, NEW n \in DOMAIN table
          PROVE  table[n].req # r
        BY <1>1, NoneAssumption DEF Init, OtherOrder
    <2> QED BY <2>1 DEF OneOrderPerRequest, OrdersOf
<1>2. IInv /\ OneOrderPerRequest /\ [Next]_vars => OneOrderPerRequest'
    BY OneOrderStep DEF IInv
<1> QED BY <1>1, <1>2, IInvHolds, PTL DEF Spec

-----------------------------------------------------------------------------
(* The contract.  Beyond IInv: who is at work may book, an order was sent  *)
(* with small images by a call that has an answer or waits for one, a      *)
(* number comes with a confirmation, who is done has been answered, and a  *)
(* first end is refused for what a lookup says, FAIL for its coordinate.   *)
Admission(r) ==
    /\ AtWork(r) \/ Sent(r) => input[r].agent = Booker
    /\ Sent(r) => input[r].images = "small"
    /\ r \in wire \/ pc[r] = "create" => answer[r] # "none"
    /\ pc[r] = Done => reply[r] # "pending"
    /\ answer[r] # "ok" => number[r] = 0
    /\ pc[r] = "to" => /\ fromBranch[r].status \in Outcomes
                       /\ fromBranch[r].status = "FAIL"
                              => Unrecognised(input[r].from)

AdmitInv == \A r \in Requests : Admission(r)

LEMMA AdmitStep ==
    ASSUME IInv, AdmitInv, [Next]_vars
    PROVE  AdmitInv'
<1> SUFFICES ASSUME NEW r \in Requests PROVE Admission(r)'
    BY DEF AdmitInv
<1>0. Admission(r) /\ OrderOf(r) /\ input' = input
    BY InputStays DEF AdmitInv, IInv, OrderInv
<1> USE DEF IInv, TypeOK
<1>n. answer'[r] # "ok" => number'[r] = 0
    <2>1. CASE \/ UNCHANGED <<answer, number>>
               \/ answer'[r] = answer[r] /\ number'[r] = number[r]
        BY <1>0, <2>1 DEF Admission
    <2>2. CASE ~Mine(r)
        BY <2>1, <2>2, OthersStay
    <2>3. CASE Arrive(r) \/ ResolveFrom(r) \/ ResolveTo(r) \/ LookUp(r)
               \/ DatabaseFails(r)
        BY <2>1, <2>3 DEF Arrive, ResolveFrom, ResolveTo, LookUp, DatabaseFails
    <2>4. CASE Submit(r)
        <3>1. answer[r] = "none"
            BY <1>0, <2>4 DEF Submit, OrderOf, Sent, Done
        <3> QED BY <1>0, <2>4, <3>1 DEF Submit, Admission
    <2>5. CASE Transport(r)
        BY <1>0, <2>5 DEF Transport, CarryOut, Refuse, Break, Admission
    <2> QED BY <2>2, <2>3, <2>4, <2>5 DEF Mine, Handler
<1>1. CASE ~Mine(r)
    <2>1. /\ pc'[r] = pc[r] /\ reply'[r] = reply[r]
          /\ fromBranch'[r] = fromBranch[r]
          /\ answer'[r] = answer[r] /\ number'[r] = number[r]
          /\ r \in wire' <=> r \in wire
          /\ OrdersOf(r)' = OrdersOf(r)
        BY <1>1, OthersStay
    <2> QED BY <1>0, <1>n, <2>1 DEF Admission, AtWork, Sent, Unrecognised
<1>2. ASSUME pc[r] \notin {"create", Done},
             Arrive(r) \/ ResolveFrom(r) \/ ResolveTo(r) \/ DatabaseFails(r)
      PROVE  ~Sent(r) /\ ~Sent(r)' /\ r \notin wire'
    <2>1. ~Sent(r)
        BY <1>0, <1>2 DEF OrderOf
    <2>2. UNCHANGED <<table, wire, answer>>
        BY <1>2 DEF Arrive, ResolveFrom, ResolveTo, DatabaseFails
    <2> QED BY <2>1, <2>2 DEF Sent, OrdersOf
<1>3. CASE Arrive(r)
    <2>1. ~Sent(r)' /\ r \notin wire'
        BY <1>2, <1>3 DEF Arrive, Idle, Done
    <2>2. \/ pc'[r] = Done /\ reply'[r] # "pending"
          \/ pc'[r] = "from" /\ input[r].agent = Booker
        BY <1>3 DEF Arrive, Respond, GoTo
    <2> QED BY <1>0, <1>n, <2>1, <2>2 DEF Admission, AtWork, Done
<1>4. CASE ResolveFrom(r)
    <2> USE <1>4 DEF ResolveFrom, Respond, GoTo, Done
    <2>1. PICK found \in FindOneBranchCustom(input[r].from, active) :
              \/ pc'[r] = Done /\ reply'[r] = "exception"
              \/ /\ found.status # "throws"
                 /\ pc'[r] = "to" /\ fromBranch'[r] = found
        OBVIOUS
    <2>2. AtWork(r) /\ ~Sent(r)' /\ r \notin wire'
        BY <1>2 DEF AtWork, Idle
    <2>3. input[r].from \in End /\ Named(input[r].from) # None
        BY <2>2 DEF Input, EndsNamed, Mapped
    <2>4. found.status = "FAIL" => Unrecognised(input[r].from)
        BY <2>3, FailIsMalformed
    <2>5. pc'[r] = "to" => found.status \in Outcomes
        BY <2>1, LookupOutcomes
    <2> QED BY <1>0, <1>n, <2>1, <2>2, <2>4, <2>5 DEF Admission, Unrecognised
<1>5. CASE ResolveTo(r)
    <2> USE <1>5 DEF ResolveTo, Respond, GoTo, Done
    <2>1. AtWork(r) /\ ~Sent(r)' /\ r \notin wire'
        BY <1>2 DEF AtWork, Idle
    <2>2. \/ pc'[r] = "condition"
          \/ pc'[r] = Done /\ reply'[r] \in {"exception", fromBranch[r].status,
                                              toBranch'[r].status}
        OBVIOUS
    <2>3. toBranch' \in [Requests -> Resolution]
        BY TypeOKStep
    <2>4. "pending" \notin {fromBranch[r].status, toBranch'[r].status}
        BY <2>3, ResolutionIs DEF DefaultStatus
    <2> QED BY <1>0, <1>n, <2>1, <2>2, <2>4 DEF Admission
<1>6. CASE Submit(r)
    <2>1. AtWork(r) /\ ~Sent(r) /\ OrdersOf(r)' = OrdersOf(r)
        BY <1>0, <1>6 DEF AtWork, OrderOf, Submit, OrdersOf, Idle, Done
    <2>2. \/ /\ pc'[r] = Done /\ reply'[r] # "pending"
             /\ UNCHANGED <<wire, answer>>
          \/ /\ pc'[r] = "create" /\ answer'[r] = "waiting"
             /\ input[r].images = "small"
        BY <1>6 DEF Submit, Respond, GoTo, Input
    <2> QED BY <1>0, <1>n, <2>1, <2>2 DEF Admission, Sent, Done
<1>7. CASE LookUp(r) \/ (DatabaseFails(r) /\ pc[r] = "create")
    <2>1. /\ UNCHANGED <<table, wire, answer>>
          /\ pc[r] = "create" /\ pc'[r] = Done /\ reply'[r] # "pending"
        BY <1>7 DEF LookUp, DatabaseFails, Respond, GoTo
    <2>2. OrdersOf(r)' = OrdersOf(r)
        BY <2>1 DEF OrdersOf
    <2> QED BY <1>0, <1>n, <2>1, <2>2 DEF Admission, Sent, AtWork, Idle, Done
<1>8. CASE DatabaseFails(r) /\ pc[r] # "create"
    <2>1. ~Sent(r)' /\ r \notin wire'
        BY <1>2, <1>8 DEF DatabaseFails, Done
    <2>2. pc'[r] = Done /\ reply'[r] = "exception"
        BY <1>8 DEF DatabaseFails, Respond, GoTo
    <2> QED BY <1>0, <1>n, <2>1, <2>2 DEF Admission, AtWork, Done
<1>9. CASE Transport(r)
    <2>1. Sent(r) /\ answer[r] # "none" /\ answer'[r] # "none"
        BY <1>0, <1>9
        DEF Transport, CarryOut, Refuse, Break, Sent, Admission
    <2>2. UNCHANGED <<pc, reply, fromBranch>>
        BY <1>9 DEF Transport, CarryOut, Refuse, Break
    <2> QED BY <1>0, <1>n, <2>1, <2>2 DEF Admission, AtWork, Unrecognised
<1> QED BY <1>1, <1>3, <1>4, <1>5, <1>6, <1>7, <1>8, <1>9 DEF Mine, Handler

ContractInv == IInv /\ AdmitInv

(* The contract speaks of the same lookups, and its view of a request is   *)
(* that of its handler.                                                    *)
LEMMA ContractWords ==
    /\ \A end : /\ Contract!BranchesOf(end) = BranchesOf(end)
                /\ Contract!Named(end) = Named(end)
                /\ Contract!Unrecognised(end) <=> Unrecognised(end)
    /\ Contract!Booker = Booker
    /\ Contract!Reply = Reply
    /\ \A on : Contract!SeenNow(on) = SeenNow(on)
    /\ \A r : Contract!Ends(r) = Ends(r)
BY DEF Contract!BranchesOf, BranchesOf, Contract!Named, Named,
       Contract!Unrecognised, Unrecognised, Contract!Booker, Booker,
       Contract!Reply, Reply, Contract!DefaultStatus, DefaultStatus,
       Contract!SeenNow, SeenNow, Contract!Ends, Ends

LEMMA WaitsAtWork ==
    ASSUME ContractInv, NEW r \in Requests
    PROVE  Contract!Waits(r) <=> AtWork(r)
<1>1. Admission(r) /\ OrderOf(r)
    BY DEF ContractInv, IInv, AdmitInv, OrderInv
<1> QED BY <1>1 DEF Admission, OrderOf, AtWork, Contract!Waits, Asked, Idle,
                    Done

(* A handler that has found both branches knows the routes of its request. *)
LEMMA RoutesAre ==
    ASSUME ContractInv, NEW r \in Requests, BothFound(r)
    PROVE  Contract!Routes(r) = IF Joined(r)
                                THEN {<<fromBranch[r].data, toBranch[r].data>>}
                                ELSE {}
<1> DEFINE a == fromBranch[r].data
           b == toBranch[r].data
<1>1. /\ BranchesOf(input[r].from) = {a} /\ BranchesOf(input[r].to) = {b}
      /\ {a, b} \subseteq seen[r].on
    BY DEF ContractInv, IInv, FoundInv, Told, Tells, BothFound
<1>2. {a} \X {b} = {<<a, b>>}
    OBVIOUS
<1>3. Contract!Routes(r) = {route \in {<<a, b>>} \cap Conditions :
                               {route[1], route[2]} \subseteq seen[r].on}
    BY <1>1, <1>2, ContractWords DEF Contract!Routes
<1> HIDE DEF a, b
<1>4. <<a, b>>[1] = a /\ <<a, b>>[2] = b
    OBVIOUS
<1>5. Joined(r) <=> <<a, b>> \in Conditions
    BY DEF Joined, a, b
<1> QED BY <1>1, <1>3, <1>4, <1>5 DEF a, b

LEMMA SentIsBookable ==
    ASSUME ContractInv, NEW r \in Requests, Sent(r)
    PROVE  Contract!Bookable(r)
<1>1. Admission(r) /\ OrderOf(r)
    BY DEF ContractInv, IInv, AdmitInv, OrderInv
<1>2. BothFound(r) /\ Joined(r)
    BY <1>1 DEF OrderOf
<1> QED BY <1>1, <1>2, RoutesAre, ContractWords
        DEF Admission, Contract!Bookable

-----------------------------------------------------------------------------
(* A step of one request leaves what the contract sees of the others.      *)
OthersSame(r) ==
    \A q \in Requests \ {r} : /\ pc'[q] = pc[q]
                              /\ answer'[q] = answer[q]
                              /\ q \in wire' <=> q \in wire

LEMMA StepOfOne ==
    ASSUME TypeOK, NEW r \in Requests, Arrive(r) \/ Handler(r) \/ Transport(r)
    PROVE  OthersSame(r)
<1> USE DEF TypeOK, OthersSame, Respond, GoTo
<1>1. CASE Arrive(r) \/ ResolveFrom(r) \/ ResolveTo(r)
    BY <1>1 DEF Arrive, ResolveFrom, ResolveTo
<1>2. CASE Submit(r) \/ LookUp(r) \/ DatabaseFails(r)
    BY <1>2 DEF Submit, LookUp, DatabaseFails
<1>3. CASE Transport(r)
    BY <1>3 DEF Transport, CarryOut, Refuse, Break
<1> QED BY <1>1, <1>2, <1>3 DEF Handler

LEMMA ViewSame ==
    ASSUME NEW r \in Requests, OthersSame(r)
    PROVE  /\ (r \in Open' <=> r \in Open) => Open' = Open
           /\ r \notin Open' => Open' = Open \ {r}
           /\ (pc'[r] = Idle <=> pc[r] = Idle) => Asked' = Asked
           /\ pc'[r] # Idle => Asked' = Asked \cup {r}
           /\ (answer'[r] = "ok" <=> answer[r] = "ok") => Confirmed' = Confirmed
           /\ answer'[r] = "ok" => Confirmed' = Confirmed \cup {r}
BY DEF OthersSame, Open, Asked, Confirmed

(* An order not sent yet is open as long as its handler runs.              *)
LEMMA OpenIs ==
    ASSUME ContractInv, NEW r \in Requests
    PROVE  /\ pc[r] \notin {"create", Done} => r \in Open
           /\ pc[r] \notin {"create", Done} => answer[r] = "none" /\ ~Sent(r)
           /\ r \in wire => r \in Open /\ answer[r] # "none"
           /\ pc[r] = "create" => answer[r] # "none" /\ Sent(r)
<1>1. Admission(r) /\ OrderOf(r)
    BY DEF ContractInv, IInv, AdmitInv, OrderInv
<1> QED BY <1>1 DEF Admission, OrderOf, Sent, Open

LEMMA RefinesArrive ==
    ASSUME ContractInv, NEW r \in Requests, Arrive(r)
    PROVE  Contract!Ask(r) \/ Contract!AskInVain(r)
<1> USE DEF ContractInv, IInv
<1>1. /\ pc[r] = Idle /\ r \notin Asked
      /\ seen' = [seen EXCEPT ![r] = SeenNow(active)]
      /\ UNCHANGED <<active, table, input, wire, answer, replied>>
    BY DEF Arrive, Asked
<1>2. pc'[r] \in {"from", Done}
    BY DEF Arrive, Respond, GoTo, TypeOK
<1>3. Asked' = Asked \cup {r} /\ Confirmed' = Confirmed
    BY <1>1, <1>2, StepOfOne, ViewSame DEF Idle, Done
<1>4. Contract!ComesIn(r)
    BY <1>1, <1>3, ContractWords DEF Contract!ComesIn
<1>5. r \in Open /\ answer[r] = "none" /\ r \notin wire
    BY <1>1, OpenIs DEF Idle, Done, Open
<1>6. CASE pc'[r] = "from"
    <2>1. reply' = reply
        BY <1>6 DEF Arrive, Respond, GoTo, TypeOK, Done
    <2>2. r \in Open'
        BY <1>1, <1>5, <1>6 DEF Open, Done
    <2>3. Open' = Open
        BY <1>5, <2>2, StepOfOne, ViewSame
    <2> QED BY <1>4, <2>1, <2>3 DEF Contract!Ask
<1>7. CASE pc'[r] = Done
    <2>1. PICK why \in {"exception", "UNAUTHORIZED", "FAIL"} :
              /\ reply' = [reply EXCEPT ![r] = why]
              /\ why = "UNAUTHORIZED" => input[r].agent # Booker
              /\ why = "FAIL" => ~Mapped(input[r])
        BY <1>7 DEF Arrive, Respond, GoTo, TypeOK, Done
    <2>2. Contract!SaidOfIt(r, why)
        BY <2>1, ContractWords DEF Contract!SaidOfIt, Mapped, Ends
    <2>3. r \notin Open'
        BY <1>1, <1>5, <1>7 DEF Open
    <2>4. Contract!Close(r)
        BY <1>5, <2>3, StepOfOne, ViewSame DEF Contract!Close
    <2> QED BY <1>4, <2>1, <2>2, <2>4
            DEF Contract!AskInVain, Contract!Answer
<1> QED BY <1>2, <1>6, <1>7

(* A handler that runs on is not seen.                                     *)
LEMMA HandlerStutters ==
    ASSUME ContractInv, NEW r \in Requests, Handler(r), pc'[r] # Done
    PROVE  UNCHANGED Contract!vars
<1> USE DEF ContractInv, IInv, TypeOK
<1>1. /\ pc[r] \in {"from", "to", "condition"} /\ pc'[r] # Idle
      /\ UNCHANGED <<active, table, input, replied, reply, seen>>
      /\ \/ UNCHANGED <<wire, answer>>
         \/ r \in wire' /\ answer'[r] = "waiting"
    BY DEF Handler, ResolveFrom, ResolveTo, Submit, LookUp, DatabaseFails,
           Respond, GoTo, Idle
<1>2. r \in Open /\ answer[r] = "none"
    BY <1>1, OpenIs DEF Done
<1>3. r \in Open'
    BY <1>1, <1>2 DEF Open
<1>4. Open' = Open /\ Asked' = Asked /\ Confirmed' = Confirmed
    BY <1>1, <1>2, <1>3, StepOfOne, ViewSame DEF Idle
<1> QED BY <1>1, <1>4 DEF Contract!vars

(* The handler refuses a request whose order it has not sent.              *)
LEMMA RefusesWith ==
    ASSUME ContractInv, NEW r \in Requests, Handler(r), pc[r] # "create",
           NEW why \in Reply, Respond(r, why),
           Contract!SaidOfIt(r, why) \/ Contract!SaidOfEnds(r, why)
    PROVE  Contract!Refuse(r)
<1> USE DEF ContractInv, IInv, TypeOK
<1>1. /\ pc[r] \in {"from", "to", "condition"} /\ pc'[r] = Done
      /\ reply' = [reply EXCEPT ![r] = why]
      /\ UNCHANGED <<active, table, input, replied, seen>>
    BY DEF Handler, ResolveFrom, ResolveTo, Submit, LookUp, DatabaseFails,
           Respond, GoTo
<1>2. UNCHANGED <<wire, answer>>
    BY <1>1 DEF Handler, ResolveFrom, ResolveTo, Submit, LookUp,
                DatabaseFails, Respond, GoTo, Done
<1>3. Contract!Waits(r) /\ r \in Open /\ r \notin Open'
    BY <1>1, <1>2, WaitsAtWork, OpenIs DEF AtWork, Idle, Done, Open
<1>4. /\ Open' = Open \ {r} /\ Asked' = Asked /\ Confirmed' = Confirmed
    BY <1>1, <1>2, <1>3, StepOfOne, ViewSame DEF Idle, Done
<1> QED BY <1>1, <1>3, <1>4, ContractWords
        DEF Contract!Refuse, Contract!Answer, Contract!Close

(* What a lookup has told of an end may be said against its request.       *)
LEMMA TellsIsSaid ==
    ASSUME NEW r \in Requests, NEW end \in Ends(r), NEW found,
           Tells(end, found, seen[r].on, seen[r].off),
           found.status \in Outcomes \ {"SUCCESS"},
           found.status = "FAIL" => Unrecognised(end)
    PROVE  \/ Contract!SaidOfIt(r, found.status)
           \/ Contract!SaidOfEnds(r, found.status)
BY ContractWords
   DEF Tells, Outcomes, Contract!SaidOfIt, Contract!SaidOfEnds

LEMMA RefinesRefuse ==
    ASSUME ContractInv, NEW r \in Requests, Handler(r), pc[r] # "create",
           pc'[r] = Done
    PROVE  Contract!Refuse(r)
<1> USE DEF ContractInv, IInv, TypeOK
<1>0. /\ Admission(r) /\ Told(r)
      /\ pc[r] \in {"condition", "create"} => BothFound(r)
    BY DEF AdmitInv, FoundInv
<1>r. Outcomes \cup {"exception", "BRANCH_CONDITION_NOTFOUND",
                     "IMAGETOOLARGE"} \subseteq Reply
    BY DEF Outcomes, Reply, DefaultStatus
<1>1. CASE Respond(r, "exception")
    <2>1. Contract!SaidOfIt(r, "exception")
        BY DEF Contract!SaidOfIt
    <2> QED BY <1>1, <1>r, <2>1, RefusesWith
<1>2. CASE ResolveFrom(r)
    BY <1>1, <1>2 DEF ResolveFrom, GoTo, Done
<1>3. CASE ResolveTo(r)
    <2> USE <1>3 DEF ResolveTo
    <2>1. PICK found \in FindOneBranchCustom(input[r].to, active) :
              \/ Respond(r, "exception")
              \/ /\ found.status # "throws"
                 /\ ~(fromBranch[r].status = "SUCCESS"
                         /\ found.status = "SUCCESS")
                 /\ Respond(r, IF fromBranch[r].data = None
                               THEN fromBranch[r].status ELSE found.status)
        BY DEF GoTo, Done
    <2>2. CASE Respond(r, "exception")
        BY <1>1, <2>2
    <2>3. CASE /\ found.status # "throws"
               /\ fromBranch[r].data = None
               /\ Respond(r, fromBranch[r].status)
        <3>1. /\ fromBranch[r].status \in Outcomes \ {"SUCCESS"}
              /\ fromBranch[r].status = "FAIL" => Unrecognised(input[r].from)
            BY <1>0, <2>3 DEF Admission, Told, Tells
        <3> DEFINE why == fromBranch[r].status
        <3>2. Contract!SaidOfIt(r, why) \/ Contract!SaidOfEnds(r, why)
            BY <1>0, <3>1, TellsIsSaid DEF Told, Ends
        <3> QED BY <1>r, <2>3, <3>1, <3>2, RefusesWith DEF Handler
    <2>4. CASE /\ found.status \notin {"throws", "SUCCESS"}
               /\ Respond(r, found.status)
        <3>1. AtWork(r) /\ input[r].to \in Ends(r) /\ input[r].to \in End
            BY DEF AtWork, Ends, Input, Idle, Done
        <3>2. Named(input[r].to) # None
            BY <3>1 DEF EndsNamed, Mapped
        <3>3. /\ active \subseteq seen[r].on
              /\ Branches \ active \subseteq seen[r].off
            BY <3>1 DEF SeenInv
        <3>4. Tells(input[r].to, found, seen[r].on, seen[r].off)
            BY <2>4, <3>1, <3>3, Resolved, TellsMore
        <3>5. found.status \in Outcomes \ {"SUCCESS"}
            BY <2>4, LookupOutcomes
        <3>6. found.status = "FAIL" => Unrecognised(input[r].to)
            BY <3>1, <3>2, FailIsMalformed
        <3>7. \/ Contract!SaidOfIt(r, found.status)
              \/ Contract!SaidOfEnds(r, found.status)
            BY <3>1, <3>4, <3>5, <3>6, TellsIsSaid
        <3> QED BY <1>r, <2>4, <3>5, <3>7, RefusesWith DEF Handler
    <2>5. fromBranch[r].status = "SUCCESS" <=> fromBranch[r].data # None
        BY <1>0 DEF Told, Tells
    <2> QED BY <2>1, <2>2, <2>3, <2>4, <2>5
<1>4. CASE Submit(r)
    <2>1. \/ ~Joined(r) /\ Respond(r, "BRANCH_CONDITION_NOTFOUND")
          \/ Respond(r, "exception")
          \/ /\ Joined(r) /\ input[r].images = "large"
             /\ Respond(r, "IMAGETOOLARGE")
        BY <1>4 DEF Submit, GoTo, Done
    <2>2. BothFound(r)
        BY <1>0, <1>4 DEF Submit
    <2>3. CASE ~Joined(r) /\ Respond(r, "BRANCH_CONDITION_NOTFOUND")
        <3>1. Contract!Routes(r) = {}
            BY <2>2, <2>3, RoutesAre
        <3>2. \A end \in Ends(r) : BranchesOf(end) \subseteq seen[r].on
            BY <1>0, <2>2 DEF BothFound, Told, Tells, Ends
        <3>3. Contract!SaidOfEnds(r, "BRANCH_CONDITION_NOTFOUND")
            BY <3>1, <3>2, ContractWords DEF Contract!SaidOfEnds
        <3> QED BY <1>4, <1>r, <2>3, <3>3, RefusesWith DEF Handler, Submit
    <2>4. CASE /\ Joined(r) /\ input[r].images = "large"
               /\ Respond(r, "IMAGETOOLARGE")
        <3>1. Contract!Routes(r) # {}
            BY <2>2, <2>4, RoutesAre
        <3>2. Contract!SaidOfIt(r, "IMAGETOOLARGE")
            BY <2>4, <3>1 DEF Contract!SaidOfIt
        <3> QED BY <1>4, <1>r, <2>4, <3>2, RefusesWith DEF Handler, Submit
    <2> QED BY <1>1, <2>1, <2>3, <2>4
<1>5. CASE DatabaseFails(r)
    BY <1>1, <1>5 DEF DatabaseFails
<1>6. CASE LookUp(r)
    BY <1>6 DEF LookUp
<1> QED BY <1>2, <1>3, <1>4, <1>5, <1>6 DEF Handler

(* An order that was sent stays as it is when its request is answered.     *)
LEMMA AnswerOnly ==
    ASSUME ContractInv, NEW r \in Requests, NEW why \in Reply,
           pc[r] = "create", Respond(r, why), OthersSame(r),
           UNCHANGED <<wire, answer>>
    PROVE  /\ Contract!Waits(r) /\ Contract!Bookable(r)
           /\ Contract!Answer(r, why)
           /\ Open' = Open /\ Asked' = Asked /\ Confirmed' = Confirmed
<1> USE DEF ContractInv, IInv, TypeOK
<1>1. Contract!Waits(r) /\ Sent(r) /\ answer[r] # "none"
    BY WaitsAtWork, OpenIs DEF AtWork, Idle, Done
<1>2. pc'[r] = Done /\ Contract!Answer(r, why)
    BY DEF Respond, GoTo, Contract!Answer
<1>3. r \in Open' <=> r \in Open
    BY <1>1 DEF Open
<1> QED BY <1>1, <1>2, <1>3, SentIsBookable, ViewSame DEF Idle, Done

LEMMA RefinesLookUp ==
    ASSUME ContractInv, NEW r \in Requests, LookUp(r)
    PROVE  Contract!Succeed(r)
<1> USE DEF ContractInv, IInv, TypeOK
<1>1. PICK n \in LookupRows(r) : replied' = [replied EXCEPT ![r] = n]
    BY DEF LookUp
<1>2. n \in Contract!Rows(r)
    <2>1. OrderOf(r) /\ Admission(r)
        BY DEF OrderInv, AdmitInv
    <2>2. CASE answer[r] = "ok"
        <3>1. number[r] \in OrdersOf(r) /\ number[r] # 0
            BY <2>1, <2>2 DEF OrderOf, OrdersOf
        <3> QED BY <1>1, <2>2, <3>1
                DEF LookupRows, OrdersOf, Contract!Rows, Confirmed
    <2>3. CASE answer[r] # "ok"
        BY <1>1, <2>1, <2>3
        DEF Admission, LookupRows, Contract!Rows, Confirmed
    <2> QED BY <2>2, <2>3
<1>3. "SUCCESS" \in Reply
    BY DEF Reply, DefaultStatus
<1>4. /\ pc[r] = "create" /\ Respond(r, "SUCCESS")
      /\ UNCHANGED <<active, table, input, wire, answer, seen>>
    BY DEF LookUp
<1>5. OthersSame(r)
    BY StepOfOne DEF Handler
<1> QED BY <1>1, <1>2, <1>3, <1>4, <1>5, AnswerOnly DEF Contract!Succeed

LEMMA RefinesFail ==
    ASSUME ContractInv, NEW r \in Requests, DatabaseFails(r),
           pc[r] = "create"
    PROVE  Contract!Fail(r)
<1>1. "exception" \in Reply
    BY DEF Reply
<1>2. /\ Respond(r, "exception")
      /\ UNCHANGED <<active, table, input, wire, answer, replied, seen>>
    BY DEF DatabaseFails
<1>3. OthersSame(r)
    BY StepOfOne DEF Handler, ContractInv, IInv
<1> QED BY <1>1, <1>2, <1>3, AnswerOnly DEF Contract!Fail

LEMMA RefinesHandler ==
    ASSUME ContractInv, NEW r \in Requests, Handler(r)
    PROVE  \/ Contract!Refuse(r) \/ Contract!Succeed(r) \/ Contract!Fail(r)
           \/ UNCHANGED Contract!vars
<1>1. CASE pc'[r] # Done
    BY <1>1, HandlerStutters
<1>2. CASE pc'[r] = Done /\ pc[r] # "create"
    BY <1>2, RefinesRefuse
<1>3. CASE pc[r] = "create"
    <2>1. LookUp(r) \/ DatabaseFails(r)
        BY <1>3 DEF Handler, ResolveFrom, ResolveTo, Submit
    <2> QED BY <1>3, <2>1, RefinesLookUp, RefinesFail
<1> QED BY <1>1, <1>2, <1>3

(* What happens to the call of a request.                                  *)
LEMMA RefinesTransport ==
    ASSUME ContractInv, NEW r \in Requests, Transport(r)
    PROVE  Contract!Make(r) \/ Contract!Drop(r) \/ UNCHANGED Contract!vars
<1> USE DEF ContractInv, IInv, TypeOK
<1>1. OthersSame(r)
    BY StepOfOne
<1>2. UNCHANGED <<active, pc, input, reply, replied, seen>>
    BY DEF Transport, CarryOut, Refuse, Break
<1>3. Asked' = Asked
    BY <1>2 DEF Asked
<1>4. Admission(r) /\ OrderOf(r)
    BY DEF AdmitInv, OrderInv
<1>5. r \in wire \/ answer[r] = "waiting"
    BY DEF Transport, CarryOut, Refuse, Break
<1>6. Sent(r) /\ pc[r] # Idle /\ r \in Asked
    BY <1>4, <1>5 DEF Sent, OrderOf, Asked, Idle, Done
<1>7. CASE CarryOut(r) \/ Refuse(r)
    <2>1. r \in wire /\ r \notin wire'
        BY <1>7 DEF CarryOut, Refuse
    <2>2. answer[r] # "none" /\ answer'[r] # "none"
        BY <1>4, <1>7, <2>1 DEF Admission, CarryOut, Refuse
    <2>3. Contract!Close(r)
        BY <1>1, <2>1, <2>2, OpenIs, ViewSame DEF Contract!Close, Open
    <2>4. CASE Refuse(r)
        <3>1. answer'[r] = "ok" <=> answer[r] = "ok"
            BY <2>4 DEF Refuse
        <3>2. Confirmed' = Confirmed /\ UNCHANGED table
            BY <1>1, <2>4, <3>1, ViewSame DEF Refuse
        <3> QED BY <1>2, <1>3, <1>6, <2>3, <3>2 DEF Contract!Drop
    <2>5. CASE CarryOut(r)
        <3>1. BothFound(r) /\ Joined(r)
            BY <1>4, <1>6 DEF OrderOf
        <3> DEFINE pair == <<fromBranch[r].data, toBranch[r].data>>
        <3>r. pair \in Contract!Routes(r)
            BY <3>1, RoutesAre
        <3>2. PICK route \in Contract!Routes(r) :
                  route[1] = fromBranch[r].data /\ route[2] = toBranch[r].data
            BY <3>r
        <3>3. table' = Append(table, [ref |-> input[r].ref, req |-> r,
                                      from |-> route[1], to |-> route[2]])
            BY <2>5, <3>2 DEF CarryOut
        <3>4. \/ Confirmed' = Confirmed
              \/ Contract!Waits(r) /\ Confirmed' = Confirmed \cup {r}
            <4>1. CASE answer'[r] = "ok" <=> answer[r] = "ok"
                BY <1>1, <4>1, ViewSame
            <4>2. CASE answer'[r] = "ok" /\ answer[r] # "ok"
                <5>1. answer[r] = "waiting"
                    BY <2>5, <4>2 DEF CarryOut
                <5>2. AtWork(r)
                    BY <1>4, <5>1 DEF OrderOf, AtWork, Idle, Done
                <5> QED BY <1>1, <4>2, <5>2, WaitsAtWork, ViewSame
            <4>3. answer[r] = "ok" => answer'[r] = "ok"
                BY <2>5 DEF CarryOut
            <4> QED BY <4>1, <4>2, <4>3
        <3>5. Contract!Bookable(r)
            BY <1>6, SentIsBookable
        <3> QED BY <1>2, <1>3, <1>6, <2>3, <3>3, <3>4, <3>5
                DEF Contract!Make
    <2> QED BY <1>7, <2>4, <2>5
<1>8. CASE Break(r)
    <2>1. /\ answer[r] = "waiting" /\ answer'[r] = "lost"
          /\ UNCHANGED <<wire, table>>
        BY <1>8 DEF Break
    <2>2. r \in Open' <=> r \in Open
        BY <2>1 DEF Open
    <2>3. Open' = Open /\ Confirmed' = Confirmed
        BY <1>1, <2>1, <2>2, ViewSame
    <2> QED BY <1>2, <1>3, <2>1, <2>3 DEF Contract!vars
<1> QED BY <1>7, <1>8 DEF Transport

LEMMA RefinesSwitch ==
    ASSUME ContractInv, NEW b \in Branches, Switch(b)
    PROVE  Contract!Switch(b)
<1>1. UNCHANGED <<table, pc, input, wire, answer, reply, replied>>
    BY DEF Switch
<1>2. UNCHANGED <<Open, Asked, Confirmed>>
    BY <1>1 DEF Open, Asked, Confirmed
<1>3. \A r \in Requests : Contract!Waits(r) <=> pc[r] \notin {Idle, Done}
    BY WaitsAtWork DEF AtWork
<1>4. active' = IF b \in active THEN active \ {b} ELSE active \cup {b}
    BY DEF Switch
<1>5. seen' = [r \in Requests |->
          IF Contract!Waits(r)
          THEN [on |-> seen[r].on \cup active',
                off |-> seen[r].off \cup (Branches \ active')]
          ELSE seen[r]]
    BY <1>3 DEF Switch
<1> QED BY <1>1, <1>2, <1>4, <1>5 DEF Contract!Switch

LEMMA InitAdmitInv == Init => AdmitInv
<1> SUFFICES ASSUME Init, NEW r \in Requests PROVE Admission(r)
    BY DEF AdmitInv
<1>1. OrderOf(r)
    BY InitIInv DEF IInv, OrderInv
<1>2. /\ pc[r] = Idle /\ r \notin wire /\ answer[r] = "none"
      /\ number[r] = 0
    BY DEF Init
<1>3. ~Sent(r)
    BY <1>1, <1>2 DEF OrderOf, Idle, Done
<1> QED BY <1>2, <1>3 DEF Admission, AtWork, Idle, Done

LEMMA RefinesInit == Init => Contract!Init
<1> SUFFICES ASSUME Init PROVE Contract!Init
    OBVIOUS
<1>1. Open = Requests /\ Asked = {} /\ Confirmed = {}
    BY DEF Init, Open, Asked, Confirmed, Idle, Done
<1>2. /\ Contract!OtherOrder = OtherOrder
      /\ Contract!NothingSeen = NothingSeen
    BY DEF Contract!OtherOrder, OtherOrder, Contract!NothingSeen, NothingSeen
<1> QED BY <1>1, <1>2 DEF Init, Contract!Init

(* Every step of the service, of the old system and of its staff is a step *)
(* of the contract, or none.                                               *)
LEMMA RefinesStep ==
    ASSUME ContractInv, [Next]_vars
    PROVE  [Contract!Next]_(Contract!vars)
<1> USE DEF Contract!Next
<1>1. ASSUME NEW r \in Requests, Arrive(r) \/ Handler(r) \/ Transport(r)
      PROVE  Contract!Next \/ UNCHANGED Contract!vars
    BY <1>1, RefinesArrive, RefinesHandler, RefinesTransport
<1>2. ASSUME NEW b \in Branches, Switch(b) PROVE Contract!Next
    BY <1>2, RefinesSwitch
<1>3. CASE UNCHANGED vars
    BY <1>3 DEF vars, Contract!vars, Open, Asked, Confirmed
<1> QED BY <1>1, <1>2, <1>3 DEF Next

(* The service implements its contract: with all the lookups, awaits and   *)
(* messages between, what agents see of createBooking is that a request    *)
(* makes one order at the most, and none at all once it is refused.        *)
THEOREM ServiceKeepsCreateContract == Spec => CreateContractIsKept
<1>1. Init => ContractInv
    BY InitIInv, InitAdmitInv DEF ContractInv
<1>2. ContractInv /\ [Next]_vars => ContractInv'
    BY StepIInv, AdmitStep DEF ContractInv
<1>3. ContractInv /\ [Next]_vars => [Contract!Next]_(Contract!vars)
    BY RefinesStep
<1> QED BY <1>1, <1>2, <1>3, RefinesInit, PTL
        DEF Spec, CreateContractIsKept, Contract!Spec
=============================================================================
