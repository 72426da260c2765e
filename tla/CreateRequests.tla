--------------------------- MODULE CreateRequests ---------------------------
(***************************************************************************)
(* What is asked of createBooking: the requests and their contents, the    *)
(* conditions that join branches, and the rows of the order table.         *)
(* CreateBooking says how the service handles the requests, CreateContract *)
(* what it promises about them.                                            *)
(***************************************************************************)
EXTENDS BranchLookup, Sequences

CONSTANTS
    Conditions,    \* rows of branch_condition: pairs of branches
    AgentIds,      \* agent_id of the callers
    Refs,          \* the agents' own booking numbers
    Requests,      \* the HTTP requests
    Inputs,        \* their contents
    OtherOrders    \* how many orders the table holds at the start

(* images is "absent" when the optional field is missing, "small" when     *)
(* every image is below the limit, "large" when one is not.                *)
Input == [agent : AgentIds \cup {None}, ref : Refs, from : End, to : End,
          images : {"absent", "small", "large"}]

ASSUME InputsAssumption == Inputs \subseteq Input
ASSUME ConditionsAssumption == Conditions \subseteq Branches \X Branches
ASSUME NoneAssumption == None \notin AgentIds \cup Requests
ASSUME OtherOrdersAssumption == OtherOrders \in Nat

(* agent == null || agent.agent_id != 2324                                 *)
Booker == 2324

(* Rows of orders other agents made before.                                *)
OtherOrder == [ref |-> None, req |-> None, from |-> None, to |-> None]

(* What the branches of a request were seen to be while it was handled.    *)
History == [on : SUBSET Branches, off : SUBSET Branches]
NothingSeen == [on |-> {}, off |-> {}]
SeenNow(active) == [on |-> active, off |-> Branches \ active]
=============================================================================
