-------------------------- MODULE MCBookingQueries --------------------------
(* Small instances of BookingQueries for TLC.                              *)
EXTENDS BookingQueries, TLC

CONSTANTS o1, o2, o3, a1, a2, x1, x2, x3, shared, missing, p1, p2

(* Three orders under one number of the agents' own, one of them another   *)
(* agent's.                                                                *)
MCNumberOf == o1 :> x1 @@ o2 :> x2 @@ o3 :> x3
MCRefOf == [o \in Orders |-> shared]
MCOwner == [o \in Orders |-> IF o = o3 THEN a2 ELSE a1]

Query(kind, order, number, page, size, credential, agent) ==
    [kind |-> kind, order |-> order, number |-> number, page |-> page,
     size |-> size, credential |-> credential, agent |-> agent]

Lists == {Query("ref", o1, shared, page, size, "right", a1) :
              page \in {1, 2}, size \in {0, 1, 2}}
ByNumber == {Query("number", o1, n, page, 1, "right", a) :
                 n \in {x1, x3}, page \in {1, 2}, a \in {a1, NoAgent}}
ById == {Query("id", o, x1, 1, 1, c, a1) : o \in {o1, o3}, c \in Credential}
Nothing == {Query("none", o1, x1, 1, 1, "right", a1)}
Missing == {Query(k, o1, missing, 1, 1, "right", a1) : k \in {"number", "ref"}}

AllQueries == Lists \cup ByNumber \cup ById \cup Nothing \cup Missing

(* An order starts without pictures, or with one that may be replaced; the *)
(* tables change while a query is handled, the pictures those of o1 and o2.*)
MCInit == Init /\ pictures[o1] \subseteq {p1} /\ pictures[o2] \subseteq {p1}
               /\ pictures[o3] = {p1}
Busy == \E r \in Requests : pc[r] \notin {Idle, Done}
MCNext == Next /\ (tables' # tables => Busy /\ pictures'[o3] = pictures[o3])
MCSpec == MCInit /\ [][MCNext]_vars /\ Fairness
=============================================================================
