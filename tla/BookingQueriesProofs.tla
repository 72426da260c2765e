------------------------- MODULE BookingQueriesProofs -------------------------
(***************************************************************************)
(* Proofs, for every number of orders, pictures and requests, of the       *)
(* safety properties of BookingQueries that hold of every answer.          *)
(***************************************************************************)
EXTENDS BookingQueries, FiniteSetTheorems, TLAPS

LEMMA MatchingIn ==
    ASSUME NEW r \in Requests, NEW table \in SUBSET Orders
    PROVE  /\ Matching(r, table) \subseteq table
           /\ IsFiniteSet(Matching(r, table))
           /\ Cardinality(Matching(r, table)) \in Nat
<1>1. Matching(r, table) \subseteq table
    BY DEF Matching
<1>2. IsFiniteSet(Matching(r, table))
    BY <1>1, OrdersAssumption, FS_Subset
<1> QED BY <1>1, <1>2, FS_CardinalityType

(* More rows in the table, more that match.                                *)
LEMMA MatchingGrows ==
    ASSUME NEW r \in Requests, NEW t \in SUBSET Orders, NEW u \in SUBSET Orders,
           t \subseteq u
    PROVE  /\ Matching(r, t) \subseteq Matching(r, u)
           /\ Cardinality(Matching(r, t)) <= Cardinality(Matching(r, u))
<1>1. Matching(r, t) \subseteq Matching(r, u)
    BY DEF Matching
<1> QED BY <1>1, MatchingIn, FS_Subset

(* A page has rows that match; the first page has all of them, or its size.*)
LEMMA PageIs ==
    ASSUME NEW M, IsFiniteSet(M), NEW page \in Nat \ {0}, NEW size \in Nat,
           NEW S \in Pages(M, page, size)
    PROVE  /\ S \subseteq M
           /\ IsFiniteSet(S) /\ Cardinality(S) \in Nat
           /\ page = 1 => Cardinality(S) \in {Cardinality(M), size}
<1>1. S \subseteq M
    BY DEF Pages
<1>2. Cardinality(M) \in Nat
    BY FS_CardinalityType
<1>3. ASSUME page = 1 PROVE Cardinality(S) \in {Cardinality(M), size}
    <2>1. CASE size = 0
        BY <2>1 DEF Pages
    <2>2. CASE size # 0
        <3>1. (page - 1) * size = 0
            BY <1>3
        <3> QED BY <1>2, <2>2, <3>1 DEF Pages
    <2> QED BY <2>1, <2>2
<1> QED BY <1>1, <1>3, FS_Subset, FS_CardinalityType

-----------------------------------------------------------------------------
LEMMA InitTypeOK == Init => TypeOK
<1> SUFFICES ASSUME Init PROVE TypeOK
    OBVIOUS
<1>1. "pending" \in QueryReply /\ Idle \in PC /\ "none" \in Detail
    BY DEF QueryReply, PC, Detail
<1>2. input \in [Requests -> Input] /\ pictures \in [Orders -> SUBSET Pictures]
    BY InputsAssumption DEF Init
<1> QED BY <1>1, <1>2 DEF Init, TypeOK

(* Wherever a handler goes, and whatever it answers, is of its type.       *)
LEMMA Moves ==
    ASSUME TypeOK, NEW r \in Requests
    PROVE  /\ \A s \in QueryReply : Respond(r, s) =>
                  reply' \in [Requests -> QueryReply] /\ pc' \in [Requests -> PC]
           /\ \A s \in QueryReply : Send(r, s) =>
                  reply' \in [Requests -> QueryReply]
           /\ \A l \in PC : GoTo(r, l) => pc' \in [Requests -> PC]
<1>1. Done \in PC
    BY DEF PC
<1>2. /\ pc \in [Requests -> PC]
      /\ reply \in [Requests -> QueryReply]
    BY DEF TypeOK
<1>3. ASSUME NEW s \in QueryReply, Send(r, s)
      PROVE  reply' \in [Requests -> QueryReply]
    BY ONLY <1>2, <1>3 DEF Send
<1>4. ASSUME NEW l \in PC, GoTo(r, l) PROVE pc' \in [Requests -> PC]
    BY ONLY <1>2, <1>4 DEF GoTo
<1> QED BY <1>1, <1>3, <1>4 DEF Respond

(* The steps of the old system come down to two kinds.                     *)
LEMMA NextIs ==
    ASSUME TypeOK, [Next]_vars
    PROVE  \/ \E r \in Requests :
                 Arrive(r) \/ Handler(r) \/ (\E o \in Orders : ReadLuggage(r, o))
           \/ \E o \in Orders : Insert(o)
           \/ \E o \in Orders : \E now \in SUBSET Pictures : Illustrate(o, now)
           \/ UNCHANGED vars
<1>1. ASSUME NEW o \in Orders, NEW p \in Pictures, Store(o, p)
      PROVE  \E now \in SUBSET Pictures : Illustrate(o, now)
    BY <1>1 DEF Store, TypeOK
<1>2. ASSUME NEW o \in Orders, NEW p \in Pictures, NEW old \in Pictures,
             Replace(o, old, p)
      PROVE  \E now \in SUBSET Pictures : Illustrate(o, now)
    BY <1>2 DEF Replace, TypeOK
<1> QED BY <1>1, <1>2 DEF Next

LEMMA TypeOKStep ==
    ASSUME TypeOK, [Next]_vars
    PROVE  TypeOK'
<1> USE DEF TypeOK, tables
<1>p. {"guard", "secret", "count", "page", "order", "images", "details", "permission",
       Done} \subseteq PC
    BY DEF PC
<1>r. {"SUCCESS", "BAD_REQUEST", "UNAUTHORIZED", "FORBIDDEN", "NOT_FOUND",
       "exception"} \subseteq QueryReply
    BY DEF QueryReply
<1>d. {"none", "images", "asked"} \cup Told \subseteq Detail
    BY DEF Detail
<1> USE <1>p, <1>r, <1>d
<1>1. ASSUME NEW r \in Requests, Arrive(r) PROVE TypeOK'
    <2>1. pc' \in [Requests -> PC]
        BY <1>1, Moves DEF Arrive
    <2> QED BY <1>1, <2>1 DEF Arrive
<1>2. ASSUME NEW r \in Requests, Guard(r) PROVE TypeOK'
    <2>1. reply' \in [Requests -> QueryReply] /\ pc' \in [Requests -> PC]
        <3>1. CASE \E c \in {"UNAUTHORIZED", "FORBIDDEN"} : Respond(r, c)
            BY <3>1, Moves
        <3>2. CASE /\ GoTo(r, "secret")
                   /\ Send(r, "UNAUTHORIZED") \/ UNCHANGED reply
            BY <3>2, Moves
        <3> QED BY <1>2, <3>1, <3>2 DEF Guard
    <2>2. faulty' \subseteq Requests
        BY <1>2 DEF Guard
    <2> QED BY <1>2, <2>1, <2>2 DEF Guard
<1>14. ASSUME NEW r \in Requests, Compare(r) PROVE TypeOK'
    <2>1. reply' \in [Requests -> QueryReply] /\ pc' \in [Requests -> PC]
        <3>1. CASE \E c \in {"BAD_REQUEST", "FORBIDDEN"} : Respond(r, c)
            BY <3>1, Moves
        <3>2. CASE \E l \in {"order", "count"} : GoTo(r, l) /\ UNCHANGED reply
            BY <3>2, Moves
        <3> QED BY <1>14, <3>1, <3>2 DEF Compare
    <2>2. UNCHANGED <<tables, input, total, rows, urls, details, faulty, before>>
        BY <1>14 DEF Compare
    <2> QED BY <2>1, <2>2
<1>3. ASSUME NEW r \in Requests, Count(r) PROVE TypeOK'
    <2>1. Cardinality(Matching(r, present)) \in Nat
        BY MatchingIn
    <2>2. total' \in [Requests -> Nat]
        BY <1>3, <2>1 DEF Count
    <2>3. reply' \in [Requests -> QueryReply] /\ pc' \in [Requests -> PC]
        BY <1>3, Moves DEF Count
    <2>4. UNCHANGED <<tables, input, rows, urls, details, faulty, before>>
        BY <1>3 DEF Count
    <2> QED BY <2>2, <2>3, <2>4
<1>4. ASSUME NEW r \in Requests, ReadPage(r) PROVE TypeOK'
    <2>1. PICK S \in Pages(Matching(r, present), input[r].page, input[r].size) :
              /\ rows' = [rows EXCEPT ![r] = S]
              /\ IF total[r] = 0 THEN Respond(r, "exception")
                 ELSE /\ GoTo(r, IF S = {} THEN "permission"
                                 ELSE IF input[r].kind = "ref" THEN "images"
                                 ELSE "details")
                      /\ UNCHANGED reply
              /\ details' = [details EXCEPT ![r] =
                     [o \in Orders |-> IF o \in S THEN "images" ELSE "none"]]
        BY <1>4 DEF ReadPage
    <2>2. S \subseteq Orders
        <3>1. input[r].page \in Nat \ {0} /\ input[r].size \in Nat
            BY DEF Input
        <3>2. /\ Matching(r, present) \subseteq Orders
              /\ IsFiniteSet(Matching(r, present))
            BY MatchingIn
        <3>3. S \subseteq Matching(r, present)
            BY ONLY <2>1, <3>1, <3>2, PageIs
        <3> QED BY <3>2, <3>3
    <2>3. reply' \in [Requests -> QueryReply] /\ pc' \in [Requests -> PC]
        BY <2>1, Moves
    <2>4. details' \in [Requests -> [Orders -> Detail]]
        BY <2>1
    <2>5. rows' \in [Requests -> SUBSET Orders]
        BY <2>1, <2>2
    <2>6. UNCHANGED <<tables, input, total, urls, faulty, before>>
        BY <1>4 DEF ReadPage
    <2> QED BY <2>3, <2>4, <2>5, <2>6
<1>5. ASSUME NEW r \in Requests, ReadOrder(r) PROVE TypeOK'
    <2>1. Matching(r, present) \subseteq Orders
        BY MatchingIn
    <2>2. reply' \in [Requests -> QueryReply] /\ pc' \in [Requests -> PC]
        BY <1>5, Moves DEF ReadOrder
    <2> QED BY <1>5, <2>1, <2>2 DEF ReadOrder
<1>6. ASSUME NEW r \in Requests, ReadAllPictures(r) PROVE TypeOK'
    <2>1. PicturesOfAll(r) \subseteq Pictures
        BY DEF PicturesOfAll
    <2>2. pc' \in [Requests -> PC]
        BY <1>6, Moves DEF ReadAllPictures
    <2> QED BY <1>6, <2>1, <2>2 DEF ReadAllPictures
<1>7. ASSUME NEW r \in Requests, NEW o \in Orders, ReadPictures(r, o)
      PROVE  TypeOK'
    BY <1>7 DEF ReadPictures
<1>8. ASSUME NEW r \in Requests, NEW o \in Orders, ReadLuggage(r, o)
      PROVE  TypeOK'
    <2>1. PICK result \in Told :
              /\ details' = [details EXCEPT ![r][o] = result]
              /\ IF result = "lost" /\ ~Tolerant(r) THEN Respond(r, "exception")
                 ELSE UNCHANGED <<pc, reply>>
        BY <1>8 DEF ReadLuggage
    <2>2. details' \in [Requests -> [Orders -> Detail]]
        BY <2>1
    <2>3. reply' \in [Requests -> QueryReply] /\ pc' \in [Requests -> PC]
        BY <2>1, Moves
    <2> QED BY <1>8, <2>2, <2>3 DEF ReadLuggage
<1>9. ASSUME NEW r \in Requests, Assemble(r) \/ Permission(r) PROVE TypeOK'
    <2>1. UNCHANGED <<tables, input, total, rows, urls, details, faulty, before>>
        BY <1>9 DEF Assemble, Permission
    <2>2. reply' \in [Requests -> QueryReply] /\ pc' \in [Requests -> PC]
        BY <1>9, Moves DEF Assemble, Permission
    <2> QED BY <2>1, <2>2
<1>10. ASSUME NEW r \in Requests, DatabaseFails(r) PROVE TypeOK'
    <2>1. /\ Respond(r, "exception") /\ faulty' = faulty \cup {r}
          /\ UNCHANGED <<tables, input, total, rows, urls, details, before>>
        BY <1>10 DEF DatabaseFails
    <2>2. reply' \in [Requests -> QueryReply] /\ pc' \in [Requests -> PC]
        BY <2>1, Moves
    <2> QED BY <2>1, <2>2
<1>11. ASSUME NEW o \in Orders, Insert(o) PROVE TypeOK'
    BY <1>11 DEF Insert
<1>12. ASSUME NEW o \in Orders, NEW now \in SUBSET Pictures, Illustrate(o, now)
       PROVE TypeOK'
    <2> DEFINE Past == [present : SUBSET Orders,
                        kept : [Orders -> SUBSET Pictures],
                        had : [Orders -> SUBSET Pictures]]
    <2> DEFINE noted(q) == [before[q] EXCEPT !.kept[o] = @ \cap now,
                                            !.had[o] = @ \cup now]
    <2>9. ASSUME NEW q \in Requests PROVE noted(q) \in Past
        <3>1. before[q] \in Past
            OBVIOUS
        <3>2. /\ [before[q].kept EXCEPT ![o] = @ \cap now]
                    \in [Orders -> SUBSET Pictures]
              /\ [before[q].had EXCEPT ![o] = @ \cup now]
                    \in [Orders -> SUBSET Pictures]
            BY <3>1
        <3> QED BY ONLY <3>1, <3>2
    <2>1. before' \in [Requests -> Past]
        <3>1. before' = [q \in Requests |->
                  IF pc[q] \in {Idle, Done} THEN before[q] ELSE noted(q)]
            BY <1>12 DEF Illustrate
        <3>2. \A q \in Requests : before[q] \in Past
            OBVIOUS
        <3> HIDE DEF Past, noted
        <3> QED BY ONLY <2>9, <3>1, <3>2
    <2>2. pictures' \in [Orders -> SUBSET Pictures]
        BY <1>12 DEF Illustrate
    <2> QED BY <1>12, <2>1, <2>2 DEF Illustrate
<1>13. CASE UNCHANGED vars
    BY <1>13 DEF vars
<1> QED BY <1>1, <1>2, <1>3, <1>4, <1>5, <1>6, <1>7, <1>8, <1>9, <1>10, <1>11,
           <1>12, <1>13, <1>14, NextIs DEF Handler

-----------------------------------------------------------------------------
(* What concerns one request is changed by its own steps only, but for the *)
(* record of what becomes of the tables under it.                          *)
Mine(r) == Arrive(r) \/ Handler(r) \/ \E o \in Orders : ReadLuggage(r, o)

(* The orders there at the start stay in the record, pictures an order has *)
(* kept can only get fewer, those it has had only more.                    *)
Recorded(r) ==
    /\ before'[r].present = before[r].present
    /\ \A o \in Orders : /\ before'[r].kept[o] \subseteq before[r].kept[o]
                         /\ before[r].had[o] \subseteq before'[r].had[o]

LEMMA OthersStay ==
    ASSUME TypeOK, [Next]_vars, NEW r \in Requests, ~Mine(r)
    PROVE  /\ pc'[r] = pc[r] /\ reply'[r] = reply[r] /\ total'[r] = total[r]
           /\ rows'[r] = rows[r] /\ urls'[r] = urls[r]
           /\ details'[r] = details[r] /\ (r \in faulty' <=> r \in faulty)
           /\ Recorded(r)
           /\ pc[r] \in {Idle, Done} => before'[r] = before[r]
<1> DEFINE Untouched ==
        /\ pc'[r] = pc[r] /\ reply'[r] = reply[r] /\ total'[r] = total[r]
        /\ rows'[r] = rows[r] /\ urls'[r] = urls[r]
        /\ details'[r] = details[r] /\ (r \in faulty' <=> r \in faulty)
<1> USE DEF TypeOK, tables
<1>1. ASSUME NEW q \in Requests, q # r, Mine(q)
      PROVE  Untouched /\ before'[r] = before[r]
    <2> USE <1>1 DEF Respond, Send, GoTo
    <2>1. CASE Arrive(q)
        BY <2>1 DEF Arrive
    <2>2. CASE Guard(q)
        BY <2>2 DEF Guard
    <2>10. CASE Compare(q)
        BY <2>10 DEF Compare
    <2>3. CASE Count(q)
        BY <2>3 DEF Count
    <2>4. CASE ReadPage(q)
        BY <2>4 DEF ReadPage
    <2>5. CASE ReadOrder(q)
        BY <2>5 DEF ReadOrder
    <2>6. CASE ReadAllPictures(q)
        BY <2>6 DEF ReadAllPictures
    <2>7. CASE Assemble(q) \/ Permission(q) \/ DatabaseFails(q)
        BY <2>7 DEF Assemble, Permission, DatabaseFails
    <2>8. ASSUME NEW o \in Orders, ReadPictures(q, o)
          PROVE  Untouched /\ before'[r] = before[r]
        BY <2>8 DEF ReadPictures
    <2>9. ASSUME NEW o \in Orders, ReadLuggage(q, o)
          PROVE  Untouched /\ before'[r] = before[r]
        BY <2>9 DEF ReadLuggage
    <2> QED BY <1>1, <2>1, <2>2, <2>3, <2>4, <2>5, <2>6, <2>7, <2>8, <2>9, <2>10
            DEF Mine, Handler
<1>2. ASSUME NEW o \in Orders, Insert(o) PROVE Untouched /\ before'[r] = before[r]
    BY <1>2 DEF Insert
<1>3. ASSUME NEW o \in Orders, NEW now \in SUBSET Pictures, Illustrate(o, now)
      PROVE  /\ Untouched /\ Recorded(r)
             /\ pc[r] \in {Idle, Done} => before'[r] = before[r]
    <2>1. Untouched
        BY <1>3 DEF Illustrate
    <2>2. before'[r] = IF pc[r] \in {Idle, Done} THEN before[r]
                       ELSE [before[r] EXCEPT !.kept[o] = @ \cap now,
                                              !.had[o] = @ \cup now]
        BY <1>3 DEF Illustrate
    <2>3. Recorded(r)
        BY <2>2 DEF Recorded
    <2> QED BY <2>1, <2>2, <2>3
<1>4. CASE UNCHANGED vars
    BY <1>4 DEF vars, Recorded
<1> QED BY <1>1, <1>2, <1>3, <1>4, NextIs DEF Mine, Recorded

LEMMA TablesStay ==
    ASSUME NEW r \in Requests, Mine(r)
    PROVE  UNCHANGED <<present, pictures, input>>
BY DEF Mine, Handler, Arrive, Guard, Compare, Count, ReadPage, ReadOrder,
       ReadAllPictures, ReadPictures, ReadLuggage, Assemble, Permission,
       DatabaseFails, tables

LEMMA TablesGrow ==
    ASSUME TypeOK, [Next]_vars
    PROVE  input' = input /\ present \subseteq present'
<1>1. ASSUME NEW o \in Orders, Insert(o)
      PROVE  input' = input /\ present \subseteq present'
    BY <1>1 DEF Insert
<1>2. ASSUME NEW o \in Orders, NEW now \in SUBSET Pictures, Illustrate(o, now)
      PROVE  input' = input /\ present' = present
    BY <1>2 DEF Illustrate
<1>3. CASE UNCHANGED vars
    BY <1>3 DEF vars
<1> QED BY <1>1, <1>2, <1>3, TablesStay, NextIs DEF Mine

(* The pictures of an order lie between those it kept and those it had.    *)
Witnessed(r) ==
    \A o \in Orders : /\ before[r].kept[o] \subseteq pictures[o]
                      /\ pictures[o] \subseteq before[r].had[o]

LEMMA WitnessedStays ==
    ASSUME TypeOK, [Next]_vars, NEW r \in Requests, ~Mine(r),
           pc[r] \notin {Idle, Done}, Witnessed(r)
    PROVE  Witnessed(r)'
<1>1. ASSUME NEW q \in Requests, q # r, Mine(q) PROVE Witnessed(r)'
    <2>1. before'[r] = before[r]
        BY <1>1 DEF Mine, Handler, Arrive, Guard, Compare, Count, ReadPage,
                    ReadOrder, ReadAllPictures, ReadPictures, ReadLuggage,
                    Assemble, Permission, DatabaseFails, TypeOK
    <2> QED BY <1>1, <2>1, TablesStay DEF Witnessed
<1>2. ASSUME NEW o \in Orders, Insert(o) PROVE Witnessed(r)'
    BY <1>2 DEF Insert, Witnessed
<1>3. ASSUME NEW o \in Orders, NEW now \in SUBSET Pictures, Illustrate(o, now)
      PROVE  Witnessed(r)'
    <2>1. /\ before'[r] = [before[r] EXCEPT !.kept[o] = @ \cap now,
                                            !.had[o] = @ \cup now]
          /\ pictures' = [pictures EXCEPT ![o] = now]
        BY <1>3 DEF Illustrate, TypeOK
    <2> QED BY <2>1 DEF Witnessed, TypeOK
<1>4. CASE UNCHANGED vars
    BY <1>4 DEF vars, Witnessed
<1> QED BY <1>1, <1>2, <1>3, <1>4, NextIs DEF Mine

-----------------------------------------------------------------------------
(* Nobody is past the guard, or answered with bookings, but an account with*)
(* its secret; and each handler reads what its kind of query asks for.     *)
Access(r) ==
    /\ reply[r] # "pending" => pc[r] \in {"secret", Done}
    /\ pc[r] = "secret" /\ reply[r] # "pending" => reply[r] = "UNAUTHORIZED"
    /\ PastGuard(r) \/ reply[r] = "SUCCESS" => input[r].credential = "right"
    /\ reply[r] = "SUCCESS" => Permitted(r)
    /\ pc[r] \in {"count", "page"} => input[r].kind # "id"
    /\ pc[r] = "order" => input[r].kind = "id"
    /\ pc[r] = "images" => input[r].kind = "ref"
    /\ pc[r] \in {Idle, "guard", "secret", "count", "page", "order"} =>
           \A o \in Orders : details[r][o] = "none"
    /\ pc[r] = "secret" /\ LetIn(r) => reply[r] = "pending"

AccessInv == \A r \in Requests : Access(r)

LEMMA AccessStep ==
    ASSUME TypeOK, AccessInv, [Next]_vars
    PROVE  AccessInv'
<1> SUFFICES ASSUME NEW r \in Requests PROVE Access(r)'
    BY DEF AccessInv
<1>0. Access(r) /\ input' = input /\ (LetIn(r)' <=> LetIn(r))
    BY TablesGrow DEF AccessInv, LetIn, Compared
<1> USE DEF TypeOK, Respond, Send, GoTo, Idle, Done
<1>p. pc[r] \notin {"secret", Done} => reply[r] = "pending"
    BY <1>0 DEF Access
<1>1. CASE ~Mine(r)
    BY <1>0, <1>1, OthersStay DEF Access, PastGuard, Permitted
<1>2. CASE Arrive(r)
    <2>1. /\ pc[r] = Idle /\ UNCHANGED <<details, reply>> /\ pc'[r] = "guard"
        BY <1>2 DEF Arrive
    <2> QED BY <1>0, <1>p, <2>1 DEF Access, PastGuard
<1>3. CASE Guard(r)
    <2>1. /\ pc[r] = "guard" /\ details' = details
          /\ \/ pc'[r] = Done /\ reply'[r] \in {"UNAUTHORIZED", "FORBIDDEN"}
             \/ /\ pc'[r] = "secret"
                /\ \/ /\ input[r].credential = "unset"
                      /\ reply'[r] = "UNAUTHORIZED"
                   \/ reply'[r] = "pending"
        BY <1>3, <1>p DEF Guard
    <2>2. input[r].credential = "unset" => ~LetIn(r)
        BY DEF LetIn, Compared
    <2> QED BY <1>0, <2>1, <2>2 DEF Access, PastGuard
<1>11. CASE Compare(r)
    <2>1. /\ pc[r] = "secret" /\ details' = details
          /\ \/ pc'[r] = Done /\ reply'[r] \in {"BAD_REQUEST", "UNAUTHORIZED",
                                                 "FORBIDDEN"}
             \/ /\ reply' = reply /\ LetIn(r)
                /\ \/ pc'[r] = "order" /\ input[r].kind = "id"
                   \/ pc'[r] = "count" /\ input[r].kind # "id"
        <3>1. reply[r] \in {"pending", "UNAUTHORIZED"}
            BY <1>0, <1>11 DEF Access, Compare
        <3>2. CASE LetIn(r) /\ input[r].kind = "none"
            BY <1>11, <3>1, <3>2 DEF Compare
        <3>3. CASE LetIn(r) /\ input[r].kind # "none"
            BY <1>11, <3>3 DEF Compare
        <3>4. CASE ~LetIn(r)
            BY <1>11, <3>1, <3>4 DEF Compare
        <3> QED BY <3>2, <3>3, <3>4
    <2>2. LetIn(r) => input[r].credential = "right"
        BY DEF LetIn, Compared
    <2> QED BY <1>0, <2>1, <2>2 DEF Access, PastGuard
<1>4. CASE Count(r)
    <2>1. /\ pc[r] = "count" /\ details' = details
          /\ \/ pc'[r] = Done /\ reply'[r] = "exception"
             \/ pc'[r] = "page" /\ reply' = reply
        BY <1>4, <1>p DEF Count
    <2> QED BY <1>0, <2>1 DEF Access, PastGuard
<1>5. CASE ReadPage(r)
    <2>1. /\ pc[r] = "page"
          /\ \/ pc'[r] = Done /\ reply'[r] = "exception"
             \/ /\ pc'[r] \in {"permission", "images", "details"}
                /\ pc'[r] = "images" => input[r].kind = "ref"
                /\ reply' = reply
        BY <1>5, <1>p DEF ReadPage
    <2> QED BY <1>0, <2>1 DEF Access, PastGuard
<1>6. CASE ReadOrder(r)
    <2>1. /\ pc[r] = "order"
          /\ \/ pc'[r] = Done /\ reply'[r] = "NOT_FOUND"
             \/ pc'[r] = "details" /\ reply' = reply
        BY <1>6, <1>p DEF ReadOrder
    <2> QED BY <1>0, <2>1 DEF Access, PastGuard
<1>7. CASE ReadAllPictures(r) \/ Assemble(r)
    <2>1. /\ pc[r] \in {"images", "details"} /\ reply' = reply
          /\ pc'[r] \in {"details", "permission"}
        BY <1>7 DEF ReadAllPictures, Assemble
    <2> QED BY <1>0, <2>1 DEF Access, PastGuard
<1>8. CASE \E o \in Orders : ReadPictures(r, o) \/ ReadLuggage(r, o)
    <2>1. /\ pc[r] = "details"
          /\ \/ UNCHANGED <<pc, reply>>
             \/ pc'[r] = Done /\ reply'[r] = "exception"
        BY <1>8, <1>p DEF ReadPictures, ReadLuggage
    <2> QED BY <1>0, <2>1 DEF Access, PastGuard
<1>9. CASE Permission(r)
    <2>1. /\ pc[r] = "permission" /\ pc'[r] = Done /\ rows' = rows
          /\ reply'[r] = IF Permitted(r) THEN "SUCCESS" ELSE "FORBIDDEN"
        BY <1>9, <1>p DEF Permission
    <2> QED BY <1>0, <2>1 DEF Access, PastGuard, Permitted
<1>10. CASE DatabaseFails(r)
    <2>1. pc'[r] = Done /\ reply'[r] = "exception"
        BY <1>10, <1>p DEF DatabaseFails
    <2> QED BY <2>1 DEF Access, PastGuard
<1> QED BY <1>1, <1>2, <1>3, <1>4, <1>5, <1>6, <1>7, <1>8, <1>9, <1>10, <1>11
        DEF Mine, Handler

-----------------------------------------------------------------------------
(* A list whose luggage could not be told is answered already, and nothing *)
(* else but a database fails a query; what is put together is complete.    *)
Luggage(r) ==
    /\ \A o \in Orders : details[r][o] # "none" => o \in rows[r]
    /\ input[r].kind # "id" /\ reply[r] \in {"pending", "SUCCESS"} =>
           \A o \in Orders : details[r][o] # "lost"
    /\ pc[r] = "permission" \/ reply[r] = "SUCCESS" =>
           \A o \in rows[r] : details[r][o] \in Told
    /\ reply[r] = "exception" /\ r \notin faulty =>
           /\ input[r].kind # "id"
           /\ total[r] = 0 \/ \E o \in rows[r] : details[r][o] = "lost"

(* The pictures attached to a row are at least those it kept, and each is  *)
(* one it had, or in a list by the agent's number another of the page had. *)
Sources(r, o) == IF input[r].kind = "ref" THEN rows[r] ELSE {o}

Shown(r, o) ==
    /\ before[r].kept[o] \subseteq urls[r][o]
    /\ \A p \in urls[r][o] : \E q \in Sources(r, o) : p \in before[r].had[q]

Illustrated(r) ==
    /\ pc[r] \notin {Idle, Done} => Witnessed(r)
    /\ \A o \in Orders : details[r][o] \in {"asked"} \cup Told => Shown(r, o)

DetailsInv == \A r \in Requests : Luggage(r) /\ Illustrated(r)

(* A step of r that leaves its pictures and what is known of them.         *)
LEMMA IllustratedStays ==
    ASSUME TypeOK, NEW r \in Requests, Mine(r), Illustrated(r),
           pc[r] \notin {Idle, Done}, before' = before,
           urls'[r] = urls[r], rows'[r] = rows[r],
           \A o \in Orders : details'[r][o] \in {"asked"} \cup Told =>
               details[r][o] \in {"asked"} \cup Told
    PROVE  Illustrated(r)'
<1>1. UNCHANGED <<pictures, input>>
    BY TablesStay
<1>2. \A o \in Orders : Shown(r, o) => Shown(r, o)'
    BY <1>1 DEF Shown, Sources
<1>3. Witnessed(r)'
    BY <1>1 DEF Illustrated, Witnessed
<1> QED BY <1>2, <1>3 DEF Illustrated

LEMMA IllustratedStep ==
    ASSUME TypeOK, AccessInv, DetailsInv, [Next]_vars, NEW r \in Requests
    PROVE  Illustrated(r)'
<1>0. /\ Access(r) /\ Illustrated(r) /\ Luggage(r) /\ input' = input
      /\ rows[r] \subseteq Orders
    BY TablesGrow DEF AccessInv, DetailsInv, TypeOK
<1> USE DEF TypeOK, Idle, Done, tables
<1>1. CASE ~Mine(r)
    <2>1. /\ pc'[r] = pc[r] /\ rows'[r] = rows[r] /\ Recorded(r)
          /\ urls'[r] = urls[r] /\ details'[r] = details[r]
        BY <1>1, OthersStay
    <2>2. pc'[r] \notin {Idle, Done} => Witnessed(r)'
        BY <1>0, <1>1, <2>1, WitnessedStays DEF Illustrated
    <2>3. ASSUME NEW o \in Orders, Shown(r, o) PROVE Shown(r, o)'
        <3>1. Sources(r, o)' = Sources(r, o) /\ Sources(r, o) \subseteq Orders
            BY <1>0, <2>1 DEF Sources
        <3> QED BY <2>1, <2>3, <3>1 DEF Shown, Recorded
    <2> QED BY <1>0, <2>1, <2>2, <2>3 DEF Illustrated
<1>2. CASE Arrive(r)
    <2>1. /\ \A o \in Orders : details[r][o] = "none"
          /\ details' = details /\ pictures' = pictures
          /\ before'[r].kept = pictures /\ before'[r].had = pictures
        BY <1>0, <1>2 DEF Arrive, Access
    <2> QED BY <2>1 DEF Illustrated, Witnessed, Told
<1>3. CASE Guard(r) \/ Compare(r) \/ Count(r)
    <2>1. /\ UNCHANGED <<before, urls, rows, details>>
          /\ pc[r] \notin {Idle, Done}
        BY <1>3 DEF Guard, Compare, Count
    <2> QED BY <1>0, <1>3, <2>1, IllustratedStays DEF Mine, Handler
<1>4. CASE ReadPage(r) \/ ReadOrder(r)
    <2>1. /\ before' = before /\ pictures' = pictures
          /\ pc[r] \in {"page", "order"}
          /\ \A o \in Orders : details'[r][o] \in {"images", "none"}
        BY <1>4 DEF ReadPage, ReadOrder
    <2> QED BY <1>0, <2>1 DEF Illustrated, Witnessed, Told
<1>5. CASE ReadAllPictures(r)
    <2>1. /\ input[r].kind = "ref" /\ pc[r] = "images"
          /\ before' = before /\ pictures' = pictures /\ rows' = rows
          /\ \A o \in Orders : details'[r][o] # "none" =>
                 o \in rows[r] /\ urls'[r][o] = PicturesOfAll(r)
        BY <1>0, <1>5 DEF ReadAllPictures, Access
    <2>2. /\ \A o \in rows[r] : pictures[o] \subseteq PicturesOfAll(r)
          /\ \A p \in PicturesOfAll(r) : \E q \in rows[r] : p \in pictures[q]
        BY DEF PicturesOfAll
    <2>3. Witnessed(r)
        BY <1>0, <2>1 DEF Illustrated
    <2>4. ASSUME NEW o \in Orders, details'[r][o] \in {"asked"} \cup Told
          PROVE  Shown(r, o)'
        <3>1. o \in rows[r] /\ urls'[r][o] = PicturesOfAll(r)
            BY <2>1, <2>4 DEF Told
        <3>2. Sources(r, o)' = rows[r]
            BY <1>0, <2>1 DEF Sources
        <3>3. \A p \in PicturesOfAll(r) :
                  \E q \in rows[r] : p \in before[r].had[q]
            BY <1>0, <2>2, <2>3 DEF Witnessed
        <3> QED BY <1>0, <2>1, <2>2, <2>3, <3>1, <3>2, <3>3 DEF Shown, Witnessed
    <2> QED BY <2>1, <2>3, <2>4 DEF Illustrated, Witnessed
<1>6. ASSUME NEW q \in Orders, ReadPictures(r, q) PROVE Illustrated(r)'
    <2>1. /\ pc[r] = "details" /\ UNCHANGED <<before, pictures, rows>>
          /\ urls'[r][q] = pictures[q] /\ details[r][q] = "images"
          /\ \A o \in Orders \ {q} : /\ details'[r][o] = details[r][o]
                                     /\ urls'[r][o] = urls[r][o]
        BY <1>6 DEF ReadPictures
    <2>2. Witnessed(r)
        BY <1>0, <2>1 DEF Illustrated
    <2>3. q \in rows[r]
        BY <1>0, <2>1 DEF Luggage
    <2>4. q \in Sources(r, q)'
        BY <1>0, <2>1, <2>3 DEF Sources
    <2>5. Shown(r, q)'
        BY <2>1, <2>2, <2>4 DEF Shown, Witnessed
    <2>6. ASSUME NEW o \in Orders \ {q}, Shown(r, o) PROVE Shown(r, o)'
        BY <1>0, <2>1, <2>6 DEF Shown, Sources
    <2> QED BY <1>0, <2>1, <2>2, <2>5, <2>6 DEF Illustrated, Witnessed
<1>7. ASSUME NEW q \in Orders, ReadLuggage(r, q) PROVE Illustrated(r)'
    <2>1. /\ UNCHANGED <<before, urls, rows>> /\ pc[r] = "details"
          /\ details[r][q] = "asked"
          /\ \A o \in Orders \ {q} : details'[r][o] = details[r][o]
        BY <1>7 DEF ReadLuggage
    <2> QED BY <1>0, <1>7, <2>1, IllustratedStays DEF Mine
<1>8. CASE Assemble(r) \/ Permission(r) \/ DatabaseFails(r)
    <2>1. /\ UNCHANGED <<before, urls, rows, details>>
          /\ pc[r] \notin {Idle, Done}
        BY <1>8 DEF Assemble, Permission, DatabaseFails
    <2> QED BY <1>0, <1>8, <2>1, IllustratedStays DEF Mine, Handler
<1> QED BY <1>1, <1>2, <1>3, <1>4, <1>5, <1>6, <1>7, <1>8 DEF Mine, Handler

LEMMA LuggageStep ==
    ASSUME TypeOK, AccessInv, DetailsInv, [Next]_vars, NEW r \in Requests
    PROVE  Luggage(r)'
<1>0. /\ Access(r) /\ Luggage(r) /\ input' = input
    BY TablesGrow DEF AccessInv, DetailsInv
<1> USE DEF TypeOK, Respond, Send, GoTo, Idle, Done, tables
<1>p. pc[r] \notin {"secret", Done} => reply[r] = "pending"
    BY <1>0 DEF Access
<1>1. CASE ~Mine(r)
    BY <1>0, <1>1, OthersStay DEF Luggage
<1>2. CASE Arrive(r) \/ Guard(r) \/ Compare(r)
    <2>1. /\ UNCHANGED <<rows, details, total>>
          /\ pc'[r] # "permission"
          /\ pc[r] \in {Idle, "guard", "secret"}
        BY <1>2 DEF Arrive, Guard, Compare
    <2>2. reply[r] \in {"pending", "UNAUTHORIZED"}
        BY <1>0, <1>p, <2>1 DEF Access
    <2>3. reply'[r] \notin {"SUCCESS", "exception"}
        BY <1>2, <2>2 DEF Arrive, Guard, Compare
    <2>4. \A o \in Orders : details[r][o] = "none"
        BY <1>0, <2>1 DEF Access
    <2> QED BY <1>0, <2>1, <2>3, <2>4 DEF Luggage
<1>3. CASE Count(r)
    <2>1. /\ UNCHANGED <<rows, details, faulty>> /\ pc[r] = "count"
          /\ \/ /\ input[r].kind = "ref" /\ total'[r] = 0
                /\ reply'[r] = "exception" /\ pc'[r] = Done
             \/ reply'[r] = "pending" /\ pc'[r] = "page"
        <3>1. CASE input[r].kind = "ref" /\ total'[r] = 0
            BY <1>3, <1>p, <3>1 DEF Count
        <3>2. CASE ~(input[r].kind = "ref" /\ total'[r] = 0)
            BY <1>3, <1>p, <3>2 DEF Count
        <3> QED BY <3>1, <3>2
    <2>2. \A o \in Orders : details[r][o] = "none"
        BY <1>0, <2>1 DEF Access
    <2> QED BY <1>0, <2>1, <2>2 DEF Luggage
<1>4. CASE ReadPage(r)
    <2>1. PICK S \in Pages(Matching(r, present), input[r].page, input[r].size) :
              /\ rows' = [rows EXCEPT ![r] = S]
              /\ IF total[r] = 0 THEN Respond(r, "exception")
                 ELSE /\ GoTo(r, IF S = {} THEN "permission"
                                 ELSE IF input[r].kind = "ref" THEN "images"
                                 ELSE "details")
                      /\ UNCHANGED reply
              /\ details' = [details EXCEPT ![r] =
                     [o \in Orders |-> IF o \in S THEN "images" ELSE "none"]]
        BY <1>4 DEF ReadPage
    <2>2. /\ rows'[r] = S /\ pc[r] = "page" /\ total' = total
          /\ \A o \in Orders : /\ details'[r][o] \in {"images", "none"}
                               /\ details'[r][o] = "images" => o \in S
        BY <1>4, <2>1 DEF ReadPage
    <2>3. \/ reply'[r] = "exception" /\ pc'[r] = Done /\ total[r] = 0
          \/ reply'[r] = "pending" /\ (pc'[r] = "permission" => S = {})
        BY <1>p, <2>1, <2>2
    <2>4. input[r].kind # "id"
        BY <1>0, <2>2 DEF Access
    <2> QED BY <1>0, <2>2, <2>3, <2>4 DEF Luggage
<1>5. CASE ReadOrder(r)
    <2>1. /\ rows'[r] = Matching(r, present)
          /\ \A o \in Orders : /\ details'[r][o] \in {"images", "none"}
                               /\ details'[r][o] = "images" => o \in rows'[r]
          /\ pc'[r] # "permission" /\ reply'[r] \in {"pending", "NOT_FOUND"}
        BY <1>5, <1>p DEF ReadOrder
    <2> QED BY <1>0, <2>1 DEF Luggage
<1>6. CASE ReadAllPictures(r)
    <2>1. /\ reply[r] = "pending" /\ reply' = reply /\ rows' = rows
          /\ pc'[r] = "details"
          /\ \A o \in Orders : /\ details'[r][o] \in {"asked", "none"}
                               /\ details'[r][o] = "asked" => o \in rows[r]
        BY <1>6, <1>p DEF ReadAllPictures
    <2> QED BY <1>0, <2>1 DEF Luggage
<1>7. ASSUME NEW q \in Orders, ReadPictures(r, q) PROVE Luggage(r)'
    <2>1. /\ reply[r] = "pending" /\ UNCHANGED <<pc, reply, rows>>
          /\ pc[r] = "details"
          /\ details'[r][q] = "asked" /\ details[r][q] = "images"
          /\ \A o \in Orders \ {q} : details'[r][o] = details[r][o]
        BY <1>7, <1>p DEF ReadPictures
    <2> QED BY <1>0, <2>1 DEF Luggage
<1>8. ASSUME NEW q \in Orders, ReadLuggage(r, q) PROVE Luggage(r)'
    <2>1. /\ pc[r] = "details" /\ details[r][q] = "asked" /\ rows' = rows
          /\ reply[r] = "pending"
          /\ \A o \in Orders \ {q} : details'[r][o] = details[r][o]
          /\ \/ details'[r][q] \in Told \ {"lost"} /\ UNCHANGED <<pc, reply>>
             \/ /\ details'[r][q] = "lost"
                /\ \/ input[r].kind = "id" /\ UNCHANGED <<pc, reply>>
                   \/ /\ input[r].kind # "id" /\ pc'[r] = Done
                      /\ reply'[r] = "exception"
        BY <1>8, <1>p DEF ReadLuggage, Tolerant
    <2>2. q \in rows[r]
        BY <1>0, <2>1 DEF Luggage
    <2> QED BY <1>0, <2>1, <2>2 DEF Luggage
<1>9. CASE Assemble(r)
    <2>1. /\ UNCHANGED <<details, rows, reply>>
          /\ pc[r] = "details" /\ AllRead(r)
        BY <1>9 DEF Assemble
    <2> QED BY <1>0, <1>p, <2>1 DEF Luggage, AllRead
<1>10. CASE Permission(r)
    <2>1. /\ UNCHANGED <<details, rows>> /\ pc[r] = "permission"
          /\ pc'[r] = Done /\ reply'[r] \in {"SUCCESS", "FORBIDDEN"}
        BY <1>10, <1>p DEF Permission
    <2> QED BY <1>0, <1>p, <2>1 DEF Luggage
<1>11. CASE DatabaseFails(r)
    <2>1. /\ UNCHANGED <<details, rows>> /\ r \in faulty'
          /\ pc'[r] = Done /\ reply'[r] = "exception"
        BY <1>11, <1>p DEF DatabaseFails
    <2> QED BY <1>0, <2>1 DEF Luggage
<1> QED BY <1>1, <1>2, <1>3, <1>4, <1>5, <1>6, <1>7, <1>8, <1>9, <1>10, <1>11
        DEF Mine, Handler

LEMMA DetailsStep ==
    ASSUME TypeOK, AccessInv, DetailsInv, [Next]_vars
    PROVE  DetailsInv'
BY LuggageStep, IllustratedStep DEF DetailsInv

-----------------------------------------------------------------------------
(* The total was counted, and the page read, after the request came.       *)
First(r) == Cardinality(Matching(r, before[r].present))
Last(r) == Cardinality(Matching(r, present))

Counted(r) ==
    /\ before[r].present \subseteq present
    /\ input[r].kind # "id" =>
           /\ pc[r] \in {"page", "images", "details", "permission"}
                 \/ reply[r] = "SUCCESS" => total[r] \in First(r) .. Last(r)
           /\ pc[r] \in {"images", "details", "permission"}
                 \/ reply[r] = "SUCCESS" =>
                     /\ rows[r] \subseteq Matching(r, present)
                     /\ input[r].page = 1 /\ Cardinality(rows[r]) < First(r)
                            => Cardinality(rows[r]) = input[r].size

CountedInv == \A r \in Requests : Counted(r)

(* What was counted stays true of a table that has grown since.            *)
LEMMA CountedStays ==
    ASSUME TypeOK, [Next]_vars, NEW r \in Requests, Counted(r),
           before'[r].present = before[r].present,
           total'[r] = total[r], rows'[r] = rows[r],
           pc'[r] = "page" => pc[r] = "page",
           pc'[r] \in {"images", "details", "permission"} =>
               pc[r] \in {"images", "details", "permission"},
           reply'[r] = "SUCCESS" => pc[r] = "permission" \/ reply[r] = "SUCCESS"
    PROVE  Counted(r)'
<1>1. /\ input' = input /\ present \subseteq present'
      /\ present \in SUBSET Orders /\ present' \in SUBSET Orders
    BY TablesGrow, TypeOKStep DEF TypeOK
<1>2. /\ Matching(r, present)' = Matching(r, present')
      /\ Matching(r, before[r].present)' = Matching(r, before[r].present)
    BY <1>1 DEF Matching
<1>3. /\ Matching(r, present) \subseteq Matching(r, present')
      /\ Last(r) <= Cardinality(Matching(r, present'))
      /\ Last(r) \in Nat /\ Cardinality(Matching(r, present')) \in Nat
    BY <1>1, MatchingGrows, MatchingIn DEF Last
<1>4. First(r)' = First(r) /\ Last(r)' = Cardinality(Matching(r, present'))
    BY <1>2 DEF First, Last
<1>5. before[r].present \in SUBSET Orders /\ First(r) \in Nat
    BY MatchingIn DEF First, TypeOK
<1>6. total[r] \in First(r) .. Last(r) => total[r] \in First(r)' .. Last(r)'
    BY <1>3, <1>4, <1>5
<1> QED BY <1>1, <1>2, <1>3, <1>4, <1>6 DEF Counted

LEMMA CountedStep ==
    ASSUME TypeOK, AccessInv, CountedInv, [Next]_vars
    PROVE  CountedInv'
<1> SUFFICES ASSUME NEW r \in Requests PROVE Counted(r)'
    BY DEF CountedInv
<1>0. Access(r) /\ Counted(r) /\ Access(r)'
    BY AccessStep DEF AccessInv, CountedInv
<1>i. /\ input' = input /\ before[r].present \in SUBSET Orders
      /\ present \in SUBSET Orders
    BY TablesGrow DEF TypeOK
<1>p. pc[r] \notin {"secret", Done} => reply[r] = "pending"
    BY <1>0 DEF Access
<1>1. CASE ~Mine(r)
    BY <1>0, <1>1, OthersStay, CountedStays DEF Recorded
<1>2. CASE Arrive(r)
    <2>1. /\ present' = present /\ before'[r].present = present
          /\ pc'[r] = "guard" /\ reply' = reply /\ pc[r] = Idle
        BY <1>2 DEF Arrive, GoTo, TypeOK, tables
    <2> QED BY <1>p, <2>1 DEF Counted, Idle, Done
<1>3. CASE Guard(r) \/ Compare(r) \/ ReadOrder(r)
    <2>1. /\ present' = present /\ before' = before
          /\ pc'[r] \notin {"page", "images", "permission"}
          /\ pc[r] \in {"guard", "secret", "order"}
          /\ pc'[r] = "details" => pc[r] = "order"
        <3>1. CASE Guard(r)
            BY <3>1 DEF Guard, Respond, Send, GoTo, TypeOK, tables, Done
        <3>2. CASE Compare(r)
            BY <3>2 DEF Compare, Respond, Send, GoTo, TypeOK, tables, Done
        <3>3. CASE ReadOrder(r)
            BY <3>3 DEF ReadOrder, Respond, Send, GoTo, TypeOK, tables, Done
        <3> QED BY <1>3, <3>1, <3>2, <3>3
    <2>2. pc[r] = "order" => input[r].kind = "id"
        BY <1>0 DEF Access
    <2>3. reply[r] \in {"pending", "UNAUTHORIZED"}
        BY <1>0, <1>p, <2>1 DEF Access, Done
    <2>4. reply'[r] # "SUCCESS"
        BY <1>3, <2>3 DEF Guard, Compare, ReadOrder, Respond, Send, GoTo, TypeOK
    <2> QED BY <1>0, <1>i, <2>1, <2>2, <2>4 DEF Counted
<1>4. CASE Count(r)
    <2>1. /\ present' = present /\ before' = before /\ pc[r] = "count"
          /\ pc'[r] \in {"page", Done} /\ reply'[r] \in {reply[r], "exception"}
          /\ total'[r] = Last(r)
        BY <1>4 DEF Count, Respond, Send, GoTo, TypeOK, tables, Last
    <2>2. First(r)' = First(r) /\ Last(r)' = Last(r)
        BY <1>i, <2>1 DEF First, Last, Matching
    <2>3. First(r) <= Last(r) /\ First(r) \in Nat /\ Last(r) \in Nat
        BY <1>0, <1>i, MatchingGrows, MatchingIn DEF First, Last, Counted
    <2>4. reply[r] = "pending"
        BY <1>0, <2>1 DEF Access, Done
    <2> QED BY <1>0, <2>1, <2>2, <2>3, <2>4 DEF Counted, Done
<1>5. CASE ReadPage(r)
    <2>1. PICK S \in Pages(Matching(r, present), input[r].page, input[r].size) :
              /\ rows' = [rows EXCEPT ![r] = S]
              /\ IF total[r] = 0 THEN Respond(r, "exception")
                 ELSE /\ GoTo(r, IF S = {} THEN "permission"
                                 ELSE IF input[r].kind = "ref" THEN "images"
                                 ELSE "details")
                      /\ UNCHANGED reply
        BY <1>5 DEF ReadPage
    <2>2. /\ present' = present /\ before' = before /\ total' = total
          /\ pc[r] = "page" /\ rows'[r] = S
        BY <1>5, <2>1 DEF ReadPage, TypeOK, tables
    <2>3. reply[r] = "pending"
        BY <1>0, <2>2 DEF Access, Done
    <2>4. reply'[r] # "SUCCESS"
        BY <2>1, <2>3 DEF Respond, Send, TypeOK
    <2>5. /\ First(r)' = First(r) /\ Last(r)' = Last(r)
          /\ Matching(r, present)' = Matching(r, present)
        BY <1>i, <2>2 DEF First, Last, Matching
    <2>6. input[r].page \in Nat \ {0} /\ input[r].size \in Nat
        BY DEF TypeOK, Input
    <2>7. /\ S \subseteq Matching(r, present) /\ Cardinality(S) \in Nat
          /\ input[r].page = 1 => Cardinality(S) \in {Last(r), input[r].size}
        <3>1. IsFiniteSet(Matching(r, present))
            BY <1>i, MatchingIn
        <3> QED BY ONLY <2>1, <2>6, <3>1, PageIs DEF Last
    <2>8. First(r) <= Last(r) /\ First(r) \in Nat /\ Last(r) \in Nat
        BY <1>0, <1>i, MatchingGrows, MatchingIn DEF First, Last, Counted
    <2> QED BY <1>0, <1>i, <2>2, <2>4, <2>5, <2>7, <2>8 DEF Counted
<1>6. CASE ReadAllPictures(r) \/ Assemble(r) \/ Permission(r) \/ DatabaseFails(r)
    <2>1. /\ UNCHANGED <<before, total, rows>>
          /\ pc'[r] # "page"
          /\ pc'[r] # Done => pc[r] \in {"images", "details", "permission"}
          /\ reply'[r] = "SUCCESS" => pc[r] = "permission" \/ reply[r] = "SUCCESS"
        BY <1>6 DEF ReadAllPictures, Assemble, Permission, DatabaseFails, Respond,
                    Send, GoTo, TypeOK, Done
    <2> QED BY <1>0, <2>1, CountedStays DEF Done
<1>7. CASE \E o \in Orders : ReadPictures(r, o) \/ ReadLuggage(r, o)
    <2>1. /\ UNCHANGED <<before, total, rows>>
          /\ pc'[r] \in {pc[r], Done}
          /\ reply'[r] \in {reply[r], "exception"}
        BY <1>7 DEF ReadPictures, ReadLuggage, Respond, Send, GoTo, TypeOK
    <2> QED BY <1>0, <2>1, CountedStays DEF Done
<1> QED BY <1>1, <1>2, <1>3, <1>4, <1>5, <1>6, <1>7 DEF Mine, Handler

-----------------------------------------------------------------------------
IInv == TypeOK /\ AccessInv /\ DetailsInv /\ CountedInv

LEMMA InitIInv == Init => IInv
<1> SUFFICES ASSUME Init PROVE IInv
    OBVIOUS
<1>1. TypeOK
    BY InitTypeOK
<1>2. ASSUME NEW r \in Requests
      PROVE  /\ pc[r] = Idle /\ reply[r] = "pending"
             /\ before[r].present = {} /\ rows[r] = {} /\ r \notin faulty
             /\ \A o \in Orders : details[r][o] = "none"
    BY DEF Init
<1>3. AccessInv
    BY <1>2 DEF AccessInv, Access, PastGuard, Idle, Done
<1>4. DetailsInv
    BY <1>2 DEF DetailsInv, Luggage, Illustrated, Told, Idle, Done
<1>5. CountedInv
    BY <1>2 DEF CountedInv, Counted, Idle
<1> QED BY <1>1, <1>3, <1>4, <1>5 DEF IInv

LEMMA IInvHolds == Spec => []IInv
<1>1. IInv /\ [Next]_vars => IInv'
    BY TypeOKStep, AccessStep, DetailsStep, CountedStep DEF IInv
<1> QED BY <1>1, InitIInv, PTL DEF Spec

(* Every state of a running service is well typed.                         *)
THEOREM TypeCorrect == Spec => []TypeOK
BY IInvHolds, PTL DEF IInv

(* However queries, guards and inserts interleave, bookings are shown only *)
(* to an account with its secret that has a booking of its own among them. *)
THEOREM ShownToAgents == Spec => []ShownToTheirAgent
<1>1. IInv => ShownToTheirAgent
    BY DEF IInv, AccessInv, Access, Permitted, ShownToTheirAgent
<1> QED BY <1>1, IInvHolds, PTL

(* The count, read before the page, and the page agree but for the orders  *)
(* that came in between, and the first page leaves none out.               *)
THEOREM TotalsFit == Spec => []TotalFitsThePage
<1>1. ASSUME IInv, NEW r \in Requests, reply[r] = "SUCCESS",
             input[r].kind # "id"
      PROVE  /\ total[r] \in First(r) .. Last(r)
             /\ Cardinality(rows[r]) > total[r] => Last(r) > First(r)
             /\ input[r].page = 1 /\ Cardinality(rows[r]) < First(r)
                    => Cardinality(rows[r]) = input[r].size
    <2>1. Counted(r) /\ TypeOK
        BY <1>1 DEF IInv, CountedInv
    <2>2. /\ total[r] \in First(r) .. Last(r)
          /\ rows[r] \subseteq Matching(r, present)
          /\ input[r].page = 1 /\ Cardinality(rows[r]) < First(r)
                 => Cardinality(rows[r]) = input[r].size
        BY <1>1, <2>1 DEF Counted
    <2>3. IsFiniteSet(Matching(r, present)) /\ Last(r) \in Nat
        BY <2>1, MatchingIn DEF TypeOK, Last
    <2>4. Cardinality(rows[r]) \in Nat /\ Cardinality(rows[r]) <= Last(r)
        BY <2>2, <2>3, FS_Subset, FS_CardinalityType DEF Last
    <2>5. First(r) \in Nat /\ total[r] \in Nat
        BY <2>1, MatchingIn DEF TypeOK, First
    <2> QED BY <2>2, <2>3, <2>4, <2>5
<1>2. IInv => TotalFitsThePage
    BY <1>1 DEF TotalFitsThePage, First, Last
<1> QED BY <1>2, IInvHolds, PTL

(* Every booking shown comes with the pictures it kept while it was being  *)
(* read, and with none but those it, or a booking of the same page, had,   *)
(* however pictures are stored and replaced under the query.               *)
THEOREM PicturesAreShown == Spec => []ShownWithTheirPictures
<1>1. ASSUME IInv, NEW r \in Requests, reply[r] = "SUCCESS", NEW o \in rows[r]
      PROVE  /\ before[r].kept[o] \subseteq urls[r][o]
             /\ urls[r][o] \subseteq
                    UNION {before[r].had[q] :
                               q \in IF input[r].kind = "ref" THEN rows[r] ELSE {o}}
    <2>1. Luggage(r) /\ Illustrated(r) /\ o \in Orders
        BY <1>1 DEF IInv, DetailsInv, TypeOK
    <2>2. Shown(r, o)
        BY <1>1, <2>1 DEF Luggage, Illustrated
    <2> QED BY <2>2 DEF Shown, Sources
<1>2. IInv => ShownWithTheirPictures
    BY <1>1 DEF ShownWithTheirPictures
<1> QED BY <1>2, IInvHolds, PTL

(* In whatever order the calls of a list are answered or lost, it is shown *)
(* only when each was answered, and no query fails but for a lost answer,  *)
(* an empty count or a database that fails.                                *)
THEOREM LostAnswersAreNoticed == Spec => []LostAnswersFailLists
<1>1. ASSUME IInv, NEW r \in Requests, reply[r] = "SUCCESS",
             input[r].kind # "id", NEW o \in rows[r]
      PROVE  details[r][o] \in {"ok", "bare"}
    <2>1. Luggage(r) /\ o \in Orders
        BY <1>1 DEF IInv, DetailsInv, TypeOK
    <2> QED BY <1>1, <2>1 DEF Luggage, Told
<1>2. ASSUME IInv, NEW r \in Requests, reply[r] = "exception", r \notin faulty
      PROVE  /\ input[r].kind # "id"
             /\ total[r] = 0 \/ \E o \in rows[r] : details[r][o] = "lost"
    BY <1>2 DEF IInv, DetailsInv, Luggage
<1>3. IInv => LostAnswersFailLists
    BY <1>1, <1>2 DEF LostAnswersFailLists
<1> QED BY <1>3, IInvHolds, PTL
=============================================================================
