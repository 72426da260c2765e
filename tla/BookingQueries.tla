--------------------------- MODULE BookingQueries ---------------------------
(***************************************************************************)
(* Reading bookings: by id, by booking number or by the agent's own number,*)
(* from AgentGuard to the answer (BookingsController.findByBookingId and   *)
(* findByBookingNumber over BookingsService and ImageOrderService).        *)
(*                                                                         *)
(* One answer is put together from up to six reads of two databases and    *)
(* the old system: the account, the count, the page, the pictures, the     *)
(* luggage of each row, the agent.  The old system inserts orders, and     *)
(* stores and replaces pictures, in between.                               *)
(***************************************************************************)
EXTENDS BookingTypes, FiniteSets

CONSTANTS
    Orders,      \* ids of all rows the order table may come to hold
    Numbers,     \* booking numbers and agents' own numbers (ref_id)
    NumberOf,    \* order_number of each order
    RefOf,       \* ref_id of each order
    Owner,       \* agent_id of each order
    Agents,      \* rows of the agent table
    NoAgent,     \* an account without a row in the agent table
    Pictures,    \* pictures an order may have
    Requests,    \* the HTTP requests
    Inputs       \* their contents

(* What the authorization header holds, measured against auth_agent: no    *)
(* header, no such account, an account without secret, a wrong secret (or  *)
(* a header without one), or the right one.                                *)
Credential == {"absent", "unknown", "unset", "wrong", "right"}

(* kind "none" is a list query with neither number.  The DTO bounds page   *)
(* from below, but not size.                                               *)
Input == [kind : {"id", "number", "ref", "none"},
          order : Orders, number : Numbers,
          page : Nat \ {0}, size : Nat,
          credential : Credential, agent : Agents \cup {NoAgent}]

ASSUME InputsAssumption == Inputs \subseteq Input
ASSUME OrdersAssumption ==
    /\ IsFiniteSet(Orders)
    /\ NumberOf \in [Orders -> Numbers]
    /\ RefOf \in [Orders -> Numbers]
    /\ Owner \in [Orders -> Agents]
    /\ NoAgent \notin Agents

VARIABLES
    present,   \* the orders in the table
    pictures,  \* the pictures of each order in the image table
    pc,        \* the await at which the handler of a request stands
    input,     \* the contents of a request
    total,     \* what getCount returned
    rows,      \* the page
    urls,      \* the pictures a handler has attached to each row
    details,   \* how far the luggage of each row of the page is
    reply,     \* what a request has been answered
    faulty,    \* history: the requests that met a failing database
    before     \* history: the orders there when a request came, and the
               \* pictures each order has kept, and has had, since then

vars == <<present, pictures, pc, input, total, rows, urls, details, reply,
          faulty, before>>

tables == <<present, pictures>>

Idle == "idle"
Done == "done"
PC == {Idle, "guard", "secret", "count", "page", "order", "images", "details",
       "permission", Done}

(* The luggage of a row: its list told, an answer without one, or none.    *)
Told == {"ok", "bare", "lost"}
Detail == {"none", "images", "asked"} \cup Told
QueryReply == {"pending", "SUCCESS", "BAD_REQUEST", "UNAUTHORIZED",
               "FORBIDDEN", "NOT_FOUND", "exception"}

GoTo(r, label) == pc' = [pc EXCEPT ![r] = label]

(* Express sends the first response of a request and drops later ones.     *)
Send(r, code) ==
    reply' = [reply EXCEPT ![r] = IF @ = "pending" THEN code ELSE @]

Respond(r, code) == Send(r, code) /\ GoTo(r, Done)

-----------------------------------------------------------------------------
Init ==
    /\ present \in SUBSET Orders
    /\ pictures \in [Orders -> SUBSET Pictures]
    /\ pc = [r \in Requests |-> Idle]
    /\ input \in [Requests -> Inputs]
    /\ total = [r \in Requests |-> 0]
    /\ rows = [r \in Requests |-> {}]
    /\ urls = [r \in Requests |-> [o \in Orders |-> {}]]
    /\ details = [r \in Requests |-> [o \in Orders |-> "none"]]
    /\ reply = [r \in Requests |-> "pending"]
    /\ faulty = {}
    /\ before = [r \in Requests |-> [present |-> {},
                                     kept |-> [o \in Orders |-> {}],
                                     had |-> [o \in Orders |-> {}]]]

Arrive(r) ==
    /\ pc[r] = Idle
    /\ before' = [before EXCEPT ![r] = [present |-> present,
                                        kept |-> pictures, had |-> pictures]]
    /\ GoTo(r, "guard")
    /\ UNCHANGED <<tables, input, total, rows, urls, details, reply, faulty>>

(* canActivate up to the comparison.  Without a header it answers 401 and  *)
(* goes on, to throw on the split of undefined; a null row throws, and so  *)
(* does a findFirst that fails: all three are caught, and false.  A null   *)
(* secret is answered 401, and compared.                                   *)
Guard(r) ==
    /\ pc[r] = "guard"
    /\ \/ /\ input[r].credential \in {"absent", "unknown"}
          /\ Respond(r, IF input[r].credential = "absent"
                        THEN "UNAUTHORIZED" ELSE "FORBIDDEN")
          /\ UNCHANGED faulty
       \/ /\ input[r].credential \in {"unset", "wrong", "right"}
          /\ IF input[r].credential = "unset" THEN Send(r, "UNAUTHORIZED")
             ELSE UNCHANGED reply
          /\ GoTo(r, "secret")
          /\ UNCHANGED faulty
       \/ /\ input[r].credential # "absent"
          /\ Respond(r, "FORBIDDEN")
          /\ faulty' = faulty \cup {r}
    /\ UNCHANGED <<tables, input, total, rows, urls, details, before>>

(* bcrypt.compare throws when it is given no hash.                         *)
Compared(r) ==
    CASE input[r].credential = "right" -> "true"
      [] input[r].credential = "unset" -> "throws"
      [] OTHER -> "false"

(* Mutant: the catch lets in.                                              *)
CaughtIsTrue(r) == Compared(r) # "false"

(* What canActivate returns: its catch makes false of an exception.        *)
LetIn(r) == Compared(r) = "true"

(* The comparison ends, and the handler runs up to its first read; of one  *)
(* who is not let in the framework makes a 403.                            *)
Compare(r) ==
    /\ pc[r] = "secret"
    /\ \/ LetIn(r) /\ input[r].kind = "none" /\ Respond(r, "BAD_REQUEST")
       \/ /\ LetIn(r) /\ input[r].kind # "none"
          /\ GoTo(r, IF input[r].kind = "id" THEN "order" ELSE "count")
          /\ UNCHANGED reply
       \/ ~LetIn(r) /\ Respond(r, "FORBIDDEN")
    /\ UNCHANGED <<tables, input, total, rows, urls, details, faulty, before>>

-----------------------------------------------------------------------------
(* Mutant: the wrong column of the rows taken for their id.                *)
WrongColumn(r, table) ==
    {NumberOf[o] : o \in {q \in table : RefOf[q] = input[r].number}}

(* The rows the query of r matches, in a given state of the table.         *)
Matching(r, table) ==
    {o \in table :
        CASE input[r].kind = "id" -> o = input[r].order
          [] input[r].kind = "number" -> NumberOf[o] = input[r].number
          [] input[r].kind = "ref" -> RefOf[o] = input[r].number
          [] OTHER -> FALSE}

(* getCount.  By the agent's number an empty count ends the query; the     *)
(* controller then reads data of undefined.                                *)
Count(r) ==
    /\ pc[r] = "count"
    /\ total' = [total EXCEPT ![r] = Cardinality(Matching(r, present))]
    /\ IF input[r].kind = "ref" /\ total'[r] = 0 THEN Respond(r, "exception")
       ELSE GoTo(r, "page") /\ UNCHANGED reply
    /\ UNCHANGED <<tables, input, rows, urls, details, faulty, before>>

(* Mutant: the offset of a page counted from one.                          *)
PageFromOne(matched, page, size) ==
    LET left == Cardinality(matched) - page * size
        length == IF left < 0 THEN 0 ELSE IF left < size THEN left ELSE size
    IN  IF size = 0 THEN {matched}
        ELSE {S \in SUBSET matched : Cardinality(S) = length}

(* OFFSET (page - 1) * size, LIMIT size without ORDER BY: any rows of that *)
(* number.  TypeORM takes a limit of 0 for none.                           *)
Pages(matched, page, size) ==
    LET left == Cardinality(matched) - (page - 1) * size
        length == IF left < 0 THEN 0 ELSE IF left < size THEN left ELSE size
    IN  IF size = 0 THEN {matched}
        ELSE {S \in SUBSET matched : Cardinality(S) = length}

(* By booking number the empty count is looked at only after the page.     *)
ReadPage(r) ==
    /\ pc[r] = "page"
    /\ \E S \in Pages(Matching(r, present), input[r].page, input[r].size) :
          /\ rows' = [rows EXCEPT ![r] = S]
          /\ IF total[r] = 0 THEN Respond(r, "exception")
             ELSE /\ GoTo(r, IF S = {} THEN "permission"
                             ELSE IF input[r].kind = "ref" THEN "images"
                             ELSE "details")
                  /\ UNCHANGED reply
          /\ details' = [details EXCEPT ![r] =
                 [o \in Orders |-> IF o \in S THEN "images" ELSE "none"]]
    /\ UNCHANGED <<tables, input, total, urls, faulty, before>>

(* findOneByOrderId: the only query whose 404 can be reached.              *)
ReadOrder(r) ==
    /\ pc[r] = "order"
    /\ LET S == Matching(r, present)
       IN  /\ rows' = [rows EXCEPT ![r] = S]
           /\ details' = [details EXCEPT ![r] =
                  [o \in Orders |-> IF o \in S THEN "images" ELSE "none"]]
           /\ IF S = {} THEN Respond(r, "NOT_FOUND")
              ELSE GoTo(r, "details") /\ UNCHANGED reply
    /\ UNCHANGED <<tables, input, total, urls, faulty, before>>

(* Mutant: the images of one order id only.                                *)
PicturesOfOne(r) == pictures[CHOOSE o \in rows[r] : TRUE]

PicturesOfAll(r) == UNION {pictures[o] : o \in rows[r]}

(* findByOrderId(orderIds): the pictures of the whole page, and every row  *)
(* is given all of them.                                                   *)
ReadAllPictures(r) ==
    /\ pc[r] = "images"
    /\ urls' = [urls EXCEPT ![r] = [o \in Orders |->
           IF o \in rows[r] THEN PicturesOfAll(r) ELSE {}]]
    /\ details' = [details EXCEPT ![r] = [o \in Orders |->
           IF o \in rows[r] THEN "asked" ELSE "none"]]
    /\ GoTo(r, "details")
    /\ UNCHANGED <<tables, input, total, rows, reply, faulty, before>>

(* findOneByOrderId of ImageOrderService, for each row by itself.          *)
ReadPictures(r, o) ==
    /\ pc[r] = "details"
    /\ details[r][o] = "images"
    /\ urls' = [urls EXCEPT ![r][o] = pictures[o]]
    /\ details' = [details EXCEPT ![r][o] = "asked"]
    /\ UNCHANGED <<tables, pc, input, total, rows, reply, faulty, before>>

(* Mutant: the luggage of a list read with ?. like that of a single one.   *)
ToleratesLost(r) == TRUE

(* Only findOneByOrderId reads the old system's answer with ?. throughout. *)
Tolerant(r) == input[r].kind = "id"

(* The await of findBooking ends for one row.  data[1]?.size_lug_list      *)
(* .map(...) ?? [] takes an answer without element 1 for no products       *)
(* ("bare"); it throws on undefined (a lost call, or none made for want of *)
(* a number or an email) and on an answer without data, or without list in *)
(* element 1 ("lost"), and so does the Promise.all of the list.            *)
ReadLuggage(r, o) ==
    /\ pc[r] = "details"
    /\ details[r][o] = "asked"
    /\ \E result \in Told :
          /\ details' = [details EXCEPT ![r][o] = result]
          /\ IF result = "lost" /\ ~Tolerant(r) THEN Respond(r, "exception")
             ELSE UNCHANGED <<pc, reply>>
    /\ UNCHANGED <<tables, input, total, rows, urls, faulty, before>>

(* Mutant: waits for an answer that may be lost.                           *)
AllOk(r) == \A o \in rows[r] : details[r][o] = "ok"

AllRead(r) == \A o \in rows[r] : details[r][o] \in Told

Assemble(r) ==
    /\ pc[r] = "details"
    /\ AllRead(r)
    /\ GoTo(r, "permission")
    /\ UNCHANGED <<tables, input, total, rows, urls, details, reply, faulty,
                   before>>

(* bookingPermission: one row of the agent's own is enough for the page.   *)
Permitted(r) == \E o \in rows[r] : Owner[o] = input[r].agent

Permission(r) ==
    /\ pc[r] = "permission"
    /\ Respond(r, IF Permitted(r) THEN "SUCCESS" ELSE "FORBIDDEN")
    /\ UNCHANGED <<tables, input, total, rows, urls, details, faulty, before>>

(* A database statement is rejected; once every row has its pictures, the  *)
(* details wait for the old system alone.                                  *)
DatabaseFails(r) ==
    /\ \/ pc[r] \in {"count", "page", "order", "images", "permission"}
       \/ pc[r] = "details" /\ \E o \in rows[r] : details[r][o] = "images"
    /\ Respond(r, "exception")
    /\ faulty' = faulty \cup {r}
    /\ UNCHANGED <<tables, input, total, rows, urls, details, before>>

-----------------------------------------------------------------------------
(* The old system inserts an order, stores a picture of one (im_id -1), or *)
(* puts one in the place of another (the im_id of that).                   *)
Insert(o) ==
    /\ o \notin present
    /\ present' = present \cup {o}
    /\ UNCHANGED <<pictures, pc, input, total, rows, urls, details, reply,
                   faulty, before>>

(* Every request being handled takes note.                                 *)
Illustrate(o, now) ==
    /\ o \in present
    /\ pictures' = [pictures EXCEPT ![o] = now]
    /\ before' = [r \in Requests |->
           IF pc[r] \in {Idle, Done} THEN before[r]
           ELSE [before[r] EXCEPT !.kept[o] = @ \cap now,
                                  !.had[o] = @ \cup now]]
    /\ UNCHANGED <<present, pc, input, total, rows, urls, details, reply,
                   faulty>>

Store(o, p) == p \notin pictures[o] /\ Illustrate(o, pictures[o] \cup {p})

Replace(o, old, p) ==
    /\ old \in pictures[o]
    /\ p \notin pictures[o]
    /\ Illustrate(o, (pictures[o] \ {old}) \cup {p})

Handler(r) ==
    \/ Guard(r) \/ Compare(r) \/ Count(r) \/ ReadPage(r) \/ ReadOrder(r)
    \/ ReadAllPictures(r) \/ Assemble(r) \/ Permission(r) \/ DatabaseFails(r)
    \/ \E o \in Orders : ReadPictures(r, o)

Next ==
    \/ \E r \in Requests :
          Arrive(r) \/ Handler(r) \/ (\E o \in Orders : ReadLuggage(r, o))
    \/ \E o \in Orders :
          \/ Insert(o)
          \/ \E p \in Pictures :
                Store(o, p) \/ (\E old \in Pictures : Replace(o, old, p))

Spec == Init /\ [][Next]_vars

(* Node runs what can run, and the databases answer or fail.  Nothing is   *)
(* assumed of the calls of findBooking: they are made without a timeout.   *)
Fairness == \A r \in Requests : WF_vars(Handler(r))

FairSpec == Spec /\ Fairness

-----------------------------------------------------------------------------
TypeOK ==
    /\ present \subseteq Orders
    /\ pictures \in [Orders -> SUBSET Pictures]
    /\ pc \in [Requests -> PC]
    /\ input \in [Requests -> Input]
    /\ total \in [Requests -> Nat]
    /\ rows \in [Requests -> SUBSET Orders]
    /\ urls \in [Requests -> [Orders -> SUBSET Pictures]]
    /\ details \in [Requests -> [Orders -> Detail]]
    /\ reply \in [Requests -> QueryReply]
    /\ faulty \subseteq Requests
    /\ before \in [Requests -> [present : SUBSET Orders,
                                kept : [Orders -> SUBSET Pictures],
                                had : [Orders -> SUBSET Pictures]]]

PastGuard(r) == pc[r] \notin {Idle, "guard", "secret", Done}

(* No handler runs (not even behind a 401 that was sent already) but for a *)
(* caller with the secret of its account, and bookings are shown only when *)
(* the page has a booking of that account's agent on it.                   *)
ShownToTheirAgent ==
    \A r \in Requests :
        /\ PastGuard(r) => input[r].credential = "right"
        /\ reply[r] = "SUCCESS" =>
               /\ input[r].credential = "right"
               /\ \E o \in rows[r] : Owner[o] = input[r].agent

(* The total lies between the counts at the start and at the end of the    *)
(* request, and the page is no longer than the total unless orders came in *)
(* between; the first page is not short of orders there from the start.    *)
TotalFitsThePage ==
    \A r \in Requests :
        reply[r] = "SUCCESS" /\ input[r].kind # "id" =>
            LET first == Cardinality(Matching(r, before[r].present))
                last == Cardinality(Matching(r, present))
            IN  /\ total[r] \in first .. last
                /\ Cardinality(rows[r]) > total[r] => last > first
                /\ input[r].page = 1 /\ Cardinality(rows[r]) < first
                       => Cardinality(rows[r]) = input[r].size

(* Every booking shown has each picture it kept while the request was      *)
(* handled, and none but pictures it had in that time, its own ones or, in *)
(* a list by the agent's number, those of any booking on the page.         *)
ShownWithTheirPictures ==
    \A r \in Requests :
        reply[r] = "SUCCESS" => \A o \in rows[r] :
            /\ before[r].kept[o] \subseteq urls[r][o]
            /\ urls[r][o] \subseteq
                   UNION {before[r].had[q] :
                              q \in IF input[r].kind = "ref" THEN rows[r] ELSE {o}}

(* A list is shown only when findBooking has answered for every booking on *)
(* it; and it takes a lost answer, or an empty count, for a query to fail  *)
(* while the databases answer, and never fails a query by id.              *)
LostAnswersFailLists ==
    \A r \in Requests :
        /\ reply[r] = "SUCCESS" /\ input[r].kind # "id" =>
               \A o \in rows[r] : details[r][o] \in {"ok", "bare"}
        /\ reply[r] = "exception" /\ r \notin faulty =>
               /\ input[r].kind # "id"
               /\ total[r] = 0 \/ \E o \in rows[r] : details[r][o] = "lost"

(* Asked for a number no order has, the controller answers 404, "Booking   *)
(* not found.".                                                            *)
UnknownNumberIsNotFound ==
    \A r \in Requests :
        (/\ reply[r] # "pending"
         /\ r \notin faulty
         /\ input[r].credential = "right"
         /\ input[r].kind \in {"number", "ref"}
         /\ Matching(r, present) = {})
            => reply[r] = "NOT_FOUND"

(* A call of findBooking that is still to be answered.                     *)
HasOpenCall(r) ==
    pc[r] = "details" /\ \E o \in rows[r] : details[r][o] = "asked"

(* Every query that comes in is answered, however many rows it waits for,  *)
(* unless a call of findBooking stays open for ever.                       *)
OnlyOpenCallsHoldQueries ==
    \A r \in Requests :
        (pc[r] # Idle) ~> (reply[r] # "pending" \/ []HasOpenCall(r))
=============================================================================
