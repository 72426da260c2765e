# A verification project for the booking service

This directory holds TLA+ models of the booking service in `src/`, the TLC
configurations that model-check them and the TLAPS proofs about them. Module
names below are files of this directory; paths are relative to `src/`, and
`bookings.service.ts:797` and the like are files of `src/bellugg/`.

## 1. The system

The program is a NestJS server through which travel agents book the transport
of luggage between hotels, airports and booths. It is a front of an **old
system**, which owns most of the data:

* the MSSQL database is shared with the old system (`config.service.ts:70-87`):
  the service reads orders, branches, conditions and pictures from it through
  TypeORM and writes one row itself, the order that is cancelled;
* the accounts of the agents (`auth_agent`) are read by the guard through Prisma;
* everything else it changes (orders, luggage, pictures) it changes by calling
  the old system over HTTP (axios, without a timeout);
* the old system's staff change the same rows meanwhile: they approve and
  complete orders (`order_status`), move the luggage along (`track_status`) and
  switch branches on and off.

Node runs one handler at a time, but every `await` lets other requests, the
staff and the clock in. That, HTTP calls that are refused, lost or late, and
rules about time written as comparisons of strings, are what is hard here.

### Components

| component | code | state | operations |
|---|---|---|---|
| Booking creation | `bookings.service.ts:495-703` | order rows, made by the old system | `createBooking` |
| Booking changes | `bookings.service.ts:705-814` | `order_status` of a row, luggage and pictures in the old system | `updateBookingId`, `cancelBooking` |
| Booking queries | `bookings.service.ts:57-494`, `bookings.controller.ts`, `image-order.service.ts` | none (reads); the count, the page and what is attached to its rows, of one request | `findByOrderNumber`, `findOneByOrderId`, `findByAgentBookingId`, `bookingPermission` |
| Luggage service | `luggage.service.ts`, `luggage.controller.ts` | none of its own | `updateLuggages`, `updateImg`, `getLuggageSize` |
| Old system client | `old-system.service.ts` | calls in flight | `createOrder`, `updateLuggages`, `uploadImgLuggages`, `findSupportArea`, `findBooking` |
| Branch service | `branch.service.ts`, `branch-transform.ts` | branch rows, `active` | `findOneBranch*`, `findOneBranchTypeCondition`, `findBranchAvailables` |
| Time slots | `time-slot.service.ts` | none; the clock | `fromTimeSlotDefault`, `toTimeSlotDefault` |
| Time slot controller | `time-slot.controller.ts` | the request body, overwritten with the resolved branches | `findTimeSlots` |
| Area verification | `area.service.ts`, `area.controller.ts` | none | `verifyArea` |
| Response formatting | `response-format.ts`, `response.interceptor.ts` | the response | `handleResponse`, `intercept` |
| Guard and agents | `auth.guard.ts`, `agent.service.ts`, `auth.service.ts` | agent rows (never written) | `canActivate`, `getAgentByToken` |
| Agent types | `agentTypes.service.ts` | agent type rows | registered in no module: nothing of it runs |
| Transactions | `repositories/*.ts`, `base.service.ts` | the module variable `currentTx`, never set | `runInTranasction`, `TransactionManager.run`, without a caller |
| Users, service types, configuration, logging | | | commented out, one static read, wiring |

### How they interact

A controller calls one service; the service resolves the agent by its token,
reads and checks rows, and calls the old system. A service returns
`{status, data}`; the controller turns the status into an HTTP code with
`handleResponse`, and a thrown error reaches `ResponseInterceptor`, which
answers with a gateway error. Requests interact through the order table (two
cancellations, an update and a cancellation), through the old system (a retry
of a creation) and through the branch table, which only the staff writes.

### What makes each component correct

* **Changes.** A cancelled order stays cancelled; it is refunded only if asked
  for before 07:00 of the drop-off day; a locked order's luggage is not changed;
  the staff's work is not undone; each answer of an update says truly what the
  old system has stored, though its calls fail one by one.
* **Creation.** A refusal has a true reason and leaves no order; a confirmed
  answer names the order of its own request; orders join served branches.
* **Time slots.** Offers lie ahead of the clock, deliveries after pickups, and
  asking again later brings no time back that was not offered before.
* **All handlers.** Every request is answered, exactly once, unless a call of its own
  to the old system never ends.
* **Queries.** Bookings are shown to their agent only; a page, its total and
  what is attached to its rows belong together; an unknown number is told so.
* **Branch, area, slots controller.** Both ends are checked, the refusal
  is the one of the end that caused it, and the ends keep their sides.
* **Branch pages.** Who reads all pages sees each branch, and sees it once, unless
  branches are switched meanwhile.

The hazards, each at its line and with the properties that watch it, are listed
in `PROJECT.json`.

## 2. The modules

| module | models | reads like |
|---|---|---|
| `BookingTypes` | statuses, tracking, `DefaultStatus`, `handleResponse` | shared vocabulary |
| `BookingRequests` | what is asked of the two operations that change a booking | constants and assumptions |
| `Bookings` | `updateBookingId`, `cancelBooking`, with the luggage service and the old system's client below them, the old system, its staff and the refund limit | one action per stretch between two awaits |
| `BookingContract` | what an agent may rely on when it changes a booking | the abstract specification |
| `BookingsRefinement` | how `Bookings` implements `BookingContract` | a refinement mapping |
| `BranchLookup` | `findOneBranch*`, `getBranchTransformType`, `mappingLatlng`, the support-area service | pure operators |
| `CreateRequests` | what is asked of `createBooking` | constants and assumptions |
| `CreateBooking` | `createBooking`, with branch resolution, the support-area service, `createOrder` and the lookup | one action per stretch between two awaits |
| `CreateContract` | what an agent may rely on when it creates a booking | the abstract specification |
| `CreateBookingRefinement` | how `CreateBooking` implements `CreateContract` | a refinement mapping |
| `BranchEnds` | `verifyArea`, `findTimeSlots` and `getLuggageSize`, each with its controller | the same |
| `TimeSlots` | `fromTimeSlotDefault`, `toTimeSlotDefault`, `generateTimeSlot` | pure operators, and a caller who asks while the clock goes by |
| `BookingQueries` | `AgentGuard`, `findByBookingId`, `findByBookingNumber` and the services below them | one action per read |
| `BranchPages` | `findBranchAvailables`, page by page | one action per statement |
| `MC*` | the instances TLC checks | |
| `*Proofs` | the theorems about the module they are named after | |

`CreateRequests` and `BranchEnds` extend `BranchLookup`, `CreateBooking` and
`CreateContract` extend `CreateRequests`, `Bookings` and `BookingContract` extend
`BookingRequests`. What is composed is what interacts:
a handler with the requests beside it, the old system, the staff, the clock. The
components do not call each other; they meet in the rows of a table, and each
module has in it everything that writes the rows it reads.

### Bookings

`orders` is the table. A handler's `pc` is the await it stands at: `find` is
`repo.findOne`, `check` the run of plain code after it, `luggage` and `images`
the HTTP calls, `select` and `save` the two statements of `repo.save`.
`booking`, `target` and `selected` are its local variables: the row found, the
status decided, and the row TypeORM reads for itself before it computes which
columns to write (`Column`, `SavedRow`). The columns that matter to the rules
are kept, the other hundred are not.

A call to the old system is in `wire` until the old system carries it out or
refuses it, and `answer` is what the handler knows of it. These are apart on
purpose: `Break` gives a handler its answer (`lost`) while the call stays on
the wire, so it may still be carried out after the agent has been answered.

`Arrive` includes the amount check the controller's service does first. Amounts are
kept as they are sent, and `ToNumber` says what the DTO makes of them before that check:
`toNumber` (`pipe-transform.ts:26`) parses `value || 'undefined'`, so a 0 becomes undefined, which
`products` (without `@ValidateNested`) lets pass, and only a fraction below one is cut to the 0 that the
check turns down. Whether
an order is past its limit, or locked, when a request arrives is remembered in
`atArrival`; it is history, read by no action.

Statements to the database may be rejected at each await (`DatabaseFails`), and
an UPDATE may commit while its answer is lost (the exception of `SaveUpdate`).

### BookingContract and BookingsRefinement

The contract knows no awaits, reads or messages. An order has a status; each call
that an update stands for is `open` until it is `kept` or `void`, for good; a
request is asked and answered, once. `Fits` says what an update may be answered
with such fates of its calls, `Outcomes` what a cancellation may make of its
order: refunded if it was asked in time, charged if the limit has passed, or left
as it is if it is cancelled already. `Settle` is the freedom that the
network takes: a call may be kept after its request was answered.

The mapping (`FateOf`) calls a call `kept` once it is stored, `open` while it is
on the wire or its handler may still make it, and `void` otherwise. One step of
the service is one step of the contract or none: `SaveUpdate` is `Cancel`,
`CarryOut` and `Refuse` of the old system are `Settle`, `FinishUpdate` is
`FinishUpdate`, the early answers and the rejected statements are `Refuse`, and
finding, selecting and sending are invisible.

### BranchLookup, CreateBooking and BranchEnds

`BranchLookup` says what a lookup returns when a given set of branches is on: a
branch, or the status it refuses with, or `throws` where the code reads a
property of null. A coordinate is asked of the support-area service
(`SupportArea`), whose answer may be lost. Which of the lookups checks for a
branch id without a row differs between `lat`/`lng` and `latlng`
(`PlaceRow`, `CheckedPlaceRow`). An end is an id, a coordinate, both (the id is
preferred) or neither; `toNumber` and `toFloat` (`pipe-transform.ts:25`) turn 0 into
an absent field.

In `CreateBooking`, `table` is the order table as a sequence of rows; an order's
number is its place. `from` and `to` are the two resolutions, `condition` the
branch condition with all the plain code to the submission, `create` the HTTP
call.

In `BranchEnds`, `from` and `to` are the two resolutions of `verifyArea` and of the
time slot controller, `offerFrom` and `offerTo` the second look that the time
slot service takes at the ids, `sizes` the one statement of `getLuggageSize`.

In both, `seen` is history: which branches were on and off while a request was
being handled, and since the service looked again (`lately`).

### CreateContract and CreateBookingRefinement

The contract knows no lookups, awaits or calls. A request is asked and answered,
once, and stands for one order, which is `open` until it is made (`Make`) or
never will be (`AskInVain`, `Refuse`, `Drop`). A refusal has a reason that holds of the request
or of its branches as they were meanwhile (`SaidOfIt`, `SaidOfEnds`), and closes
the order. An order is made only of a request that nothing speaks against
(`Bookable`), between two branches that it names, that were on and that a condition
joins (`Routes`). `Succeed` and `Fail` answer such a request and leave its order open: the
freedom that the network takes, and finding 1. Only a confirmed order binds the
row that a success names (`Rows`).

In the mapping, a request is `asked` once its handler has started, its order `open` while
its call is on the wire or its handler may still send one, and `confirmed` when
the handler knows its number. `Arrive` is `Ask` or `AskInVain`; `LookUp` is
`Succeed`; `CarryOut` is `Make`, the old system's `Refuse` is `Drop`; the early
answers are `Refuse`, a rejected statement is `Refuse` before the order was
sent and `Fail` after; finding an end, sending, and a broken connection are invisible.

### TimeSlots

A time is a second of the requested date in Bangkok. The service compares ISO
strings with different offsets; the module's header says what this comparison
amounts to with a server that runs in UTC (`+00:00` sorts before `-07:00`, so a
bound is reached inclusively and exceeded from the next second on) and the
operators are written in those terms. The requested date is known by
its position against today's (`Day`), because the code compares only the day of
the month. `Window` is the shape nearly all pickup rules have; rules that
deviate (`LateOpening`, the null bounds that throw) are spelled out.

### BookingQueries

A query passes the two awaits of the guard (`guard`, the account, and `secret`, the
comparison) and then up to five reads: `count`, `page` (or `order`
for a single one), `images`, the `details` of each row, all of them under way at
the same time, and `permission`, the agent's own row. `details[r][o]` is how far
the luggage of a row has come. Meanwhile the old system inserts orders (`Insert`),
stores pictures (`Store`) and puts new ones in the place of others (`Replace`: the `im_id` of
`old-system.service.ts:145`); `before` keeps the orders that were there when a
request came and the pictures each order kept, and had, since then, and `faulty`
the requests that met a rejected statement.

`Told` is what a list makes of the end of a call of `findBooking`
(`bookings.service.ts:147` and `375`, `data[1]?.size_lug_list.map(..) ?? []`): the
products (`ok`), no products when the answer has no element 1 (`bare`), or an exception
(`lost`: no answer at all, or one without `data` or without the list). A query by id
reads `?.` throughout and takes all three.

`Pages` is what `OFFSET` and `LIMIT` may return without an `ORDER BY`, which is any
rows of the right number; a limit of 0 is taken for none. `Credential` is what
the header may hold as measured against `auth_agent`. The guard answers 401
itself and goes on (`auth.guard.ts:21`, `46`): without a header into a `split` of undefined,
for an account without secret into a comparison that throws (`Compared`). It catches both
(`LetIn`); the framework's own 403 comes second and is dropped (`Send`).

### BranchPages

Two statements per page, the count and the page, ordered by id. The caller
stops at the total of `Content-Range` or only at a page that is short
(`trusting`). `Listed` is what the joins and conditions select, by which no
property distinguishes; `active` is what the staff switches between any two statements.

## 3. The runs

| run | question | instance |
|---|---|---|
| `booking_changes` | Is what an update and a cancellation do, and say, justified whatever becomes of their calls and whoever interferes? Does all of it keep the contract, and what can keep an answer away? | one request out of every kind of input, two pictures, an order early, about to be locked, locked, or charged before its limit; and two requests, a cancellation beside a cancellation or an update, on an order one step before the lock |
| `booking_creation` | Are refusals true, and do they leave no order? Does a confirmed answer name its own order while a retry is in flight, and does a request make one order at the most? Does all of it keep the contract, and what can keep an answer away? | one request, every pair of ends out of three ids, four coordinates and no name, missing and large images, three callers; and two requests with one booking number |
| `create_unconfirmed` | finding 1 below | one request |
| `create_goodlugg` | finding 2 below | one request |
| `branch_ends` | Were the ends that are verified, offered for or refused as the answer says, at some time of the request? | one request of each of the three kinds, every pair of ends out of three ids, four coordinates, no name and one with both |
| `ends_told` | finding 3 below | `verifyArea` of the same ends |
| `ends_sides` | finding 4 below | the same |
| `slots_today` | Are today's offers ahead of the clock, shrinking, and the deliveries after the pickups? | a pair of branches for each rule that offers pickups, asked at either side of each bound |
| `slots_other_days` | The same for deliveries on all other dates. | all pairs of eleven branches and an unknown one, four positions of the date |
| `booking_queries` | Who is shown what, do the parts of an answer fit together, which losses fail a query, and what can keep an answer away? | one query of every kind, credential, page and size, over three orders of two agents and two pictures |
| `queries_unknown` | finding 5 below | a query for a number no order has |
| `branch_pages` | When may a caller of all pages miss a branch, or see it twice? Is a list that nobody changes read whole? | five branches, four of them listed, two to a page |

**Bounds.** None of the modules has a counter that needs a bound: statuses and
tracking are the ranges of the enums, requests are handled once, and the pages of a list
end. What is small is the number of requests, orders, pictures and branches.

* Two requests on one order are enough for every interleaving the code
  distinguishes, since a handler shares nothing with others but the row (the
  proofs cover any number); orders do not interact, and two updates only read
  what they share. Two pictures are enough for "some but not all".
* Two branches are enough for "one of the two ends", joined in one direction only;
  readers (`branch_ends`, `booking_queries`) share nothing at all, so that one
  request beside the writers is enough.
* In `booking_queries` the tables change only while the query is handled (before that
  any table is an initial state), and one of the three orders keeps its one picture: that two
  orders gain, lose and exchange two pictures is enough for a page with other pictures than it began with.
* Four listed branches, two to a page, make two pages, and a third, empty one for
  who reads on to a short page: a branch can be moved over either boundary.
* `Clock` in `MCTimeSlots` has the second of each bound and the one after it, the
  two sides of a half hour and the ends of the server's day; the rules are
  constant in between but for the rounding.

`MCBookings` and `MCCreateBooking` restrict the initial states to one request of
any kind, beside a second one that is turned down on arrival, and to a few pairs of
requests that interact; what happens from there is not restricted. The symmetry of requests
is used by hand (a pair is listed once), because liveness is checked in the same runs.

**Deadlock** is not checked: requests are handled once and the old system has
then nothing left to do, so the modelled system does stop. That no request is
stuck is what the liveness properties show instead.

**Fairness.** `WF(Handler(r))`: Node runs every continuation whose await has
settled, and the database client answers or rejects a statement. Of the calls to the old system nothing
is assumed: axios is given no timeout (`old-system.service.ts:40,75,100,125,154`), and nothing
else ends the await, so the transport has no fairness and a call may stay open for ever. In `CreateBooking`
the call of the support area is one step with the read that follows it, so that a handler
at such an end (`AsksSupportArea`) has no fairness either; in `BookingQueries` `ReadLuggage`,
the end of a `findBooking`, is not part of `Handler`. The staff, the clock, the branches and new
requests have no fairness: nothing may depend on them.

The liveness properties (`OnlyOpenCallsHoldRequests`, `OnlyOpenCallsHoldCreates`,
`OnlyOpenCallsHoldQueries`) therefore do not say that every request is answered, which is not true of
the code: they say that a request is answered or, from some time on, always has an open call of its own
(`HasOpenCall`). What they rule out is a handler held by anything else: by a call that has ended badly,
by another request, by one of its rows or pictures, or by an answer that never takes account of it.

**Mutants.** Beside a definition stands, where a comment says so, a mutated
form of it: what a plausible slip would have made of that code. `PROJECT.json`
names, for every property, the one that breaks it.

## 4. What the runs show

The properties hold, with the exceptions the findings name. Some of the passing
properties are weaker than one might expect of the code, and say exactly how much holds:

* `TrackingOnlyLostInWindow`: `cancelBooking` saves the *whole* row it found at
  the start (`bookings.service.ts:797-803`). A change of `track_status` by the
  staff between that read and the SELECT inside `repo.save` is a difference
  between entity and row, and is undone. The property says that this window
  is the only way to lose one. A change after that SELECT survives.
* `LockedOrderKeepsLuggage`: the lock of line 733 can hence be opened again,
  by a cancellation whose two reads straddle the moment the order was locked.
  There is no other way. (An update that arrived before the lock may of course
  finish after it.) The weaker "only if the tracking moved forward between the reads" is false: with
  two cancellations, one can undo the staff's work inside the window of the other.
* `MissedOnlyAfterSwitch`: the pages are offsets into a list that changes. A
  branch before the reader's place that goes off moves the next one over the
  boundary and out of sight; one that comes on pushes a branch past the end
  that `Content-Range` promised.
* `OffersAreOfServedBranches`: the controller's look at the branches counts for nothing
  once the service has looked again; each end was on at some time since
  then, not necessarily both at the same.

Findings (runs with `expect: violation`):

1. `createBooking` sets the status FAIL when `createOrder` failed or was
   refused, does not return, and sets SUCCESS five lines later
   (`bookings.service.ts:683-688`). The lookup in between then has an undefined order
   number: TypeORM leaves the condition out and the answer carries the first row of the
   table, whosever it is.
2. The comment at `bookings.service.ts:524` names agent 2323; the code at 525 lets 2324 pass.
3. `verifyArea` between two ids answers the refusal of the second with the status
   of the first, which is SUCCESS (`area.service.ts:52`).
4. `verifyArea` from a coordinate to an id exchanges the two ends in its answer
   (`area.service.ts:111-121`), and between two coordinates writes the second
   one and never the first (144).
5. The 404 of `bookings.controller.ts:93` cannot be reached for an unknown number:
   the permission check before it reads a property of undefined.

Met while reading, and part of the models or of the plan (none is a property,
because nothing in the repository says what was intended):

* `imageLuggages` is optional in the DTO and read without a check
  (`bookings.service.ts:633`): such a request throws (`Submit`).
* A support-area answer whose branch id has no row makes `branch.service.ts:292`
  read a property of null (`PlaceRow`).
* A comparison with a bound that was never set throws for airport 1 to hotel 9
  before 12:00 and for booth 7 to hotel 9 (`time-slot.service.ts:197,274`).
* Booths 7, 17 and 18 offer their whole window to an airport only to who asks,
  at a time of day before it opens, for a date with a greater day of the month (`LateOpening`); hence the exception in
  `OffersOnlyShrink`.
* The same day number of another month is treated as today (`SameNumber`).
* A slot before 07:00 Bangkok is handed out as a time of day in UTC and comes
  back as an instant of the following night (`Instant`).
* Airport to booth pickups from 12:00 on have no delivery, and some pairs of hotels
  have pickups but no deliveries at all.
* A delivery date may precede the pickup date (`ToTimeSlotDefault`).
* The delivery date is taken at the current time of day plus one second
  (`time-slot.service.ts:426-434`): asked in the last second of the server's
  day, the service takes it for the date after and offers, say, all hours of
  the pickup's own date (`DaysCounted`; hence the exception in `DeliveryFollowsPickup`).
* `findByAgentBookingId` gives each order the pictures of the whole page
  (`ReadAllPictures`), so `ShownWithTheirPictures` lets such rows have the pictures of any row of the page.
* A lost answer of `findBooking` leaves a single booking without products, and
  makes a whole list fail; an answer without element 1 leaves its row of a list without
  products too, in a success (`ReadLuggage`). `LostAnswersFailLists` says the rest: a list is shown
  only when every call was answered, and while the databases answer no query fails but for a lost answer
  or an empty count, and none by id.
* An amount of 0 in an update is not turned down: it has become undefined when it is compared with 0,
  and its product is left out of the luggage list that is sent (`ToNumber`).
* One booking of the agent's own on a page is enough to be shown the page
  (`Permitted`). `ref_id` is the agents' own choice, so a page may hold bookings of
  others; nothing in the repository says whether it should.
* The count and the page are two statements, and the page has no `ORDER BY`: the
  pages of a list may overlap. `TotalFitsThePage` says what is certain of one page.
* Asked in the very minute of a half hour, `generateTimeSlot` passes over it
  (`time-slot.service.ts:885`); in the minute of a full hour it does not
  (`SlotsAreWhatIsLeft`).
* A page size of 0 is no limit for TypeORM (`Pages`), and every page is then the whole list.
* `findTimeSlots` without a date falls through all its cases and throws (`Arrive` of `BranchEnds`).
* `getLuggageSize` looks up both ends and uses neither (`FindSizes`).

## 5. What is proved

Every invariant and action property of a passing run is a theorem, for all values
of the constants that the modules' assumptions admit, and so are both refinements.
Each proof has one step per action and splits a step by what it disturbs;
the lemma `OthersStay` of a module says once that a step of one request leaves another's
variables alone.

### Bookings and its contract

`BookingsProofs` proves, for all orders, agents, requests, pictures and inputs,
the type invariant and every safety property of `Bookings` that a run checks.
The assumptions are those the module states about its constants: inputs are
requests the DTO admits, each order has an owner, the special names are not
those of rows, and the table starts with any rows the schema admits.

* `TypeCorrect`. The types are inductive only with `FoundOrder`: a handler
  past its `findOne` has found a row, or else `SaveSelect` would read outside the table.
* `CancellationsAreFinal`, `TrackingIsLostInWindowOnly`, and the action properties
  `RefundsAreInTime` and `ChargesAreLate`, from the invariant `CancelInv`. What a cancellation will write is decided
  before it selects and updates, so the invariant says what is known in
  between: it is its owner's, the decided status is a cancelled one, and the
  refunding one only if it did not arrive late (`Decided`); who arrived late
  still finds the limit passed when it decides (`LateIsPast`); and, the heart of
  it, a row *selected* as cancelled implies that the order *is* cancelled
  (`SelectedIsCancelled`). Without the last, an UPDATE that leaves
  `order_status` out, because entity and selected row agree on it, might leave
  a row that is not cancelled as it is. The refund and the charge are stated of the step
  in which an order *becomes* refunded or charged, since the old system may have
  done either before; that step is a saving cancellation (`CancellationSaves`), and
  `Decided` says the rest.
* `SuccessIsStored`, `RefusalsLeaveNothing`, `PictureFailuresKeepLuggage` from
  `CallInv`: an answer tells the truth about its call (`AnswersAreTrue`: "ok"
  means stored, "refused" neither stored nor under way), calls are sent once
  (`FreshCalls`), and what a request was answered follows from the answers of its calls (`Answered`).
* `LockedOrdersKeepLuggage` from `LockInv`: once locked, an order stays locked
  or has met a stale cancellation (`LockedOrders`), and so a late update finds
  it locked, or that cancellation explains why not (`LockedChecks`).
* `ServiceKeepsContract` (`BookingsRefinementProofs`): initial states map to initial
  states and every step to a step or a stutter, from the invariants above and
  `CallsMade` (calls are made by updates of the owner, and a handler that waits
  for calls has made them). Without it a call of a stranger's
  update might be settled, and an update be answered before its calls were
  open. The action of the contract is chosen step by step; that `void` is final
  rests on `FreshCalls`, that an answer fits the fates on `AnswersAreTrue`.

### CreateBooking

`CreateBookingProofs`, for any branches, coordinates, conditions, requests and
orders of others. The invariant: the ends of a request at work are named
(`EndsNamed`), what is on now has been seen on (`SeenInv`), what was resolved was
so at some time of the request (`FoundInv`), an order on the wire or in the table is of both its
branches and of a request that can no longer be refused (`OrderInv`), and the
reason of a refusal is one of the two resolutions (`ReasonInv`). `OrderInv` is what
`ConfirmedReplies` and `RefusedMakesNone` need: an order number that the handler knows is in
the table under the very request. `RequestsMakeOneOrder` needs of it that a
handler that is about to send has not sent yet.

* `ServiceKeepsCreateContract`: initial states map to initial states and every step
  to a step or a stutter, from these invariants and `AdmitInv`: who is at work may book, what
  was sent has small images, a number comes with a confirmation only, who is done has
  been answered. `RoutesAre` says that the
  routes of the contract are the one pair of branches that the lookups found, if a condition joins it,
  and `SentIsBookable` that nothing speaks against a request whose order was sent. That no order is
  made twice, and none after a refusal, is part of it: an order is closed once.

### BranchEnds

`BranchEndsProofs`, over the lemmas of `BranchLookupProofs` about what a lookup
may return. The invariant is like that of `CreateBooking`, with `lately` for what was on
since the second look (`SeenInv`) and, in `AnswerInv`, what an answer says of either resolution.

### TimeSlots

`TimeSlotsProofs`, at any second of the day, for any types of branches and any
pairs. `TypeCorrect`, `PickupsAreAhead` and `DeliveriesFollowPickups` rest on
lemmas about the half hours (`RoundUp`, `Slots`) and about each rule: what it
offers is a half hour that keeps the rule (`Good`) and lies ahead of the second it was asked
in (`Ahead`). The invariant carries this from the offer to the pickup taken
from it (`OfferInv`, `PickInv`) and to the deliveries (`DeliveryInv`). `OffersShrink`
compares two answers: `RoundUp` is monotone, hence the `Window` of a later second is
part of that of an earlier one, and so rule by rule.

Two theorems are about the operators alone. `SlotsAreWhatIsLeft` says of any
start and end what `generateTimeSlot` returns. `LaterPickupsLeaveNoMore`
compares the deliveries of two pickups; it is what a caller relies on that
settles on an earlier pickup because no delivery suits it.

### BookingQueries

`BookingQueriesProofs`, for any tables, page and size. `AccessInv`: nobody is past
the guard but an account with its secret, and each handler reads what its kind
of query asks for. `DetailsInv`: what is attached to a row has what the order kept and nothing that
was not had meanwhile, which needs both ends of the record: pictures kept can only get fewer and those
had more. `LostAnswersAreNoticed` is about the way an await ends: a list that reaches its permission
check has met no lost call, and one that failed without a rejected statement has. `CountedInv`: total and page were read from tables between the one at arrival and the one of
now; with the cardinalities of subsets this gives `TotalsFit`.

### BranchPages

`BranchPagesProofs`, for any table, list and size of a page but 0. The argument is about
a branch's *place*, the number of listed branches before it. Places are a
bijection from the list to `0 .. n-1` (`PlacesAreTaken`), so a page before a branch's own
is full (`EarlierPagesAreFull`): a short page has nothing behind it.
`ShownLieBehind`: what was shown lies before the next page unless something before
it came on; `MissingLieAhead` and `SteadyAreCounted`: what was not shown yet lies on the pages to
come unless something before it went off, and within the total unless something before it came on.
With nothing switched these leave no room, so that `QuietListsAreReadWhole` needs besides only
that what is on, and what was shown, is known from the start or from a switch (`SwitchesAreKnown`).

**Only model-checked:** liveness (`OnlyOpenCallsHoldRequests`, `OnlyOpenCallsHoldCreates`,
`OnlyOpenCallsHoldQueries`): fairness and ENABLED are out of the prover's reach.

## 6. What is not modelled, and why

* **Agent types.** The controller and the service are registered in no module and the
  entity in no `forFeature`: none of it can run.
* **Users.** The endpoints are commented out. **Transactions.** `runInTranasction`,
  `TransactionManager.run` and `BaseService.find` have no caller left.
  `findOneByOrderId` and `findByOrderId` of the luggage service have none either.
* **Service types**: one read of a static table. **Configuration, logging,
  bootstrap**: wiring and pure I/O.
* The **tracking** endpoint (`oldSystemfindOneByOrderNumber`) relays one answer of the
  old system as it is.
* **Formatting** of rows and payloads, and the bodies of responses: no property is
  about them. `handleResponse` is modelled by the code it chooses, the
  interceptor by the answer it gives for a thrown error.
* class-validator's decorators are not a module; they say which inputs exist.
* Two cancellation codes that no code path returns (`CANCEL_BOOKING_FAILED`,
  `ERROR`) are in the vocabulary only.
* A restart of the server: it keeps nothing that a restart could lose but the
  handlers under way, whose callers see a broken connection. What remains of such a request (the calls
  on the wire, the statement that was sent) is what remains of one that is answered early, which the models have.

## 7. The plan

All of it is done: first `Bookings`, the part of the service that writes, with its
proofs; then `CreateBooking` and `TimeSlots`; the two contracts and the refinements; the
lookups as a module of their own, with `BranchEnds` over them; the queries with
the guard; the pages of branches; the proofs about each.

Two things of an earlier plan were dropped. A module with creation, changes and
queries over one order table would add no interleaving: a new order has an id that nobody
is told before it is answered, creation never reads a row that a cancellation
writes, and a cancellation never reads a row but its own. And the agent types, which do not run.

What would extend it: the columns of the order that the queries copy, for a
property about what an agent is shown of a booking; and the rules of the time slots as a
table beside the code, if the business ever writes one down.

## 8. Running it

    tlc -config MCBookings.cfg MCBookings
    tlapm BookingsProofs.tla

`PROJECT.json` lists every run with its module, configuration and properties.
The longest run (`booking_changes`) takes about two minutes with two workers, `booking_queries`
a little over one, the others less; a module of proofs takes from seconds to about a minute.
