---------------------------- MODULE BranchPages ----------------------------
(***************************************************************************)
(* The list of the branches one can send from, or to                       *)
(* (BranchService.findBranchAvailables), read page by page by a caller     *)
(* while the old system's staff switches branches on and off.  Every page  *)
(* is a request of its own with two statements, the count and the page.    *)
(***************************************************************************)
EXTENDS Integers, FiniteSets

CONSTANTS
    Branches,   \* ids of the rows of the branch table
    Listed,     \* those that are an end of the asked type in some condition,
                \* and not of branch type 3
    Size        \* the size of a page

ASSUME BranchesAssumption ==
    /\ Branches \subseteq Nat
    /\ IsFiniteSet(Branches)
    /\ Listed \subseteq Branches
(* Who reads page by page asks for one branch a page at least.  (A size of *)
(* 0, which the query may have, is no limit: every page is the whole list.)*)
ASSUME SizeAssumption == Size \in Nat \ {0}

VARIABLES
    active,    \* the branches switched on
    pc,        \* the statement the request for the current page stands at
    page,      \* the page asked for
    total,     \* its count
    got,       \* the branches of the pages answered so far
    twice,     \* those that were on two of them
    trusting,  \* whether the caller stops at the total of Content-Range, or
               \* only at a page that is short
    steady,    \* history: the branches on since the first page was asked for
    wentOff,   \* history: those switched off, and those switched on, since
    cameOn

vars == <<active, pc, page, total, got, twice, trusting, steady, wentOff,
          cameOn>>
history == <<steady, wentOff, cameOn>>

(* Mutant: the conditions, and branch type 3, not looked at.               *)
EveryActive == active

Available == active \cap Listed

Init ==
    /\ active \in SUBSET Branches
    /\ pc = "count"
    /\ page = 1
    /\ total = 0
    /\ got = {}
    /\ twice = {}
    /\ trusting \in BOOLEAN
    /\ steady = active
    /\ wentOff = {}
    /\ cameOn = {}

(* COUNT(DISTINCT branch_id): a total of 0 is answered 404.                *)
Count ==
    /\ pc = "count"
    /\ total' = Cardinality(Available)
    /\ pc' = IF total' = 0 THEN "over" ELSE "page"
    /\ UNCHANGED <<active, page, got, twice, trusting, history>>

(* Mutants: the offset of page one a whole page; the offset counted in     *)
(* pages; the page not ordered by id.                                      *)
PageFromZero(S, p) ==
    {b \in S : Cardinality({c \in S : c < b})
                   \in p * Size .. (p + 1) * Size - 1}
OffsetInPages(S, p) ==
    {b \in S : Cardinality({c \in S : c < b}) \in p - 1 .. p - 2 + Size}
Backwards(S, p) ==
    {b \in S : Cardinality({c \in S : c > b})
                   \in (p - 1) * Size .. p * Size - 1}

(* ORDER BY id with OFFSET and LIMIT: the rows by the number of those      *)
(* before them.                                                            *)
PageOf(S, p) ==
    {b \in S : Cardinality({c \in S : c < b})
                   \in (p - 1) * Size .. p * Size - 1}

(* The page is answered, and the caller asks for the next one or stops.    *)
ReadPage ==
    /\ pc = "page"
    /\ LET rows == PageOf(Available, page)
           last == IF trusting THEN page * Size >= total
                   ELSE Cardinality(rows) < Size
       IN  /\ got' = got \cup rows
           /\ twice' = twice \cup (got \cap rows)
           /\ pc' = IF last THEN "over" ELSE "count"
           /\ page' = IF last THEN page ELSE page + 1
    /\ UNCHANGED <<active, total, trusting, history>>

(* A statement is rejected: the request ends with 502, and the caller asks *)
(* for the page again.                                                     *)
DatabaseFails ==
    /\ pc = "page"
    /\ pc' = "count"
    /\ UNCHANGED <<active, page, total, got, twice, trusting, history>>

Switch(b) ==
    /\ pc # "over"
    /\ IF b \in active
       THEN /\ active' = active \ {b}
            /\ steady' = steady \ {b}
            /\ wentOff' = wentOff \cup {b}
            /\ UNCHANGED cameOn
       ELSE /\ active' = active \cup {b}
            /\ cameOn' = cameOn \cup {b}
            /\ UNCHANGED <<steady, wentOff>>
    /\ UNCHANGED <<pc, page, total, got, twice, trusting>>

Next == Count \/ ReadPage \/ DatabaseFails \/ (\E b \in Branches : Switch(b))

Spec == Init /\ [][Next]_vars

-----------------------------------------------------------------------------
TypeOK ==
    /\ active \subseteq Branches
    /\ pc \in {"count", "page", "over"}
    /\ page \in Nat \ {0}
    /\ total \in 0 .. Cardinality(Listed)
    /\ got \subseteq Listed
    /\ twice \subseteq got
    /\ trusting \in BOOLEAN
    /\ steady \subseteq active
    /\ wentOff \subseteq Branches
    /\ cameOn \subseteq Branches

Before(S, b) == \E c \in S \cap Listed : c < b

(* A branch that was on all the while is missing from the pages only if    *)
(* one before it was switched off meanwhile (the pages after it move up),  *)
(* or, for a caller that trusts the total, one was switched on (it is      *)
(* pushed out of the pages that the total promised).                       *)
MissedOnlyAfterSwitch ==
    pc = "over" =>
        \A b \in (steady \cap Listed) \ got :
            Before(wentOff, b) \/ (trusting /\ Before(cameOn, b))

(* A branch is shown on two pages only if one before it was switched on.   *)
ShownTwiceOnlyAfterSwitchOn ==
    \A b \in twice : Before(cameOn, b)

(* When nothing is switched meanwhile, the pages together are the list, and*)
(* no branch is on two of them, whichever way the caller finds the end.    *)
QuietListIsReadWhole ==
    pc = "over" /\ wentOff = {} /\ cameOn = {} =>
        got = Available /\ twice = {}
=============================================================================
