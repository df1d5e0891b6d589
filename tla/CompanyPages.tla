---------------------------- MODULE CompanyPages ----------------------------
(***************************************************************************)
(* A client walks GET /api/v1/companies page by page while companies are   *)
(* inserted (CompanyRepository.page in platform/repository.py).            *)
(*                                                                         *)
(* The key of a row is its uuidv7, taken when the row is inserted: larger  *)
(* than every key visible at that time, in no order to the keys of         *)
(* transactions still running.  The row is visible when its transaction    *)
(* commits, possibly after rows with larger keys.                          *)
(***************************************************************************)
EXTENDS SortedLists

CONSTANTS
    Ids,      \* company ids, a finite set of numbers
    Limit     \* the page size, 1..200 in the controller

ASSUME IdsAssumption == Ids \subseteq Nat \ {0} /\ IsFiniteSet(Ids)
ASSUME LimitAssumption == Limit \in 1..200

NoCursor == 0

VARIABLES
    committed,    \* keys of the visible companies
    uncommitted,  \* keys inserted by transactions that are still running
    gone,         \* keys whose transaction rolled back
    walking,      \* the client has a page to ask for
    cursor,       \* the cursor it will send
    shown,        \* everything the pages of this walk have shown, in order
    atStart       \* history: companies visible when the walk started

walkVars == <<committed, uncommitted, gone, walking, cursor, shown, atStart>>
rowVars == <<committed, uncommitted, gone>>

WalkTypeOK ==
    /\ committed \subseteq Ids
    /\ uncommitted \subseteq Ids
    /\ gone \subseteq Ids
    /\ walking \in BOOLEAN
    /\ cursor \in Ids \cup {NoCursor}
    /\ shown \in Seq(Ids) /\ Len(shown) <= Cardinality(Ids)
    /\ atStart \subseteq Ids

WalkInit ==
    /\ committed = {}
    /\ uncommitted = {}
    /\ gone = {}
    /\ walking = FALSE
    /\ cursor = NoCursor
    /\ shown = <<>>
    /\ atStart = {}

----------------------------------------------------------------------------
Add(k) ==
    /\ k \notin committed \cup uncommitted \cup gone
    /\ \A c \in committed : c < k
    /\ uncommitted' = uncommitted \cup {k}
    /\ UNCHANGED <<committed, gone, walking, cursor, shown, atStart>>

End(k) ==
    /\ k \in uncommitted
    /\ uncommitted' = uncommitted \ {k}
    /\ \/ committed' = committed \cup {k} /\ UNCHANGED gone
       \/ gone' = gone \cup {k} /\ UNCHANGED committed
    /\ UNCHANGED <<walking, cursor, shown, atStart>>

\* The request without a cursor.
StartWalk ==
    /\ ~walking
    /\ walking' = TRUE
    /\ cursor' = NoCursor
    /\ shown' = <<>>
    /\ atStart' = committed
    /\ UNCHANGED rowVars

\* Fault: "companyId" >= cursor.
From(c) == {k \in committed : c = NoCursor \/ k >= c}

\* WHERE "companyId" > cursor, when there is one.
After(c) == {k \in committed : c = NoCursor \/ k > c}

Take(s, n) == SubSeq(s, 1, IF n < Len(s) THEN n ELSE Len(s))

\* Fault: LIMIT limit.
FetchedExact(c) == Take(Ascending(After(c)), Limit)

\* ORDER BY "companyId" LIMIT limit + 1: one row more is read
\* to know whether there is a next page.
Fetched(c) == Take(Ascending(After(c)), Limit + 1)
Items(c) == Take(Fetched(c), Limit)

\* The last page has no next cursor, which ends the walk.
Page ==
    LET items == Items(cursor)
        more == Len(Fetched(cursor)) > Limit
    IN  /\ walking
        /\ shown' = shown \o items
        /\ walking' = more
        /\ cursor' = IF more THEN items[Len(items)] ELSE NoCursor
        /\ UNCHANGED <<rowVars, atStart>>

WalkNext == StartWalk \/ Page \/ \E k \in Ids : Add(k) \/ End(k)

WalkSpec == WalkInit /\ [][WalkNext]_walkVars

----------------------------------------------------------------------------
(* Properties.                                                             *)

\* Across the pages of a walk every company appears at most once and the
\* keys increase, although companies become visible between the pages.
ListedInOrder ==
    \A i, j \in DOMAIN shown : i < j => shown[i] < shown[j]

\* A walk that has ended showed every company that was visible when it
\* started; a company that commits meanwhile may be missed.
WalkIsComplete ==
    ~walking => atStart \subseteq {shown[i] : i \in DOMAIN shown}
=============================================================================
