-------------------------------- MODULE Paging --------------------------------
(***************************************************************************)
(* Reading a collection page by page: a client asks for a page, the server *)
(* declares a cursor with LIMIT $top + 1 OFFSET $skip, fetches it chunk by *)
(* chunk while the response streams, drops the row beyond $top and links   *)
(* to the next page; the client follows the link until there is none.      *)
(* Writers add and delete entities between the statements.  Ids come from a *)
(* sequence when the insert runs and become visible at its commit.         *)
(*                                                                         *)
(*   src/api/app/v1/endpoints/read/read.py  asyncpg_stream_results         *)
(*   src/api/app/sta2rest/visitors.py       visit_QueryNode (the statement) *)
(*   src/api/app/utils/utils.py             build_nextLink                 *)
(***************************************************************************)
EXTENDS Naturals, FiniteSets, SequencesExt

CONSTANTS
    MaxId,          \* ids the sequence can allocate: 1 .. MaxId
    Initial,        \* the ids stored when the walk starts
    Tops,           \* the values of $top
    Chunk,          \* PARTITION_CHUNK
    OrderKey,       \* the value of the $orderby property of an id
    MaxDeletes,     \* bound on the deletions
    MaxBreaks       \* bound on the responses lost while they stream

ASSUME PagingAssumption ==
    /\ MaxId \in Nat /\ Chunk \in Nat \ {0} /\ Tops \subseteq Nat
    /\ MaxDeletes \in Nat /\ MaxBreaks \in Nat
    /\ Initial \subseteq 1 .. MaxId
    /\ OrderKey \in [1 .. MaxId -> Nat]

VARIABLES
    stored,         \* ids of the committed rows
    open,           \* ids allocated by inserts that have not committed
    serial,         \* the last id of the sequence
    walk,           \* the client: [top, skip, seen, linked]
    page,           \* the response: [open, rows, total, sent]
    past            \* history: [stayed, removed, late, deletes, breaks]

pagingVars == <<stored, open, serial, walk, page, past>>

Id == 1 .. MaxId

\* What the client has or will have once the declared cursor is read.
Delivered == ToSet(walk.seen) \cup ToSet(page.sent)
             \cup {page.rows[k] : k \in {j \in DOMAIN page.rows :
                                           Len(page.sent) + j <= walk.top}}

Before(i, j) == OrderKey[i] < OrderKey[j] \/ (OrderKey[i] = OrderKey[j] /\ i < j)
Behind(i) == \E j \in Delivered : i = j \/ Before(i, j)

NoPage == [open |-> FALSE, rows |-> << >>, total |-> 0, sent |-> << >>]

PagingInit ==
    /\ stored = Initial /\ open = {}
    /\ serial = Max(Initial \cup {0})
    /\ \E t \in Tops : walk = [top |-> t, skip |-> 0, seen |-> << >>, linked |-> TRUE]
    /\ page = NoPage
    /\ past = [stayed |-> Initial, removed |-> 0, late |-> 0, deletes |-> 0,
               breaks |-> 0]

-----------------------------------------------------------------------------
(* The writers *)

Allocate ==
    /\ serial < MaxId
    /\ serial' = serial + 1
    /\ open' = open \cup {serial + 1}
    /\ UNCHANGED <<stored, walk, page, past>>

CommitInsert == \E i \in open :
    /\ stored' = stored \cup {i} /\ open' = open \ {i}
    /\ past' = [past EXCEPT !.late = @ + (IF Behind(i) THEN 1 ELSE 0)]
    /\ UNCHANGED <<serial, walk, page>>

Delete == \E i \in stored :
    /\ past.deletes < MaxDeletes
    /\ stored' = stored \ {i}
    /\ past' = [past EXCEPT !.stayed = @ \ {i}, !.deletes = @ + 1,
                            !.removed = @ + (IF Behind(i) THEN 1 ELSE 0)]
    /\ UNCHANGED <<open, serial, walk, page>>

-----------------------------------------------------------------------------
(* The server.  A count ($count=true) is a statement before the cursor and *)
(* changes nothing; the cursor keeps the snapshot it was declared with.    *)

\* The orders PostgreSQL may return: ties of the $orderby value in any order.
Sorted == {s \in SetToSeqs(stored) :
             \A j, k \in DOMAIN s : j < k => OrderKey[s[j]] <= OrderKey[s[k]]}

\* LIMIT $top + 1 OFFSET $skip
Limited(s) == SubSeq(s, walk.skip + 1,
                     IF walk.skip + walk.top + 1 < Len(s) THEN walk.skip + walk.top + 1
                                                          ELSE Len(s))

Declare ==
    /\ ~page.open /\ walk.linked
    /\ \E s \in Sorted : page' = [page EXCEPT !.open = TRUE, !.rows = Limited(s)]
    /\ UNCHANGED <<stored, open, serial, walk, past>>

\* The rows of a partition that go out: the last of $top + 1 rows only says
\* that there is another page.
Kept(partition, total) ==
    IF total >= walk.top + 1 THEN Front(partition) ELSE partition

Fetch ==
    /\ page.open /\ page.rows # << >>
    /\ LET n == IF Len(page.rows) < Chunk THEN Len(page.rows) ELSE Chunk
           partition == SubSeq(page.rows, 1, n)
           total == page.total + n
       IN  page' = [page EXCEPT !.rows = SubSeq(@, n + 1, Len(@)), !.total = total,
                                !.sent = @ \o Kept(partition, total)]
    /\ UNCHANGED <<stored, open, serial, walk, past>>

\* Mutant: the link skips the row that was dropped too.
NextSkipPastExtra(total) == walk.skip + total

\* build_nextLink is called when all $top + 1 rows came.
Linked(total) == total >= walk.top + 1 /\ walk.top < total
NextSkip(total) == walk.skip + walk.top

\* The cursor is exhausted; without any row the answer is an empty list.
Ended == page.open /\ page.rows = << >>

Close ==
    /\ Ended
    /\ walk' = [walk EXCEPT !.seen = @ \o page.sent, !.linked = Linked(page.total),
                            !.skip = IF Linked(page.total) THEN NextSkip(page.total) ELSE @]
    /\ page' = NoPage
    /\ UNCHANGED <<stored, open, serial, past>>

\* The connection ends while the response streams: the client drops the
\* truncated page and asks for it again.
Break ==
    /\ page.open /\ past.breaks < MaxBreaks
    /\ page' = NoPage
    /\ past' = [past EXCEPT !.breaks = @ + 1]
    /\ UNCHANGED <<stored, open, serial, walk>>

Serve == Declare \/ Fetch \/ Close

PagingNext == Allocate \/ CommitInsert \/ Delete \/ Serve \/ Break

PagingSpec == PagingInit /\ [][PagingNext]_pagingVars

-----------------------------------------------------------------------------
(* Properties *)

PagingTypeOK ==
    /\ stored \subseteq Id /\ open \subseteq Id /\ stored \cap open = {}
    /\ serial \in 0 .. MaxId
    /\ walk.top \in Tops /\ walk.skip \in Nat /\ walk.seen \in Seq(Id) /\ walk.linked \in BOOLEAN
    /\ page.open \in BOOLEAN
    /\ page.total + Len(page.rows) <= walk.top + 1
    /\ Len(page.sent) <= walk.top
    /\ past.stayed \subseteq stored

\* The walk is over: the last page carried no link (with $top=0 every page of a collection
\* that has rows links to itself).
Walked == ~walk.linked /\ walk.top > 0

\* No two ids share the value of the $orderby property, as when it is the id: PostgreSQL is
\* told one order only.
Untied == \A i, j \in Id : OrderKey[i] = OrderKey[j] => i = j

Missed == past.stayed \ ToSet(walk.seen)
Repeated == Len(walk.seen) - Cardinality(ToSet(walk.seen))

\* A walk loses at most one entity for each one deleted behind it and repeats
\* at most one for each one that commits behind it (an insert with an earlier
\* id that commits late); without those it returns each entity that was there
\* all along exactly once, whatever is written ahead of it and however often
\* a page is asked again.
WalkMissesOnlyDeletions == Walked =>
    /\ Cardinality(Missed) <= past.removed
    /\ Repeated <= past.late

=============================================================================
