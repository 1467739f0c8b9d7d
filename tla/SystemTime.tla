----------------------------- MODULE SystemTime -----------------------------
(***************************************************************************)
(* The system-time extension: every versioned table has a live row per     *)
(* entity and a history table, and one BEFORE trigger, istsos_mutate_      *)
(* history, that archives the old row on UPDATE and DELETE.  $as_of reads  *)
(* the union of both at an instant.                                        *)
(*                                                                         *)
(* A request of the API is one READ COMMITTED transaction.  The trigger    *)
(* stamps with current_timestamp, the instant at which the TRANSACTION     *)
(* started, while other transactions see the rows only once it commits.    *)
(* A row that a transaction wrote is locked until the transaction ends:    *)
(* work[i] and pending[i] hold its uncommitted row and archived versions.  *)
(***************************************************************************)
EXTENDS Naturals, FiniteSets

CONSTANTS Id,       \* entity identifiers, each handed out once by a sequence
          Val,      \* contents of the columns whose changes are versioned
          Aux,      \* contents of the columns the trigger lets change in place
          Txn,      \* write requests, each one transaction
          Instant,    \* the instants there are: a request starts at one
          NoRow, NoTxn, NoId,
          MaxPending  \* bound: versions of one entity an open request archives

Row == [val : Val, aux : Aux, from : Nat, commit : Txn]
Version == [val : Val, aux : Aux, from : Nat, upto : Nat, closed : BOOLEAN,
            commit : Txn]

ASSUME InstantAssumption == Instant \subseteq Nat
ASSUME NoRowAssumption == NoRow \notin Row
ASSUME NoTxnAssumption == NoTxn \notin Txn
ASSUME NoIdAssumption == NoId \notin Id

VARIABLES
    clock,     \* the next instant a transaction may start at
    status,    \* status[t]: "idle", "active", "committed" or "aborted"
    start,     \* start[t]: current_timestamp of t
    target,    \* target[t]: the entity istsos.delete_target names in t, or NoId
    live,      \* live[i]: the committed row of i, or NoRow
    history,   \* history[i]: the committed archived versions of i
    lock,      \* lock[i]: the transaction that wrote i and is still open
    work,      \* work[i]: the row of i as lock[i] sees it
    pending    \* pending[i]: the versions of i that lock[i] archived

vars == <<clock, status, start, target, live, history, lock, work, pending>>

TypeOK ==
    /\ clock \in Nat \ {0}
    /\ status \in [Txn -> {"idle", "active", "committed", "aborted"}]
    /\ start \in [Txn -> Nat]
    /\ target \in [Txn -> Id \union {NoId}]
    /\ live \in [Id -> Row \union {NoRow}]
    /\ history \in [Id -> SUBSET Version]
    /\ lock \in [Id -> Txn \union {NoTxn}]
    /\ work \in [Id -> Row \union {NoRow}]
    /\ pending \in [Id -> SUBSET Version]

Init ==
    /\ clock = 1
    /\ status = [t \in Txn |-> "idle"]
    /\ start = [t \in Txn |-> 0]
    /\ target = [t \in Txn |-> NoId]
    /\ live = [i \in Id |-> NoRow]
    /\ history = [i \in Id |-> {}]
    /\ lock = [i \in Id |-> NoTxn]
    /\ work = [i \in Id |-> NoRow]
    /\ pending = [i \in Id |-> {}]

-----------------------------------------------------------------------------
(* Ranges.  A version holds from its lower bound, inclusive, to its upper  *)
(* bound, exclusive unless closed: tstzrange(a, b) and tstzrange(a, b, '[]').*)

\* The old row, its range ended at s.
Archive(row, s) ==
    [val |-> row.val, aux |-> row.aux, from |-> row.from, upto |-> s,
     closed |-> FALSE, commit |-> row.commit]

TombstoneWithoutCommit(row, s, c) ==
    [val |-> row.val, aux |-> row.aux, from |-> s, upto |-> s,
     closed |-> TRUE, commit |-> NoTxn]

\* The old row reduced to the single instant s, attributed to commit c.
Tombstone(row, s, c) ==
    [val |-> row.val, aux |-> row.aux, from |-> s, upto |-> s,
     closed |-> TRUE, commit |-> c]

RangeUnchecked(row, s) == TRUE

\* tstzrange(a, b) raises when b < a, and the exception aborts the request.
RangeExists(row, s) == row.from <= s
Covers(v, x) == v.from <= x /\ (x < v.upto \/ (v.closed /\ x = v.upto))

\* The live range never ends, and exists only while there is a live row.
LiveCovers(row, x) == row # NoRow /\ row.from <= x

-----------------------------------------------------------------------------
(* Statements.  A statement of t may write i when no other open            *)
(* transaction has; otherwise it waits for that transaction and then works *)
(* on the row the other one left.                                          *)

MayWrite(t, i) == status[t] = "active" /\ lock[i] \in {NoTxn, t}
                                      /\ Cardinality(pending[i]) < MaxPending

Current(i) == IF lock[i] = NoTxn THEN live[i] ELSE work[i]

Write(t, i, row, archived) ==
    /\ lock' = [lock EXCEPT ![i] = t]
    /\ work' = [work EXCEPT ![i] = row]
    /\ pending' = [pending EXCEPT ![i] = @ \union archived]
    /\ UNCHANGED <<clock, status, start, target, live, history>>

\* BEGIN.  A DELETE request with a user names its target row, d.
Begin(t, d) ==
    /\ status[t] = "idle" /\ clock \in Instant
    /\ status' = [status EXCEPT ![t] = "active"]
    /\ start' = [start EXCEPT ![t] = clock]
    /\ target' = [target EXCEPT ![t] = d]
    /\ clock' = clock + 1
    /\ UNCHANGED <<live, history, lock, work, pending>>

Insert(t, i, v, a) ==
    /\ MayWrite(t, i) /\ target[t] = NoId
    /\ lock[i] = NoTxn /\ live[i] = NoRow /\ history[i] = {}
    /\ Write(t, i, [val |-> v, aux |-> a, from |-> start[t], commit |-> t], {})

SuccessorLate(row, v, a, s, c) ==
    [val |-> v, aux |-> a, from |-> s + 1, commit |-> c]

\* The row that replaces row at s: a statement that sets no commit_id keeps
\* the commit of the row it changes.
Successor(row, v, a, s, c) ==
    [val |-> v, aux |-> a, from |-> s, commit |-> c]

UpdateAtClock(t, i, v, c) ==
    LET row == Current(i) IN
    /\ MayWrite(t, i)
    /\ row # NoRow
    /\ v # row.val
    /\ c = row.commit \/ (c = t /\ target[t] = NoId)
    /\ RangeExists(row, clock)
    /\ Write(t, i, Successor(row, v, row.aux, clock, c), {Archive(row, clock)})

UpdateUnversioned(t, i, v, c) ==
    LET row == Current(i) IN
    /\ MayWrite(t, i)
    /\ row # NoRow
    /\ v # row.val
    /\ c = row.commit \/ (c = t /\ target[t] = NoId)
    /\ Write(t, i, [row EXCEPT !.val = v], {})

\* UPDATE of a versioned column.  Setting nothing new raises (with a commit) or
\* is skipped (without), so v differs from the current content.  A DELETE request
\* only unlinks (unlink_foi_from_location), which keeps the commit.
Update(t, i, v, c) ==
    LET row == Current(i) IN
    /\ MayWrite(t, i)
    /\ row # NoRow
    /\ v # row.val
    /\ c = row.commit \/ (c = t /\ target[t] = NoId)
    /\ RangeExists(row, start[t])
    /\ Write(t, i, Successor(row, v, row.aux, start[t], c),
             {Archive(row, start[t])})

\* UPDATE of only the columns the trigger ignores (Location.gen_foi_id set to a
\* value; phenomenonTime, resultTime, observedArea, last_foi_id of a Datastream):
\* the row changes in place, its commit too when the statement sets one.
UpdateInPlace(t, i, a, c) ==
    LET row == Current(i) IN
    /\ MayWrite(t, i)
    /\ row # NoRow
    /\ a # row.aux
    /\ c = row.commit \/ (c = t /\ target[t] = NoId)
    /\ Write(t, i, [row EXCEPT !.aux = a, !.commit = c], {})

\* The versions a DELETE by t archives: the last version and the deletion
\* itself for the target row, one version for any other row.
Deleted(t, i, row) ==
    IF target[t] = i
    THEN {Archive(row, start[t]), Tombstone(row, start[t], t)}
    ELSE IF row.from = start[t]
         THEN {Tombstone(row, start[t], row.commit)}
         ELSE {Archive(row, start[t])}

\* DELETE of a row: the target of the request, or a row a cascade reaches.
Delete(t, i) ==
    LET row == Current(i) IN
    /\ MayWrite(t, i)
    /\ row # NoRow
    /\ RangeExists(row, start[t])
    /\ Write(t, i, NoRow, Deleted(t, i, row))

\* relocate_observation: DELETE and re-INSERT of the row in one statement, to
\* move an Observation to another partition.  One request relocates a row once,
\* before it writes the row in any other way, and is not a DELETE request.
Relocate(t, i, v) ==
    LET row == Current(i) IN
    /\ MayWrite(t, i)
    /\ lock[i] = NoTxn /\ target[t] = NoId
    /\ row # NoRow
    /\ RangeExists(row, start[t])
    /\ Write(t, i, Successor(row, v, row.aux, start[t], t), Deleted(t, i, row))

-----------------------------------------------------------------------------
(* The end of a transaction.                                               *)

Held(t) == {i \in Id : lock[i] = t}

Release(t) ==
    /\ lock' = [i \in Id |-> IF i \in Held(t) THEN NoTxn ELSE lock[i]]
    /\ work' = [i \in Id |-> IF i \in Held(t) THEN NoRow ELSE work[i]]
    /\ pending' = [i \in Id |-> IF i \in Held(t) THEN {} ELSE pending[i]]

Commit(t) ==
    /\ status[t] = "active"
    /\ status' = [status EXCEPT ![t] = "committed"]
    /\ live' = [i \in Id |-> IF i \in Held(t) THEN work[i] ELSE live[i]]
    /\ history' = [i \in Id |-> IF i \in Held(t)
                                THEN history[i] \union pending[i]
                                ELSE history[i]]
    /\ Release(t)
    /\ UNCHANGED <<clock, start, target>>

\* An exception of a statement (an empty change, a range that does not exist, a
\* deadlock, an error of the handler) or a lost connection rolls t back.
Abort(t) ==
    /\ status[t] = "active"
    /\ status' = [status EXCEPT ![t] = "aborted"]
    /\ Release(t)
    /\ UNCHANGED <<clock, start, target, live, history>>

Statement(t, i) ==
    \/ \E v \in Val, a \in Aux : Insert(t, i, v, a)
    \/ \E v \in Val, c \in Txn : Update(t, i, v, c)
    \/ \E a \in Aux, c \in Txn : UpdateInPlace(t, i, a, c)
    \/ Delete(t, i)
    \/ \E v \in Val : Relocate(t, i, v)

Next ==
    \E t \in Txn :
        \/ \E d \in Id \union {NoId} : Begin(t, d)
        \/ \E i \in Id : Statement(t, i)
        \/ Commit(t)
        \/ Abort(t)

Spec == Init /\ [][Next]_vars
-----------------------------------------------------------------------------
(* What a reader sees.                                                     *)

\* The contents at instant x of an entity with archived versions h and row r:
\* what SELECT from the traveltime view (live UNION history) with
\* systemTimeValidity @> x returns.
Seen(h, r, x) ==
    {v.val : v \in {w \in h : Covers(w, x)}}
      \union (IF LiveCovers(r, x) THEN {r.val} ELSE {})

AsOf(i, x) == Seen(history[i], live[i], x)

\* The same without the one-instant versions that record deletions.
AsOfOpen(i, x) ==
    {v.val : v \in {w \in history[i] : Covers(w, x) /\ ~w.closed}}
      \union (IF LiveCovers(live[i], x) THEN {live[i].val} ELSE {})

Active == {t \in Txn : status[t] = "active"}

\* The instants before the start of every open transaction and of any to come.
Settled == {x \in Instant : x < clock /\ \A t \in Active : x < start[t]}

Overlap(v, w) == \E x \in Instant : Covers(v, x) /\ Covers(w, x)

-----------------------------------------------------------------------------
(* Properties.                                                             *)

\* Whatever the requests interleave, an instant has one version of an entity:
\* archived versions never overlap (the EXCLUDE constraint of the history table
\* never fails a request) and the live row starts after all of them.
OneVersionPerInstant ==
    \A i \in Id :
        /\ \A v, w \in history[i] : v # w => ~Overlap(v, w)
        /\ live[i] # NoRow =>
              \A v \in history[i], x \in Instant :
                  Covers(v, x) => ~LiveCovers(live[i], x)

\* Nothing is lost: from the start of the first version of an entity, though it held
\* for no time, to its live row (or to its last version, once deleted) every instant
\* has a version.
NoGap ==
    \A i \in Id : \A y, z \in Instant :
        (y < z /\ AsOf(i, z) # {} /\ \E v \in history[i] : v.from <= y) => AsOf(i, y) # {}

\* $as_of is settled before the start of every open transaction: no step of any
\* request changes what such an instant returns.
SettledAsOf ==
    [][\A i \in Id, x \in Settled : AsOf(i, x)' = AsOf(i, x)]_vars

\* The versioned tables implement the temporal store: a commit is visible at
\* every instant from the start of its transaction on, in all its entities at
\* once, and at no instant before.
Store == INSTANCE TemporalStore
           WITH asof <- [i \in Id |-> [x \in Instant |-> AsOfOpen(i, x)]],
                settled <- Settled

ImplementsTemporalStore == Store!Spec

\* docs/mkdocs/docs/system-time.md:25: the service address, the request and the
\* instant together "permanently cite a dataset", so an answer for an instant
\* that has passed never changes.
CitationIsPermanent ==
    [][\A i \in Id, x \in Instant : x < clock => AsOf(i, x)' = AsOf(i, x)]_vars
=============================================================================
