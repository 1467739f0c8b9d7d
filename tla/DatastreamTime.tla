--------------------------- MODULE DatastreamTime ---------------------------
(***************************************************************************)
(* The phenomenonTime of a Datastream: the range of the phenomenon times   *)
(* of its Observations, kept in a column that every insert, PATCH and      *)
(* DELETE of an Observation updates, and that clients may set themselves.  *)
(* (resultTime is kept by the same statements in the same way.)            *)
(*                                                                         *)
(* An insert or a PATCH widens the range in one statement, from the value  *)
(* the row has when it is locked.  A DELETE computes the new bounds first, *)
(* from what is committed when its statement starts, then waits for the    *)
(* row and overwrites it.  A request is one READ COMMITTED transaction.    *)
(*                                                                         *)
(* A DELETE of several Observations looks for their ids in one statement   *)
(* and removes the rows of these ids in a later one.                       *)
(***************************************************************************)
EXTENDS Naturals, FiniteSets, FiniteSetsExt

CONSTANTS
    Req,         \* requests; the Observation that request r inserts is named r
    Kinds,       \* the kinds of request that arrive
    Datastream,
    Time,        \* instants, a set of numbers
    MaxOpen,     \* bound: requests open at once
    NoReq, NoRow, NoRange

AllKinds == {"post", "change", "link", "delete", "filtered", "force", "replace"}

ASSUME KindsAssumption == Kinds \subseteq AllKinds
ASSUME TimeAssumption == Time \subseteq Nat /\ IsFiniteSet(Time)
ASSUME MaxOpenAssumption == MaxOpen \in Nat \ {0}
ASSUME NoReqAssumption == NoReq \notin Req

Period == {g \in [lo : Time, hi : Time] : g.lo <= g.hi}

\* at: how often the row was re-created to move it to another partition.
ObsRow == [ds : Datastream, g : Period, at : Nat]

ASSUME NoRangeAssumption == NoRange \notin Period
ASSUME NoRowAssumption == NoRow \notin ObsRow

VARIABLES
    obs,      \* obs[o]: the committed row of Observation o, or NoRow
    obsLock,  \* obsLock[o]: the open request that wrote the row
    obsWork,  \* obsWork[o]: the row as that request sees it
    time,     \* time[d]: the committed phenomenonTime of d, or NoRange
    timeLock, timeWork,
    req,      \* req[r]: what request r is doing
    alone     \* history: no two requests were ever open at once

vars == <<obs, obsLock, obsWork, time, timeLock, timeWork, req, alone>>

Ended == {"done", "cancelled"}
Steps == {"idle", "set", "look", "start", "write", "measure", "replace", "insert", "widen", "commit"}
            \union Ended

\* ds, g: the Datastream and the time at hand; todo: Observations to write, in the
\* version seen (at); old: the time of the one deleted; next: the bounds computed;
\* stale: Datastreams to recompute; here: the one being recomputed.
Request ==
    [kind : AllKinds, pc : Steps, ds : Datastream \union {NoRow},
     g : Period \union {NoRange}, todo : SUBSET (Req \X Nat),
     old : Period \union {NoRange}, next : Period \union {NoRange},
     stale : SUBSET Datastream, here : Datastream \union {NoRow}]

TypeOK ==
    /\ obs \in [Req -> ObsRow \union {NoRow}]
    /\ obsWork \in [Req -> ObsRow \union {NoRow}]
    /\ obsLock \in [Req -> Req \union {NoReq}]
    /\ time \in [Datastream -> Period \union {NoRange}]
    /\ timeWork \in [Datastream -> Period \union {NoRange}]
    /\ timeLock \in [Datastream -> Req \union {NoReq}]
    /\ req \in [Req -> Request]
    /\ alone \in BOOLEAN

Idle == [kind |-> "post", pc |-> "idle", ds |-> NoRow, g |-> NoRange, todo |-> {},
         old |-> NoRange, next |-> NoRange, stale |-> {}, here |-> NoRow]

Init ==
    /\ obs = [o \in Req |-> NoRow] /\ obsWork = obs
    /\ obsLock = [o \in Req |-> NoReq]
    /\ time = [d \in Datastream |-> NoRange] /\ timeWork = time
    /\ timeLock = [d \in Datastream |-> NoReq]
    /\ req = [r \in Req |-> Idle]
    /\ alone = TRUE

-----------------------------------------------------------------------------
(* Ranges and what a statement of r sees.                                  *)

Lower(g) == g.lo
Upper(g) == g.hi
Covers(g, h) == g # NoRange /\ g.lo <= h.lo /\ h.hi <= g.hi

\* LEAST and GREATEST ignore a bound that is NULL.
Widen(g, h) ==
    IF g = NoRange THEN h
    ELSE [lo |-> Min({g.lo, h.lo}), hi |-> Max({g.hi, h.hi})]

Hull(gs) ==
    IF gs = {} THEN NoRange
    ELSE [lo |-> Min({Lower(g) : g \in gs}), hi |-> Max({Upper(g) : g \in gs})]

SeenObs(r, o) == IF obsLock[o] = r THEN obsWork[o] ELSE obs[o]
SeenTime(r, d) == IF timeLock[d] = r THEN timeWork[d] ELSE time[d]

\* The times of the Observations of d.
Times(r, d) ==
    {SeenObs(r, o).g : o \in {p \in Req : SeenObs(r, p) # NoRow /\ SeenObs(r, p).ds = d}}

Open == {r \in Req : req[r].pc \notin Ended \union {"idle"}}

-----------------------------------------------------------------------------
(* Steps.                                                                  *)

ObsUnchanged == UNCHANGED <<obs, obsLock, obsWork>>
TimeUnchanged == UNCHANGED <<time, timeLock, timeWork>>

WriteObs(r, o, row) ==
    /\ obsLock' = [obsLock EXCEPT ![o] = r]
    /\ obsWork' = [obsWork EXCEPT ![o] = row]
    /\ UNCHANGED obs

WriteTime(r, d, g) ==
    /\ timeLock[d] \in {NoReq, r}
    /\ timeLock' = [timeLock EXCEPT ![d] = r]
    /\ timeWork' = [timeWork EXCEPT ![d] = g]
    /\ UNCHANGED time

\* A request arrives.  post inserts an Observation; change gives one another time
\* (PATCH, PUT); link moves one to another Datastream (PATCH of either); delete removes
\* one; filtered removes those whose time is in g; force is a BulkObservations insert
\* that first removes those in the time inserted; replace is a PUT or a PATCH of the
\* Datastream that sets the range, or (a PUT without one) resets it.
Begin(r) ==
    /\ req[r].pc = "idle"
    /\ Cardinality(Open) < MaxOpen
    /\ \E kind \in Kinds :
         \E d \in IF kind \in {"post", "link", "force", "replace"} THEN Datastream ELSE {NoRow},
            g \in CASE kind \in {"delete", "link"} -> {NoRange}
                   [] kind = "replace" -> Period \union {NoRange}
                   [] OTHER -> Period :
           req' = [req EXCEPT ![r] =
                     [Idle EXCEPT !.kind = kind, !.ds = d, !.g = g,
                                  !.pc = CASE kind = "post" -> "insert"
                                           [] kind = "replace" -> "set"
                                           [] OTHER -> "look"]]
    /\ alone' = (alone /\ Open = {})
    /\ ObsUnchanged /\ TimeUnchanged

\* The rows the statement of r is about: one the client names, or a set.
Named(r) ==
    LET q == req[r]
        rows == {o \in Req : obs[o] # NoRow} IN
    CASE q.kind = "filtered" -> {{o \in rows : Covers(q.g, obs[o].g)}}
      [] q.kind = "force" -> {{o \in rows : obs[o].ds = q.ds /\ Covers(q.g, obs[o].g)}}
      [] OTHER -> {{o} : o \in rows}

\* The statement starts: it finds its rows among the committed ones.
Look(r) ==
    /\ req[r].pc = "look"
    /\ \E s \in Named(r) :
         req' = [req EXCEPT
           ![r].pc = IF req[r].kind \in {"filtered", "force"} THEN "start" ELSE "write",
           ![r].todo = {<<o, obs[o].at>> : o \in s}]
    /\ ObsUnchanged /\ TimeUnchanged

\* delete_observations_by_ids: of the rows found only the ids are known by now.
Start(r) ==
    /\ req[r].pc = "start"
    /\ req' = [req EXCEPT
         ![r].pc = "write",
         ![r].todo = {<<o, obs[o].at>> : o \in {p[1] : p \in {q \in @ : obs[q[1]] # NoRow}}}]
    /\ ObsUnchanged /\ TimeUnchanged

\* What the statement makes of a row: DELETE, UPDATE in place, or relocate_observation
\* (DELETE and INSERT of the same id).
Changed(r, row) ==
    CASE req[r].kind = "change" -> [row EXCEPT !.g = req[r].g, !.at = @ + 1]
      [] req[r].kind = "link" -> [row EXCEPT !.ds = req[r].ds]
      [] OTHER -> NoRow

WriteReviving(r) ==
    /\ req[r].pc = "write"
    /\ \E p \in req[r].todo :
         LET o == p[1]
             row == IF req[r].kind = "change" /\ SeenObs(r, o) = NoRow
                    THEN [ds |-> CHOOSE d \in Datastream : TRUE, g |-> req[r].g, at |-> p[2]]
                    ELSE SeenObs(r, o)
             same == row # NoRow /\ row.at = p[2] IN
         /\ obsLock[o] \in {NoReq, r}
         /\ IF same THEN WriteObs(r, o, Changed(r, row)) ELSE ObsUnchanged
         /\ req' = [req EXCEPT
              ![r].todo = @ \ {p},
              ![r].old = IF same THEN row.g ELSE @,
              ![r].ds = IF same /\ req[r].kind = "change" THEN row.ds ELSE @,
              ![r].stale = IF same THEN @ \union {row.ds} ELSE @]
    /\ TimeUnchanged

\* ... and writes each row once no other open request has.  A row that was deleted
\* meanwhile, or re-created elsewhere, is passed over.
Write(r) ==
    /\ req[r].pc = "write"
    /\ \E p \in req[r].todo :
         LET o == p[1]
             row == SeenObs(r, o)
             same == row # NoRow /\ row.at = p[2] IN
         /\ obsLock[o] \in {NoReq, r}
         /\ IF same THEN WriteObs(r, o, Changed(r, row)) ELSE ObsUnchanged
         /\ req' = [req EXCEPT
              ![r].todo = @ \ {p},
              ![r].old = IF same THEN row.g ELSE @,
              ![r].ds = IF same /\ req[r].kind = "change" THEN row.ds ELSE @,
              ![r].stale = IF same THEN @ \union {row.ds} ELSE @]
    /\ TimeUnchanged

\* All rows are written.
Written(r) ==
    LET q == req[r] IN
    /\ q.pc = "write" /\ q.todo = {}
    /\ req' = [req EXCEPT ![r].pc =
         IF q.stale = {} \/ q.kind = "link" THEN IF q.kind = "force" THEN "insert" ELSE "commit"
         ELSE IF q.kind = "change" THEN "widen" ELSE "measure"]
    /\ ObsUnchanged /\ TimeUnchanged

Insert(r) ==
    /\ req[r].pc = "insert"
    /\ WriteObs(r, r, [ds |-> req[r].ds, g |-> req[r].g, at |-> 0])
    /\ req' = [req EXCEPT ![r].pc = "widen"]
    /\ TimeUnchanged

\* update_datastream_entity: the column is overwritten, whatever the row holds.
SetTime(r) ==
    /\ req[r].pc = "set"
    /\ WriteTime(r, req[r].ds, req[r].g)
    /\ req' = [req EXCEPT ![r].pc = "commit"]
    /\ ObsUnchanged

ReadThenWidenTime(r) ==
    LET d == req[r].ds IN
    /\ req[r].pc = "widen"
    /\ IF req[r].next = NoRange
       THEN /\ req' = [req EXCEPT ![r].next = Widen(SeenTime(r, d), req[r].g)]
            /\ TimeUnchanged
       ELSE /\ WriteTime(r, d, req[r].next)
            /\ req' = [req EXCEPT ![r].pc = "commit"]
    /\ ObsUnchanged

\* update_datastream_time_ranges: one statement, on the row as it is once free.
WidenTime(r) ==
    LET d == req[r].ds IN
    /\ req[r].pc = "widen"
    /\ WriteTime(r, d, Widen(SeenTime(r, d), req[r].g))
    /\ req' = [req EXCEPT ![r].pc = "commit"]
    /\ ObsUnchanged

NextBoundsUpperKept(g, old, gs) ==
    IF g = NoRange \/ (gs = {} /\ (g.lo = old.lo \/ g.hi = old.hi)) THEN NoRange
    ELSE [lo |-> IF g.lo = old.lo THEN Hull(gs).lo ELSE g.lo, hi |-> g.hi]

\* update_datastream_phenomenon_time: a bound that is the one of the deleted
\* Observation is looked up again, the other one is kept.
NextBounds(g, old, gs) ==
    IF g = NoRange \/ (gs = {} /\ (g.lo = old.lo \/ g.hi = old.hi)) THEN NoRange
    ELSE [lo |-> IF g.lo = old.lo THEN Hull(gs).lo ELSE g.lo,
          hi |-> IF g.hi = old.hi THEN Hull(gs).hi ELSE g.hi]

\* The range of d that a DELETE leaves; one of several Observations takes the bounds
\* of what is left.
Remeasured(r, d) ==
    IF req[r].kind = "delete"
    THEN NextBounds(SeenTime(r, d), req[r].old, Times(r, d))
    ELSE Hull(Times(r, d))

\* The statement that recomputes the range starts.  tstzrange refuses a lower bound
\* above the upper one (a client may have set any range): that request fails.
Measure(r) ==
    LET q == req[r] IN
    /\ q.pc = "measure"
    /\ \E d \in q.stale :
         /\ Remeasured(r, d) \in Period \union {NoRange}
         /\ req' = [req EXCEPT
              ![r].pc = "replace",
              ![r].stale = @ \ {d},
              ![r].here = d,
              ![r].next = Remeasured(r, d)]
    /\ ObsUnchanged /\ TimeUnchanged

\* ... and writes it once the row is free.
Replace(r) ==
    LET q == req[r] IN
    /\ q.pc = "replace"
    /\ WriteTime(r, q.here, q.next)
    /\ req' = [req EXCEPT ![r].pc = IF q.stale # {} THEN "measure"
                                    ELSE IF q.kind = "force" THEN "insert" ELSE "commit"]
    /\ ObsUnchanged

-----------------------------------------------------------------------------
(* The end of a transaction.                                               *)

Finish(r, rows, times, how) ==
    /\ obs' = rows
    /\ obsLock' = [o \in Req |-> IF obsLock[o] = r THEN NoReq ELSE obsLock[o]]
    /\ obsWork' = [o \in Req |-> IF obsLock[o] = r THEN rows[o] ELSE obsWork[o]]
    /\ time' = times
    /\ timeLock' = [d \in Datastream |-> IF timeLock[d] = r THEN NoReq ELSE timeLock[d]]
    /\ timeWork' = [d \in Datastream |-> IF timeLock[d] = r THEN times[d] ELSE timeWork[d]]
    /\ req' = [req EXCEPT ![r] = [Idle EXCEPT !.kind = req[r].kind, !.pc = how]]

Commit(r) ==
    /\ req[r].pc = "commit"
    /\ Finish(r, [o \in Req |-> SeenObs(r, o)],
              [d \in Datastream |-> SeenTime(r, d)], "done")

\* An error, a deadlock or a lost connection.
Cancel(r) ==
    /\ r \in Open
    /\ Finish(r, obs, time, "cancelled")

Step(r) ==
    /\ \/ Look(r) \/ Start(r) \/ Write(r) \/ Written(r) \/ Insert(r) \/ SetTime(r) \/ WidenTime(r)
       \/ Measure(r) \/ Replace(r) \/ Commit(r) \/ Cancel(r)
    /\ UNCHANGED alone

Next == \E r \in Req : Begin(r) \/ Step(r)

Spec == Init /\ [][Next]_vars

-----------------------------------------------------------------------------
(* Properties.                                                             *)

Rows(d) == {o \in Req : obs[o] # NoRow /\ obs[o].ds = d}
Arrived == {r \in Req : req[r].pc # "idle"}
AllCovered == \A d \in Datastream : \A o \in Rows(d) : Covers(time[d], obs[o].g)

\* As long as Observations are only inserted and PATCHed, however these requests
\* interleave, the phenomenonTime of a Datastream covers the time of each of them.
TimesCovered == (\A r \in Arrived : req[r].kind \in {"post", "change"}) => AllCovered

\* When requests come one after the other, whatever they insert and delete and in
\* which order, the phenomenonTime is exactly the range of what is left.  (A PATCH
\* is left out: it widens the range for the new time and keeps the old one in it, and
\* one that links an Observation to another Datastream leaves both ranges alone.  So is
\* what a client sets.)
TimesTight ==
    alone /\ (\A r \in Arrived : req[r].kind \notin {"change", "link", "replace"}) =>
        \A d \in Datastream : time[d] = Hull({obs[o].g : o \in Rows(d)})

\* relocate_observation deletes a row and inserts it again: it never brings back an
\* Observation that another request has deleted.
NeverRevived ==
    [][\A o \in Req : req[o].pc \in Ended /\ obs[o] = NoRow => obs'[o] = NoRow]_vars

\* api/app/v1/endpoints/functions.py:163: an insert will "Widen a Datastream's
\* phenomenonTime/resultTime to cover an Observation", also when an Observation is
\* being deleted at the same time.
InsertCovered == AllCovered
=============================================================================
