------------------------- MODULE FeatureOfInterest --------------------------
(***************************************************************************)
(* The FeatureOfInterest of an Observation posted without one.             *)
(*                                                                         *)
(* The API derives it from the Location of the Thing and remembers it in   *)
(* Location.gen_foi_id, so that later Observations link the same one.  Each *)
(* Datastream remembers the FeatureOfInterest it last met in last_foi_id   *)
(* and the union of their geometries in observedArea.  PATCH and PUT of the*)
(* Location forget the generated one, DELETE of a FeatureOfInterest unlinks*)
(* it and cascades to its Observations.                                    *)
(*                                                                         *)
(* A request is one READ COMMITTED transaction; an action is one statement *)
(* of it (or several on a row it has locked).  A statement reads what is   *)
(* committed when it starts, and waits to write a row another open         *)
(* transaction wrote.  One Location is modelled, that of all Datastreams.  *)
(***************************************************************************)
EXTENDS Naturals, FiniteSets, Sequences

CONSTANTS
    Req,          \* requests
    Kinds,        \* the kinds of request that arrive
    Datastream,   \* Datastreams of the Things at the Location
    Name,         \* names the Location is given
    MaxFoi,       \* bound: identifiers the sequence of FeaturesOfInterest has
    Given,        \* how many FeaturesOfInterest clients created beforehand
    MaxSets,      \* bound: Datastreams one BulkObservations request names
    UniqueNames,  \* the UNIQUE constraints on names exist (DUPLICATES = 0)
    NoReq, NoName, NoObs

Foi == 1 .. MaxFoi
NoFoi == 0
AllKinds == {"post", "explicit", "bulk", "move", "delete", "reshape", "remove"}

ASSUME KindsAssumption == Kinds \subseteq AllKinds
ASSUME GivenAssumption == MaxFoi \in Nat /\ Given \in 0 .. MaxFoi
ASSUME MaxSetsAssumption == MaxSets \in Nat \ {0}
ASSUME UniqueNamesAssumption == UniqueNames \in BOOLEAN
ASSUME NoReqAssumption == NoReq \notin Req
ASSUME NoNameAssumption == NoName \notin Name

VARIABLES
    loc,      \* the Location row: gen (its gen_foi_id) and name
    locLock,  \* the open request that wrote or locked it
    locWork,  \* the row as that request sees it
    ds,       \* ds[d]: the Datastream row: last (last_foi_id) and area
    dsLock, dsWork,
    foi,      \* foi[f]: the FeatureOfInterest row, or NoRow
    issued,   \* identifiers handed out, also to requests that rolled back
    obs,      \* the Observations
    req       \* req[r]: what request r is doing and has not committed

vars == <<loc, locLock, locWork, ds, dsLock, dsWork, foi, issued, obs, req>>

\* A geometry is a FeatureOfInterest and whether it was reshaped (0 or 1).
Area == SUBSET (Foi \X {0, 1})
LocationRow == [gen : Foi \union {NoFoi}, name : Name]
DatastreamRow == [last : Foi \union {NoFoi}, area : Area]
NoRow == [name |-> NoName, shape |-> 0]
FoiRow == [name : Name \union {NoName} \union (1 .. Given), shape : {0, 1}]
Observation == [by : Req, ds : Datastream, foi : Foi]
Ended == {"done", "failed", "cancelled"}
Steps == {"idle", "read", "lock", "create", "stamp", "reuse", "compare", "last",
          "insert", "extent", "move", "records", "measure", "write", "unlink",
          "drop", "reshape", "erase", "commit"} \union Ended

\* foi: the FeatureOfInterest at hand; name: the Location name read; made: the one
\* created; hold: those deleted or changed; mine: Observations inserted; target:
\* the one to delete; gone: those deleted; todo: Datastreams to refresh; hull: the
\* area computed for the one being refreshed.
Request ==
    [kind : AllKinds, pc : Steps, sets : UNION {[1 .. n -> Datastream] : n \in 0 .. MaxSets},
     foi : Foi \union {NoFoi}, name : Name \union {NoName},
     made : Foi \union {NoFoi}, hold : SUBSET Foi, mine : SUBSET Observation,
     target : Observation \union {NoObs}, gone : SUBSET Observation,
     todo : SUBSET Datastream, hull : Area]

TypeOK ==
    /\ loc \in LocationRow /\ locWork \in LocationRow
    /\ locLock \in Req \union {NoReq}
    /\ ds \in [Datastream -> DatastreamRow] /\ dsWork \in [Datastream -> DatastreamRow]
    /\ dsLock \in [Datastream -> Req \union {NoReq}]
    /\ foi \in [Foi -> FoiRow]
    /\ issued \in 0 .. MaxFoi
    /\ obs \subseteq Observation
    /\ req \in [Req -> Request]

\* FeaturesOfInterest 1 .. Given have been created by clients, under their own names.
Init ==
    /\ \E n \in Name : loc = [gen |-> NoFoi, name |-> n]
    /\ locLock = NoReq /\ locWork = loc
    /\ ds = [d \in Datastream |-> [last |-> NoFoi, area |-> {}]]
    /\ dsLock = [d \in Datastream |-> NoReq] /\ dsWork = ds
    /\ foi = [f \in Foi |-> IF f <= Given THEN [name |-> f, shape |-> 0] ELSE NoRow]
    /\ issued = Given
    /\ obs = {}
    /\ req = [r \in Req |->
                [kind |-> "post", pc |-> "idle", sets |-> <<>>, foi |-> NoFoi,
                 name |-> NoName, made |-> NoFoi, hold |-> {}, mine |-> {},
                 target |-> NoObs, gone |-> {}, todo |-> {}, hull |-> {}]]

Exists(f) == f # NoFoi /\ foi[f] # NoRow

-----------------------------------------------------------------------------
(* What a statement of r sees: its own writes over the committed rows.     *)

SeenLoc(r) == IF locLock = r THEN locWork ELSE loc
SeenDs(r, d) == IF dsLock[d] = r THEN dsWork[d] ELSE ds[d]
SeenObs(r) == (obs \union req[r].mine) \ req[r].gone

Geometry(r, f) ==
    IF f = req[r].made /\ f # NoFoi THEN {<<f, 0>>}
    ELSE IF Exists(f) THEN {<<f, foi[f].shape>>} ELSE {}

\* The Datastream request r is at.
At(r) == Head(req[r].sets)

-----------------------------------------------------------------------------
(* Locks.  Blockers(r) are the open requests the next statement of r waits  *)
(* for; PostgreSQL ends a cycle of waits by rolling one of them back.      *)

Others(r) == Req \ {r}
Holders(r, x) == {x} \ {r, NoReq}
Deleting(f) == {x \in Req : req[x].kind = "delete" /\ f \in req[x].hold}
NamedBy(x) == IF req[x].made # NoFoi THEN {req[x].name} ELSE {}

Blockers(r) ==
    LET q == req[r] IN
    CASE q.pc \in {"lock", "stamp", "move"} -> Holders(r, locLock)
      [] q.pc = "unlink" ->
           IF loc.gen = q.foi THEN Holders(r, locLock) ELSE {}
      [] q.pc \in {"last", "extent", "write"} -> Holders(r, dsLock[At(r)])
      [] q.pc = "create" ->
           IF UniqueNames
           THEN {x \in Others(r) :
                    \/ q.name \in NamedBy(x)
                    \/ req[x].kind = "delete" /\ \E f \in req[x].hold : foi[f].name = q.name}
           ELSE {}
      [] q.pc = "insert" -> Deleting(q.foi) \ {r}
      [] q.pc = "reshape" -> {x \in Others(r) : q.foi \in req[x].hold}
      [] q.pc = "drop" ->
           {x \in Others(r) : \/ q.foi \in req[x].hold
                              \/ \E o \in req[x].mine \union req[x].gone : o.foi = q.foi}
      [] q.pc = "erase" ->
           {x \in Others(r) : q.target \in req[x].gone} \union Deleting(q.target.foi)
      [] OTHER -> {}

Free(r) == Blockers(r) = {}

DeadlockUndetected(r) == FALSE

\* r waits for a request that waits for one that ... waits for r.
OnCycle(r) ==
    \E n \in 1 .. Cardinality(Req) : \E c \in [1 .. n -> Req] :
        c[1] = r /\ \A i \in 1 .. n : c[IF i = n THEN 1 ELSE i + 1] \in Blockers(c[i])

Deadlocked(r) == (\E x \in Blockers(r) : ~Free(x)) /\ OnCycle(r)

-----------------------------------------------------------------------------
(* Steps.                                                                  *)

\* r goes on to the statement next; the rows are as given.
Go(r, next) == req' = [req EXCEPT ![r].pc = next]

RowsUnchanged == UNCHANGED <<loc, locLock, locWork, ds, dsLock, dsWork>>
DataUnchanged == UNCHANGED <<foi, issued, obs>>

WriteLoc(r, row) ==
    /\ locLock' = r /\ locWork' = row
    /\ UNCHANGED <<loc, ds, dsLock, dsWork>>

WriteDs(r, d, row) ==
    /\ dsLock' = [dsLock EXCEPT ![d] = r]
    /\ dsWork' = [dsWork EXCEPT ![d] = row]
    /\ UNCHANGED <<ds, loc, locLock, locWork>>

\* A request arrives and its transaction begins.  The FeatureOfInterest or the
\* Observation a client names is one that has been committed.
Begin(r) ==
    /\ req[r].pc = "idle"
    /\ \/ /\ "post" \in Kinds
          /\ \E d \in Datastream :
               req' = [req EXCEPT ![r].pc = "read", ![r].sets = <<d>>]
       \/ /\ "explicit" \in Kinds
          /\ \E d \in Datastream, f \in Foi :
               /\ Exists(f)
               /\ req' = [req EXCEPT ![r].kind = "explicit", ![r].pc = "compare",
                                     ![r].sets = <<d>>, ![r].foi = f]
       \/ /\ "bulk" \in Kinds
          /\ \E n \in 1 .. MaxSets : \E s \in [1 .. n -> Datastream] :
               req' = [req EXCEPT ![r].kind = "bulk", ![r].pc = "read", ![r].sets = s]
       \/ /\ "move" \in Kinds
          /\ req' = [req EXCEPT ![r].kind = "move", ![r].pc = "move"]
       \/ \E f \in Foi :
            /\ Exists(f)
            /\ \/ /\ "delete" \in Kinds
                  /\ req' = [req EXCEPT ![r].kind = "delete", ![r].pc = "records",
                                        ![r].foi = f]
               \/ /\ "reshape" \in Kinds /\ foi[f].shape = 0
                  /\ req' = [req EXCEPT ![r].kind = "reshape", ![r].pc = "reshape",
                                        ![r].foi = f]
       \/ /\ "remove" \in Kinds
          /\ \E o \in obs :
               req' = [req EXCEPT ![r].kind = "remove", ![r].pc = "erase",
                                  ![r].target = o, ![r].sets = <<o.ds>>]
    /\ RowsUnchanged /\ DataUnchanged

\* Generation, first statement: the Location as committed.
Read(r) ==
    LET row == SeenLoc(r) IN
    /\ req[r].pc = "read"
    /\ req' = [req EXCEPT
         ![r].name = row.name,
         ![r].foi = row.gen,
         ![r].pc = IF row.gen # NoFoi THEN "reuse"
                   ELSE IF req[r].kind = "bulk" THEN "create" ELSE "lock"]
    /\ RowsUnchanged /\ DataUnchanged

LockStale(r) ==
    /\ req[r].pc = "lock" /\ Free(r)
    /\ WriteLoc(r, SeenLoc(r))
    /\ Go(r, "create")
    /\ DataUnchanged

\* SELECT ... FOR UPDATE OF l: wait for the row, then read it again.
Lock(r) ==
    LET row == SeenLoc(r) IN
    /\ req[r].pc = "lock" /\ Free(r)
    /\ WriteLoc(r, row)
    /\ req' = [req EXCEPT
         ![r].name = row.name,
         ![r].foi = row.gen,
         ![r].pc = IF row.gen # NoFoi THEN "reuse" ELSE "create"]
    /\ DataUnchanged

NameTaken(n) == UniqueNames /\ \E f \in Foi : foi[f].name = n

CreateDrawingTwice(r) ==
    /\ req[r].pc = "create" /\ Free(r)
    /\ ~NameTaken(req[r].name)
    /\ issued < MaxFoi
    /\ issued' = issued + 2
    /\ req' = [req EXCEPT ![r].pc = "stamp", ![r].foi = issued + 2,
                          ![r].made = issued + 2]
    /\ RowsUnchanged /\ UNCHANGED <<foi, obs>>

CreateLockingDatastream(r) ==
    /\ req[r].pc = "create" /\ Free(r)
    /\ ~NameTaken(req[r].name)
    /\ dsLock[At(r)] \in {NoReq, r}
    /\ issued < MaxFoi
    /\ issued' = issued + 1
    /\ req' = [req EXCEPT ![r].pc = "stamp", ![r].foi = issued + 1,
                          ![r].made = issued + 1]
    /\ WriteDs(r, At(r), SeenDs(r, At(r))) /\ UNCHANGED <<foi, obs>>

\* create_entity: the FeatureOfInterest gets the name of the Location.
Create(r) ==
    /\ req[r].pc = "create" /\ Free(r)
    /\ ~NameTaken(req[r].name)
    /\ issued < MaxFoi
    /\ issued' = issued + 1
    /\ req' = [req EXCEPT ![r].pc = "stamp", ![r].foi = issued + 1,
                          ![r].made = issued + 1]
    /\ RowsUnchanged /\ UNCHANGED <<foi, obs>>

\* UPDATE "Location" SET gen_foi_id.
Stamp(r) ==
    /\ req[r].pc = "stamp" /\ Free(r)
    /\ WriteLoc(r, [SeenLoc(r) EXCEPT !.gen = req[r].foi])
    /\ Go(r, "last")
    /\ DataUnchanged

\* An existing one is reused: last_foi_id is looked at before it is written.
Reuse(r) ==
    /\ req[r].pc = "reuse"
    /\ Go(r, IF \/ SeenDs(r, At(r)).last = NoFoi
                \/ \A o \in SeenObs(r) : o.ds # At(r)
             THEN "last" ELSE "insert")
    /\ RowsUnchanged /\ DataUnchanged

\* The client names the FeatureOfInterest.
Compare(r) ==
    /\ req[r].pc = "compare"
    /\ Go(r, IF SeenDs(r, At(r)).last # req[r].foi THEN "last" ELSE "insert")
    /\ RowsUnchanged /\ DataUnchanged

WidenedAfresh(r, row) ==
    [last |-> req[r].foi, area |-> Geometry(r, req[r].foi)]

Widened(r, row) ==
    [last |-> req[r].foi, area |-> row.area \union Geometry(r, req[r].foi)]

\* update_datastream_last_foi_id, and with it the observedArea.
Last(r) ==
    /\ req[r].pc = "last" /\ Free(r)
    /\ WriteDs(r, At(r), Widened(r, SeenDs(r, At(r))))
    /\ Go(r, "insert")
    /\ DataUnchanged

\* INSERT INTO "Observation"; its foreign key waits for an open DELETE.
Insert(r) ==
    /\ req[r].pc = "insert" /\ Free(r)
    /\ Exists(req[r].foi) \/ req[r].foi = req[r].made
    /\ req' = [req EXCEPT ![r].pc = "extent",
         ![r].mine = @ \union {[by |-> r, ds |-> At(r), foi |-> req[r].foi]}]
    /\ RowsUnchanged /\ DataUnchanged

\* The time ranges of the Datastream: its row is locked.  A bulk insert widens the
\* area once more and goes on to its next Datastream.
Extent(r) ==
    LET d == At(r)
        bulk == req[r].kind = "bulk" IN
    /\ req[r].pc = "extent" /\ Free(r)
    /\ WriteDs(r, d, IF bulk THEN Widened(r, SeenDs(r, d)) ELSE SeenDs(r, d))
    /\ req' = [req EXCEPT
         ![r].sets = Tail(@),
         ![r].todo = IF req[r].kind = "remove" THEN {d} ELSE {},
         ![r].pc = IF req[r].kind = "remove" THEN "measure"
                   ELSE IF bulk /\ Len(req[r].sets) > 1 THEN "read" ELSE "commit"]
    /\ DataUnchanged

\* PATCH or PUT of the Location: it has no generated FeatureOfInterest any more.
Move(r) ==
    /\ req[r].pc = "move" /\ Free(r)
    /\ \E n \in Name : WriteLoc(r, [gen |-> NoFoi, name |-> n])
    /\ Go(r, "commit")
    /\ DataUnchanged

-----------------------------------------------------------------------------
(* DELETE and PATCH of a FeatureOfInterest, DELETE of an Observation.      *)

\* PATCH: the geometry changes.
Reshape(r) ==
    /\ req[r].pc = "reshape" /\ Free(r)
    /\ req' = [req EXCEPT ![r].pc = "records",
                          ![r].hold = {f \in {req[r].foi} : Exists(f)}]
    /\ RowsUnchanged /\ DataUnchanged

\* After the Datastreams: PATCH is done, DELETE of an Observation too, DELETE of a
\* FeatureOfInterest goes on.
Refreshed(kind) == IF kind = "delete" THEN "unlink" ELSE "commit"

\* get_datastreams_from_foi.
Records(r) ==
    LET found == {o.ds : o \in {p \in SeenObs(r) : p.foi = req[r].foi}} IN
    /\ req[r].pc = "records"
    /\ req' = [req EXCEPT ![r].todo = found,
         ![r].pc = IF found = {} THEN Refreshed(req[r].kind) ELSE "measure"]
    /\ RowsUnchanged /\ DataUnchanged

\* update_datastream_observedArea starts: the geometries of the Observations of d
\* the statement sees, without the FeatureOfInterest the request is about.
Measure(r) ==
    /\ req[r].pc = "measure"
    /\ \E d \in req[r].todo :
         req' = [req EXCEPT
           ![r].pc = "write",
           ![r].todo = @ \ {d},
           ![r].sets = <<d>>,
           ![r].hull = UNION {Geometry(r, o.foi) :
               o \in {p \in SeenObs(r) : p.ds = d /\ p.foi # req[r].foi}}]
    /\ RowsUnchanged /\ DataUnchanged

\* ... and ends: the row is written with that area once it is free.
WriteArea(r) ==
    LET d == At(r) IN
    /\ req[r].pc = "write" /\ Free(r)
    /\ WriteDs(r, d, [SeenDs(r, d) EXCEPT !.area = req[r].hull])
    /\ Go(r, IF req[r].todo = {} THEN Refreshed(req[r].kind) ELSE "measure")
    /\ DataUnchanged

UnlinkNothing(r) ==
    /\ req[r].pc = "unlink" /\ Free(r)
    /\ Go(r, "drop")
    /\ RowsUnchanged /\ DataUnchanged

\* unlink_foi_from_location: UPDATE "Location" ... WHERE gen_foi_id is this one.
Unlink(r) ==
    /\ req[r].pc = "unlink" /\ Free(r)
    /\ IF SeenLoc(r).gen = req[r].foi
       THEN WriteLoc(r, [SeenLoc(r) EXCEPT !.gen = NoFoi])
       ELSE RowsUnchanged
    /\ Go(r, "drop")
    /\ DataUnchanged

\* DELETE FROM "FeaturesOfInterest", which cascades to its Observations.  When
\* another request deleted it already, the answer is 404 and the rest commits.
Drop(r) ==
    /\ req[r].pc = "drop" /\ Free(r)
    /\ req' = [req EXCEPT ![r].pc = "commit",
         ![r].hold = {f \in {req[r].foi} : Exists(f)},
         ![r].gone = {o \in obs : o.foi = req[r].foi}]
    /\ RowsUnchanged /\ DataUnchanged

\* DELETE FROM "Observation", or 404.
Erase(r) ==
    /\ req[r].pc = "erase" /\ Free(r)
    /\ req' = [req EXCEPT ![r].gone = obs \intersect {req[r].target},
                          ![r].pc = IF req[r].target \in obs THEN "extent" ELSE "commit"]
    /\ RowsUnchanged /\ DataUnchanged

-----------------------------------------------------------------------------
(* The end of a transaction.                                               *)

\* The rows are left as given and the locks of r are released.
Release(r, row, rows) ==
    /\ loc' = row
    /\ locLock' = IF locLock = r THEN NoReq ELSE locLock
    /\ locWork' = IF locLock = r THEN row ELSE locWork
    /\ ds' = rows
    /\ dsLock' = [d \in Datastream |-> IF dsLock[d] = r THEN NoReq ELSE dsLock[d]]
    /\ dsWork' = [d \in Datastream |-> IF dsLock[d] = r THEN rows[d] ELSE dsWork[d]]

\* Only its kind and its end stay on record of a request that ended.
Finish(r, how) ==
    req' = [req EXCEPT ![r] =
              [kind |-> @.kind, pc |-> how, sets |-> <<>>, foi |-> NoFoi,
               name |-> NoName, made |-> NoFoi, hold |-> {}, mine |-> {},
               target |-> NoObs, gone |-> {}, todo |-> {}, hull |-> {}]]

Committed(r, f) ==
    LET q == req[r] IN
    IF f # NoFoi /\ f = q.made THEN [name |-> q.name, shape |-> 0]
    ELSE IF f \in q.hold
         THEN IF q.kind = "delete" THEN NoRow ELSE [foi[f] EXCEPT !.shape = 1]
         ELSE foi[f]

Commit(r) ==
    /\ req[r].pc = "commit"
    /\ Release(r, SeenLoc(r), [d \in Datastream |-> SeenDs(r, d)])
    /\ foi' = [f \in Foi |-> Committed(r, f)]
    /\ obs' = SeenObs(r)
    /\ Finish(r, "done")
    /\ UNCHANGED issued

RollBack(r, how) ==
    /\ Release(r, loc, ds)
    /\ Finish(r, how)
    /\ UNCHANGED <<foi, issued, obs>>

\* A constraint fails: the request is answered with an error.
Reject(r) ==
    /\ Free(r)
    /\ \/ req[r].pc = "create" /\ NameTaken(req[r].name)
       \/ /\ req[r].pc = "insert"
          /\ ~Exists(req[r].foi) /\ req[r].foi # req[r].made
    /\ RollBack(r, "failed")

\* The deadlock detector of PostgreSQL chooses r.
BreakDeadlock(r) ==
    /\ Deadlocked(r)
    /\ RollBack(r, "failed")

\* The connection is lost.
Cancel(r) ==
    /\ req[r].pc \notin Ended \union {"idle"}
    /\ RollBack(r, "cancelled")

Step(r) ==
    \/ Read(r) \/ Lock(r) \/ Create(r) \/ Stamp(r) \/ Reuse(r) \/ Compare(r)
    \/ Last(r) \/ Insert(r) \/ Extent(r) \/ Move(r) \/ Reshape(r) \/ Records(r)
    \/ Measure(r) \/ WriteArea(r) \/ Unlink(r) \/ Drop(r) \/ Erase(r)
    \/ Commit(r) \/ Reject(r)

Next == \E r \in Req : Begin(r) \/ Step(r) \/ BreakDeadlock(r) \/ Cancel(r)

\* The API runs the statements of a request one after the other and PostgreSQL
\* resolves every deadlock; no request has to arrive and no connection to be lost.
Spec == Init /\ [][Next]_vars
Fairness == /\ \A r \in Req : WF_vars(Step(r))
            /\ WF_vars(\E r \in Req : BreakDeadlock(r))
FairSpec == Spec /\ Fairness

-----------------------------------------------------------------------------
(* Properties.                                                             *)

\* BulkObservations does not lock the Location.
NoBulk == \A r \in Req : req[r].pc # "idle" => req[r].kind # "bulk"

\* The FeatureOfInterest generated for a Location is created once: gen_foi_id
\* changes only from none to one and, when the Location or that
\* FeatureOfInterest changes, back to none, never from one to another.
StampedOnce == [][NoBulk /\ loc.gen # NoFoi => loc'.gen \in {loc.gen, NoFoi}]_vars

\* gen_foi_id has no foreign key, yet it never names a FeatureOfInterest that a
\* DELETE removed, whatever DELETE, generation and PATCH interleave.
GenFoiExists == loc.gen # NoFoi => Exists(loc.gen)

\* So far requests have only inserted Observations or changed the Location.
OnlyInserts ==
    \A r \in Req : req[r].pc # "idle" => req[r].kind \in {"post", "explicit", "bulk", "move"}

\* With one Datastream and nothing deleted or reshaped, the observedArea covers the
\* geometry of every FeatureOfInterest of the Observations, although an insert widens it
\* only when last_foi_id differs from its own: last_foi_id is always covered.
AreaCovers ==
    OnlyInserts /\ (\A o, p \in obs : o.ds = p.ds) =>
        \A o \in obs : <<o.foi, foi[o.foi].shape>> \in ds[o.ds].area

\* Requests that insert Observations (into one Datastream each) or change the Location
\* never wait for each other in a cycle: the Location before the Datastream.  With unique
\* names a bulk insert may have taken the name the holder of the Location waits for.
NoDeadlock ==
    MaxSets = 1 /\ (UniqueNames => NoBulk) /\ OnlyInserts => \A r \in Req : ~Deadlocked(r)

\* tests/conformance/c02/test_deep_insert.py:324: concurrent inserts for one
\* Location "must resolve to a SINGLE auto-generated FeatureOfInterest".
SingleFoi == \A o, p \in obs : o.foi = p.foi

\* tests/conformance/c02/test_deep_insert.py:249: an Observation posted without a
\* FeatureOfInterest gets one: "the server must automatically create/link one".
PostsSucceed == \A r \in Req : req[r].kind = "post" => req[r].pc # "failed"

\* Every request that arrived is answered in the end (none arrives twice, and an
\* answer is final).
Answered == <>[](\A r \in Req : req[r].pc \in Ended \union {"idle"})
=============================================================================
