---------------------- MODULE FeatureOfInterestProofs ----------------------
(***************************************************************************)
(* Theorems about FeatureOfInterest: its types, that gen_foi_id always     *)
(* names a FeatureOfInterest that exists, that without bulk requests it is *)
(* generated once, and that inserts keep the observedArea covering (CInv,  *)
(* in the second half).  The inductive invariant FInv says what the        *)
(* statements of a request establish for the later ones: who created a     *)
(* FeatureOfInterest holds the Location until it commits (Kept), whoever   *)
(* creates for a single Observation found the Location without one while   *)
(* holding it (Locked), a DELETE that is past the Location has unlinked    *)
(* its own (Unlinked), and identifiers are fresh (Fresh).  At the end, that *)
(* requests never wait for each other in a circle: HInv says at which of   *)
(* its statements a request holds the Location, a Datastream or a name.    *)
(***************************************************************************)
EXTENDS FeatureOfInterest, SequenceTheorems, TLAPS

\* The steps of a request that needs a FeatureOfInterest, and of one that recomputes
\* the observedArea of Datastreams.
Generating == {"read", "create", "stamp", "reuse", "last", "insert", "extent", "commit"}
Refreshing == {"records", "measure", "write", "commit"}

\* Where a request of each kind can be.
StepsOf(kind) ==
    CASE kind = "post" -> Generating \union {"idle", "lock"}
      [] kind = "explicit" -> {"compare", "last", "insert", "extent", "commit"}
      [] kind = "bulk" -> Generating
      [] kind = "move" -> {"move", "commit"}
      [] kind = "delete" -> Refreshing \union {"unlink", "drop"}
      [] kind = "reshape" -> Refreshing \union {"reshape"}
      [] OTHER -> {"erase", "extent", "measure", "write", "commit"}

\* What a request knows at each of its steps.
Knows(q) ==
    /\ q.pc \in StepsOf(q.kind) \union Ended
    /\ q.pc \in {"read", "lock", "create", "stamp", "reuse", "compare", "last", "insert",
                 "extent", "write", "erase"} => q.sets # <<>>
    /\ q.pc \in {"stamp", "reuse", "compare", "last", "insert"} => q.foi # NoFoi
    /\ (q.pc \in {"lock", "create"} \/ q.made # NoFoi) => q.name \in Name
    /\ q.pc = "stamp" => q.made = q.foi
    /\ q.made # NoFoi => /\ q.kind \in {"post", "bulk"} /\ q.pc \notin {"idle", "lock"}
                         /\ q.kind = "post" => q.pc \notin {"read", "create", "reuse"}
    /\ q.kind = "delete" => q.hold \subseteq {q.foi}
    /\ q.pc = "idle" => q.hold = {}
    /\ (q.kind = "delete" /\ q.pc \notin Ended) => q.foi # NoFoi

\* Every request knows that, and the variables have their types.
Known == \A r \in Req : Knows(req[r])

TInv == TypeOK /\ Known

-----------------------------------------------------------------------------
(* What never happens to an identifier of a FeatureOfInterest.             *)

\* An identifier is handed out once: the one a request created is not committed, not
\* another's, and not what a DELETE is about.
Fresh ==
    /\ \A f \in Foi : f > issued => foi[f] = NoRow
    /\ \A r \in Req : req[r].made # NoFoi =>
          /\ req[r].made <= issued
          /\ foi[req[r].made] = NoRow
          /\ \A s \in Req : /\ s # r => req[s].made # req[r].made
                            /\ req[s].kind = "delete" => req[s].foi # req[r].made
    /\ \A r \in Req : req[r].kind = "delete" => req[r].foi <= issued
    /\ \A r \in Req : \A f \in req[r].hold : f <= issued /\ \A s \in Req : req[s].made # f

\* The Location row that a request works on names what the committed one does, nothing,
\* or what that request created.
Works ==
    locLock # NoReq =>
        /\ req[locLock].pc \notin Ended \union {"idle"}
        /\ locWork.gen \in {loc.gen, NoFoi, req[locLock].made}

\* Who created one goes on to stamp the Location with it, and keeps it so.
Kept ==
    \A r \in Req : req[r].made # NoFoi =>
        /\ req[r].pc # "create"
        /\ req[r].pc # "stamp" => locLock = r /\ locWork.gen = req[r].made

\* A DELETE that is past the Location has unlinked its FeatureOfInterest.
Unlinked ==
    \A r \in Req : (req[r].kind = "delete" /\ req[r].pc \in {"drop", "commit"}) =>
        loc.gen # req[r].foi \/ (locLock = r /\ locWork.gen = NoFoi)

\* Whoever creates for a single Observation holds the Location, which names nothing.
Locked ==
    /\ \A r \in Req : req[r].kind = "post" =>
          /\ req[r].pc \in {"read", "lock"} => locLock # r
          /\ req[r].pc \in {"create", "stamp"} => locLock = r /\ loc.gen = NoFoi
    /\ (locLock # NoReq /\ req[locLock].kind # "bulk" /\ loc.gen # NoFoi) =>
          locWork.gen \in {loc.gen, NoFoi}

\* The inductive invariant.
FInv == TInv /\ Fresh /\ GenFoiExists /\ Works /\ Kept /\ Unlinked /\ Locked
-----------------------------------------------------------------------------
(* Types.                                                                  *)

\* The Datastreams a request can have yet to deal with.
Sets == UNION {[1 .. n -> Datastream] : n \in 0 .. MaxSets}

\* The Datastreams a request has yet to deal with are a short sequence.
LEMMA SetsSequence ==
    \A s : s \in Sets <=> s \in Seq(Datastream) /\ Len(s) <= MaxSets
  <1>1. ASSUME NEW s \in Sets
        PROVE  s \in Seq(Datastream) /\ Len(s) <= MaxSets
    <2>1. PICK n \in 0 .. MaxSets : s \in [1 .. n -> Datastream]
      BY DEF Sets
    <2>2. n \in Nat /\ s \in Seq(Datastream)
      BY <2>1, MaxSetsAssumption, SeqDef
    <2>3. Len(s) = n
      BY <2>1, <2>2, LenProperties
    <2> QED BY <2>1, <2>2, <2>3
  <1>2. ASSUME NEW s \in Seq(Datastream), Len(s) <= MaxSets
        PROVE  s \in Sets
    <2>1. Len(s) \in 0 .. MaxSets /\ s \in [1 .. Len(s) -> Datastream]
      BY <1>2, LenProperties, MaxSetsAssumption
    <2> QED BY <2>1 DEF Sets
  <1> QED BY <1>1, <1>2

\* The first of them, and the rest.
LEMMA SetsHeadTail ==
    ASSUME NEW s \in Sets, s # <<>>
    PROVE  /\ Head(s) \in Datastream /\ Tail(s) \in Sets
           /\ Len(s) > 1 => Tail(s) # <<>>
  <1>1. s \in Seq(Datastream) /\ Len(s) <= MaxSets /\ Len(s) \in Nat
    BY SetsSequence, LenProperties
  <1>2. Head(s) \in Datastream /\ Tail(s) \in Seq(Datastream) /\ Len(Tail(s)) = Len(s) - 1
    BY <1>1, HeadTailProperties
  <1>3. Len(Tail(s)) <= MaxSets
    BY <1>1, <1>2, MaxSetsAssumption
  <1>4. Len(s) > 1 => Tail(s) # <<>>
    BY <1>1, <1>2, EmptySeq
  <1> QED BY <1>2, <1>3, <1>4, SetsSequence

\* One Datastream, and none.
LEMMA SetsSmall ==
    /\ <<>> \in Sets
    /\ \A d \in Datastream : <<d>> \in Sets /\ <<d>> # <<>>
  <1>1. <<>> \in Seq(Datastream) /\ Len(<<>>) <= MaxSets
    BY MaxSetsAssumption
  <1>2. \A d \in Datastream : <<d>> \in Seq(Datastream) /\ Len(<<d>>) <= MaxSets /\ <<d>> # <<>>
    BY MaxSetsAssumption
  <1> QED BY <1>1, <1>2, SetsSequence

\* A client names several.
LEMMA SetsMany ==
    ASSUME NEW n \in 1 .. MaxSets, NEW s \in [1 .. n -> Datastream]
    PROVE  s \in Sets /\ s # <<>>
  <1>1. n \in Nat /\ s \in Seq(Datastream) /\ n # 0
    BY MaxSetsAssumption, SeqDef
  <1>2. Len(s) = n
    BY <1>1, LenProperties
  <1>3. s # <<>>
    BY <1>1, <1>2
  <1>4. n \in 0 .. MaxSets
    OBVIOUS
  <1> QED BY <1>3, <1>4 DEF Sets

\* A request, with that set named: what the provers read its fields from.
LEMMA RequestFields ==
    Request = [kind : AllKinds, pc : Steps, sets : Sets, foi : Foi \union {NoFoi},
               name : Name \union {NoName}, made : Foi \union {NoFoi}, hold : SUBSET Foi,
               mine : SUBSET Observation, target : Observation \union {NoObs},
               gone : SUBSET Observation, todo : SUBSET Datastream, hull : Area]
  BY DEF Request, Sets

\* What a request sees is typed.
LEMMA SeenTypes ==
    ASSUME TypeOK, NEW r \in Req
    PROVE  /\ SeenLoc(r) \in LocationRow
           /\ \A d \in Datastream : SeenDs(r, d) \in DatastreamRow
           /\ SeenObs(r) \in SUBSET Observation
           /\ \A f \in Foi \union {NoFoi} : Geometry(r, f) \in Area
  <1>1. SeenLoc(r) \in LocationRow /\ \A d \in Datastream : SeenDs(r, d) \in DatastreamRow
    BY DEF TypeOK, SeenLoc, SeenDs
  <1>2. req[r].mine \in SUBSET Observation
    BY RequestFields DEF TypeOK
  <1>3. SeenObs(r) \in SUBSET Observation
    BY <1>2 DEF TypeOK, SeenObs
  <1>4. ASSUME NEW f \in Foi \union {NoFoi}
        PROVE  Geometry(r, f) \in Area
    BY DEF Geometry, Area, Exists, TypeOK, FoiRow, NoFoi
  <1> QED BY <1>1, <1>3, <1>4

\* A step of r changes what r is doing and leaves the other requests alone.
LEMMA RequestStep ==
    ASSUME TInv, NEW r \in Req, NEW q, req' = [req EXCEPT ![r] = q], q \in Request, Knows(q)
    PROVE  req' \in [Req -> Request] /\ Known'
  BY DEF TInv, TypeOK, Known


\* A request that ends knows nothing any more.
LEMMA FinishKnows ==
    ASSUME TInv, NEW r \in Req, NEW how \in Ended, Finish(r, how)
    PROVE  \E q \in Request : req' = [req EXCEPT ![r] = q] /\ Knows(q)
  <1> DEFINE p == [kind |-> req[r].kind, pc |-> how, sets |-> <<>>, foi |-> NoFoi,
                   name |-> NoName, made |-> NoFoi, hold |-> {}, mine |-> {},
                   target |-> NoObs, gone |-> {}, todo |-> {}, hull |-> {}]
  <1>1. req' = [req EXCEPT ![r] = p]
    BY DEF Finish
  <1>2. req[r].kind \in AllKinds
    BY RequestFields DEF TInv, TypeOK
  <1>3. p \in Request
    BY <1>2, SetsSmall, RequestFields DEF Steps, Ended, Area
  <1>4. Knows(p)
    BY DEF Knows, Ended
  <1> QED BY <1>1, <1>3, <1>4

\* Every statement takes its request to a step it may be at, knowing what it must.
LEMMA StepKnows ==
    ASSUME TInv, NEW r \in Req, Begin(r) \/ Step(r)
    PROVE  \E q \in Request : req' = [req EXCEPT ![r] = q] /\ Knows(q)
  <1> DEFINE q == req[r]
             row == SeenLoc(r)
             Goal == \E p \in Request : req' = [req EXCEPT ![r] = p] /\ Knows(p)
  <1> SUFFICES Goal
    OBVIOUS
  <1>0. /\ q \in Request /\ Knows(q) /\ row \in LocationRow
        /\ SeenObs(r) \in SUBSET Observation
        /\ issued \in Nat /\ MaxFoi \in Nat
    BY SeenTypes, GivenAssumption DEF TInv, TypeOK, Known
  <1>1. CASE Read(r)
    <2> DEFINE p == [q EXCEPT !.name = row.name, !.foi = row.gen,
                       !.pc = IF row.gen # NoFoi THEN "reuse"
                              ELSE IF q.kind = "bulk" THEN "create" ELSE "lock"]
    <2>1. req' = [req EXCEPT ![r] = p] /\ q.pc = "read"
      BY <1>1 DEF Read
    <2> HIDE DEF q, row
    <2>3. p \in Request
      BY <1>0, <2>1, RequestFields, ZenonT(60) DEF LocationRow, Steps
    <2>4. Knows(p)
      BY <1>0, <2>1, RequestFields
         DEF Knows, StepsOf, Generating, Refreshing, Ended, LocationRow
    <2> QED BY <2>1, <2>3, <2>4
  <1>2. CASE Lock(r)
    <2> DEFINE p == [q EXCEPT !.name = row.name, !.foi = row.gen,
                       !.pc = IF row.gen # NoFoi THEN "reuse" ELSE "create"]
    <2>1. req' = [req EXCEPT ![r] = p] /\ q.pc = "lock"
      BY <1>2 DEF Lock
    <2> HIDE DEF q, row
    <2>3. p \in Request
      BY <1>0, <2>1, RequestFields DEF LocationRow, Steps
    <2>4. Knows(p)
      BY <1>0, <2>1, RequestFields
         DEF Knows, StepsOf, Generating, Refreshing, Ended, LocationRow
    <2> QED BY <2>1, <2>3, <2>4
  <1>3. CASE Create(r)
    <2> DEFINE p == [q EXCEPT !.pc = "stamp", !.foi = issued + 1, !.made = issued + 1]
    <2>1. req' = [req EXCEPT ![r] = p] /\ q.pc = "create"
      BY <1>3 DEF Create
    <2>2. issued + 1 \in Foi /\ issued + 1 # NoFoi
      BY <1>0, <1>3, <2>1 DEF Create, Foi, NoFoi
    <2> HIDE DEF q, row
    <2>3. p \in Request
      BY <1>0, <2>1, <2>2, RequestFields DEF Steps
    <2>4. Knows(p)
      BY <1>0, <2>1, <2>2, RequestFields
         DEF Knows, StepsOf, Generating, Refreshing, Ended, NoFoi
    <2> QED BY <2>1, <2>3, <2>4
  <1>4. CASE Stamp(r)
    <2> DEFINE p == [q EXCEPT !.pc = "last"]
    <2>1. req' = [req EXCEPT ![r] = p] /\ q.pc = "stamp"
      BY <1>4 DEF Stamp, Go
    <2> HIDE DEF q, row
    <2>3. p \in Request
      BY <1>0, <2>1, RequestFields DEF Steps
    <2>4. Knows(p)
      BY <1>0, <2>1, RequestFields DEF Knows, StepsOf, Generating, Refreshing, Ended
    <2> QED BY <2>1, <2>3, <2>4
  <1>5. CASE Reuse(r)
    <2>0. PICK n \in {"last", "insert"} : req' = [req EXCEPT ![r] = [q EXCEPT !.pc = n]]
      BY <1>5 DEF Reuse, Go
    <2> DEFINE p == [q EXCEPT !.pc = n]
    <2>1. req' = [req EXCEPT ![r] = p] /\ q.pc = "reuse"
      BY <1>5, <2>0 DEF Reuse, Go
    <2> HIDE DEF q, row
    <2>3. p \in Request
      BY <1>0, <2>1, <2>0, RequestFields DEF Steps
    <2>4. Knows(p)
      BY <1>0, <2>1, <2>0, RequestFields DEF Knows, StepsOf, Generating, Refreshing, Ended
    <2> QED BY <2>1, <2>3, <2>4
  <1>6. CASE Compare(r)
    <2>0. PICK n \in {"last", "insert"} : req' = [req EXCEPT ![r] = [q EXCEPT !.pc = n]]
      BY <1>6 DEF Compare, Go
    <2> DEFINE p == [q EXCEPT !.pc = n]
    <2>1. req' = [req EXCEPT ![r] = p] /\ q.pc = "compare"
      BY <1>6, <2>0 DEF Compare, Go
    <2> HIDE DEF q, row
    <2>3. p \in Request
      BY <1>0, <2>1, <2>0, RequestFields DEF Steps
    <2>4. Knows(p)
      BY <1>0, <2>1, <2>0, RequestFields DEF Knows, StepsOf, Generating, Refreshing, Ended
    <2> QED BY <2>1, <2>3, <2>4
  <1>7. CASE Last(r)
    <2> DEFINE p == [q EXCEPT !.pc = "insert"]
    <2>1. req' = [req EXCEPT ![r] = p] /\ q.pc = "last"
      BY <1>7 DEF Last, Go
    <2> HIDE DEF q, row
    <2>3. p \in Request
      BY <1>0, <2>1, RequestFields DEF Steps
    <2>4. Knows(p)
      BY <1>0, <2>1, RequestFields DEF Knows, StepsOf, Generating, Refreshing, Ended
    <2> QED BY <2>1, <2>3, <2>4
  <1>8. CASE Insert(r)
    <2> DEFINE p == [q EXCEPT !.pc = "extent",
                       !.mine = q.mine \union {[by |-> r, ds |-> At(r), foi |-> q.foi]}]
    <2>1. req' = [req EXCEPT ![r] = p] /\ q.pc = "insert"
      BY <1>8 DEF Insert
    <2>2. [by |-> r, ds |-> At(r), foi |-> q.foi] \in Observation
      BY <1>0, <1>8, <2>1, SetsHeadTail, RequestFields DEF Insert, Knows, At, Observation
    <2> HIDE DEF q, row
    <2>3. p \in Request
      BY <1>0, <2>1, <2>2, RequestFields DEF Steps
    <2>4. Knows(p)
      BY <1>0, <2>1, <2>2, RequestFields DEF Knows, StepsOf, Generating, Refreshing, Ended
    <2> QED BY <2>1, <2>3, <2>4
  <1>9. CASE Extent(r)
    <2> DEFINE p == [q EXCEPT !.sets = Tail(q.sets),
                       !.todo = IF q.kind = "remove" THEN {Head(q.sets)} ELSE {},
                       !.pc = IF q.kind = "remove" THEN "measure"
                              ELSE IF q.kind = "bulk" /\ Len(q.sets) > 1
                                   THEN "read" ELSE "commit"]
    <2>1. req' = [req EXCEPT ![r] = p] /\ q.pc = "extent"
      BY <1>9 DEF Extent, At
    <2>2. /\ Head(q.sets) \in Datastream /\ Tail(q.sets) \in Sets
          /\ Len(q.sets) > 1 => Tail(q.sets) # <<>>
      BY <1>0, <1>9, <2>1, SetsHeadTail, RequestFields DEF Extent, Knows
    <2> HIDE DEF q, row
    <2>3. p \in Request
      BY <1>0, <2>1, <2>2, RequestFields, ZenonT(60) DEF Steps
    <2>4. Knows(p)
      BY <1>0, <2>1, <2>2, RequestFields
         DEF Knows, StepsOf, Generating, Refreshing, Ended, AllKinds
    <2> QED BY <2>1, <2>3, <2>4
  <1>10. CASE Move(r)
    <2> DEFINE p == [q EXCEPT !.pc = "commit"]
    <2>1. req' = [req EXCEPT ![r] = p] /\ q.pc = "move"
      BY <1>10 DEF Move, Go
    <2> HIDE DEF q, row
    <2>3. p \in Request
      BY <1>0, <2>1, RequestFields DEF Steps
    <2>4. Knows(p)
      BY <1>0, <2>1, RequestFields DEF Knows, StepsOf, Generating, Refreshing, Ended
    <2> QED BY <2>1, <2>3, <2>4
  <1>11. CASE Reshape(r)
    <2> DEFINE p == [q EXCEPT !.pc = "records", !.hold = {f \in {q.foi} : Exists(f)}]
    <2>1. req' = [req EXCEPT ![r] = p] /\ q.pc = "reshape"
      BY <1>11 DEF Reshape
    <2>2. {f \in {q.foi} : Exists(f)} \in SUBSET Foi
      BY <1>0, <1>11, <2>1, RequestFields DEF Exists
    <2> HIDE DEF q, row
    <2>3. p \in Request
      BY <1>0, <2>1, <2>2, RequestFields DEF Steps
    <2>4. Knows(p)
      BY <1>0, <2>1, <2>2, RequestFields DEF Knows, StepsOf, Generating, Refreshing, Ended
    <2> QED BY <2>1, <2>3, <2>4
  <1>12. CASE Records(r)
    <2>0. PICK n \in {"measure", Refreshed(q.kind)} :
              req' = [req EXCEPT ![r] = [q EXCEPT !.todo = {o.ds : o \in {x \in SeenObs(r) : x.foi = q.foi}},
                       !.pc = n]]
      BY <1>12 DEF Records
    <2> DEFINE p == [q EXCEPT !.todo = {o.ds : o \in {x \in SeenObs(r) : x.foi = q.foi}},
                       !.pc = n]
    <2>1. req' = [req EXCEPT ![r] = p] /\ q.pc = "records"
      BY <1>12, <2>0 DEF Records
    <2>2. {o.ds : o \in {x \in SeenObs(r) : x.foi = q.foi}} \in SUBSET Datastream
      BY <1>0, <1>12, <2>1 DEF Observation
    <2> HIDE DEF q, row
    <2>3. p \in Request
      BY <1>0, <2>1, <2>0, <2>2, RequestFields DEF Steps, Refreshed
    <2>4. Knows(p)
      BY <1>0, <2>1, <2>0, <2>2, RequestFields
         DEF Knows, StepsOf, Generating, Refreshing, Ended, Refreshed, AllKinds
    <2> QED BY <2>1, <2>3, <2>4
  <1>13. CASE WriteArea(r)
    <2>0. PICK n \in {Refreshed(q.kind), "measure"} :
              req' = [req EXCEPT ![r] = [q EXCEPT !.pc = n]]
      BY <1>13 DEF WriteArea, Go
    <2> DEFINE p == [q EXCEPT !.pc = n]
    <2>1. req' = [req EXCEPT ![r] = p] /\ q.pc = "write"
      BY <1>13, <2>0 DEF WriteArea, Go
    <2> HIDE DEF q, row
    <2>3. p \in Request
      BY <1>0, <2>1, <2>0, RequestFields DEF Steps, Refreshed
    <2>4. Knows(p)
      BY <1>0, <2>1, <2>0, RequestFields
         DEF Knows, StepsOf, Generating, Refreshing, Ended, Refreshed, AllKinds
    <2> QED BY <2>1, <2>3, <2>4
  <1>14. CASE Unlink(r)
    <2> DEFINE p == [q EXCEPT !.pc = "drop"]
    <2>1. req' = [req EXCEPT ![r] = p] /\ q.pc = "unlink"
      BY <1>14 DEF Unlink, Go
    <2> HIDE DEF q, row
    <2>3. p \in Request
      BY <1>0, <2>1, RequestFields DEF Steps
    <2>4. Knows(p)
      BY <1>0, <2>1, RequestFields DEF Knows, StepsOf, Generating, Refreshing, Ended
    <2> QED BY <2>1, <2>3, <2>4
  <1>15. CASE Drop(r)
    <2> DEFINE p == [q EXCEPT !.pc = "commit",
                       !.hold = {f \in {q.foi} : Exists(f)},
                       !.gone = {o \in obs : o.foi = q.foi}]
    <2>1. req' = [req EXCEPT ![r] = p] /\ q.pc = "drop"
      BY <1>15 DEF Drop
    <2>2. /\ {f \in {q.foi} : Exists(f)} \in SUBSET Foi
          /\ {o \in obs : o.foi = q.foi} \in SUBSET Observation
      BY <1>0, <1>15, <2>1, RequestFields DEF Exists, TInv, TypeOK
    <2> HIDE DEF q, row
    <2>3. p \in Request
      BY <1>0, <2>1, <2>2, RequestFields DEF Steps
    <2>4. Knows(p)
      BY <1>0, <2>1, <2>2, RequestFields DEF Knows, StepsOf, Generating, Refreshing, Ended
    <2> QED BY <2>1, <2>3, <2>4
  <1>16. CASE Erase(r)
    <2> DEFINE p == [q EXCEPT !.gone = obs \intersect {q.target},
                       !.pc = IF q.target \in obs THEN "extent" ELSE "commit"]
    <2>1. req' = [req EXCEPT ![r] = p] /\ q.pc = "erase"
      BY <1>16 DEF Erase
    <2>2. obs \intersect {q.target} \in SUBSET Observation
      BY <1>0, <1>16, <2>1 DEF TInv, TypeOK
    <2> HIDE DEF q, row
    <2>3. p \in Request
      <3>1. PICK n \in Steps, g \in SUBSET Observation : p = [q EXCEPT !.gone = g, !.pc = n]
        BY <2>2 DEF Steps
      <3> HIDE DEF p
      <3> QED BY <1>0, <3>1, RequestFields
    <2>4. Knows(p)
      BY <1>0, <2>1, <2>2, RequestFields
         DEF Knows, StepsOf, Generating, Refreshing, Ended, AllKinds
    <2> QED BY <2>1, <2>3, <2>4
  <1>17. CASE Measure(r)
    <2> DEFINE hull(d) == UNION {Geometry(r, o.foi) :
                             o \in {x \in SeenObs(r) : x.ds = d /\ x.foi # q.foi}}
               p(d) == [q EXCEPT !.pc = "write", !.todo = q.todo \ {d}, !.sets = <<d>>,
                          !.hull = hull(d)]
    <2>1. q.pc = "measure" /\ \E d \in q.todo : req' = [req EXCEPT ![r] = p(d)]
      BY <1>17, ZenonT(60) DEF Measure
    <2>2. q.todo \in SUBSET Datastream
      BY <1>0, RequestFields
    <2>3. PICK d \in Datastream : req' = [req EXCEPT ![r] = p(d)]
      BY <2>1, <2>2
    <2>4. hull(d) \in Area
      BY <1>0, SeenTypes DEF Observation, Area, TInv
    <2>5. <<d>> \in Sets /\ <<d>> # <<>>
      BY SetsSmall
    <2> HIDE DEF q, hull
    <2>6. p(d) \in Request
      BY <1>0, <2>2, <2>4, <2>5, RequestFields DEF Steps
    <2>7. Knows(p(d))
      BY <1>0, <2>1, <2>5, RequestFields DEF Knows, StepsOf, Generating, Refreshing, Ended
    <2> QED BY <2>3, <2>6, <2>7
  <1>18. CASE Commit(r) \/ Reject(r)
    <2>1. PICK how \in {"done", "failed"} : Finish(r, how)
      BY <1>18 DEF Commit, Reject, RollBack
    <2> QED BY <2>1, FinishKnows DEF Ended
  <1>19. CASE Begin(r)
    <2>1. q.pc = "idle" /\ q.kind = "post" /\ q.made = NoFoi /\ q.hold = {}
      BY <1>0, <1>19 DEF Begin, Knows, StepsOf, Generating, Refreshing, Ended, AllKinds
    <2> DEFINE post(d) == [q EXCEPT !.pc = "read", !.sets = <<d>>]
               explicit(d, f) == [q EXCEPT !.kind = "explicit", !.pc = "compare",
                                    !.sets = <<d>>, !.foi = f]
               bulk(s) == [q EXCEPT !.kind = "bulk", !.pc = "read", !.sets = s]
               move == [q EXCEPT !.kind = "move", !.pc = "move"]
               delete(f) == [q EXCEPT !.kind = "delete", !.pc = "records", !.foi = f]
               reshape(f) == [q EXCEPT !.kind = "reshape", !.pc = "reshape", !.foi = f]
               remove(o) == [q EXCEPT !.kind = "remove", !.pc = "erase", !.target = o,
                               !.sets = <<o.ds>>]
    <2>2. ASSUME NEW d \in Datastream, req' = [req EXCEPT ![r].pc = "read", ![r].sets = <<d>>]
          PROVE  Goal
      <3>1. req' = [req EXCEPT ![r] = post(d)]
        BY <2>2
      <3> HIDE DEF q
      <3>3. post(d) \in Request
        BY <1>0, <2>1, SetsSmall, RequestFields, ZenonT(60) DEF Steps, AllKinds
      <3>4. Knows(post(d))
        BY <1>0, <2>1, SetsSmall, RequestFields
           DEF Knows, StepsOf, Generating, Refreshing, Ended, AllKinds
      <3> HIDE DEF post
      <3> QED BY <3>1, <3>3, <3>4
    <2>3. ASSUME NEW d \in Datastream, NEW f \in Foi,
                 req' = [req EXCEPT ![r].kind = "explicit", ![r].pc = "compare",
                                       ![r].sets = <<d>>, ![r].foi = f]
          PROVE  Goal
      <3>1. req' = [req EXCEPT ![r] = explicit(d, f)]
        BY <2>3
      <3> HIDE DEF q
      <3>2. f # NoFoi
        BY DEF Foi, NoFoi
      <3>3. explicit(d, f) \in Request
        BY <1>0, <2>1, <3>2, SetsSmall, RequestFields, ZenonT(60) DEF Steps, AllKinds
      <3>4. Knows(explicit(d, f))
        BY <1>0, <2>1, <3>2, SetsSmall, RequestFields
           DEF Knows, StepsOf, Generating, Refreshing, Ended, AllKinds
      <3> HIDE DEF explicit
      <3> QED BY <3>1, <3>3, <3>4
    <2>4. ASSUME NEW n \in 1 .. MaxSets, NEW s \in [1 .. n -> Datastream],
                 req' = [req EXCEPT ![r].kind = "bulk", ![r].pc = "read", ![r].sets = s]
          PROVE  Goal
      <3>1. req' = [req EXCEPT ![r] = bulk(s)]
        BY <2>4
      <3> HIDE DEF q
      <3>2. s \in Sets /\ s # <<>>
        BY SetsMany
      <3>3. bulk(s) \in Request
        BY <1>0, <2>1, <3>2, SetsSmall, RequestFields, ZenonT(60) DEF Steps, AllKinds
      <3>4. Knows(bulk(s))
        BY <1>0, <2>1, <3>2, SetsSmall, RequestFields
           DEF Knows, StepsOf, Generating, Refreshing, Ended, AllKinds
      <3> HIDE DEF bulk
      <3> QED BY <3>1, <3>3, <3>4
    <2>5. ASSUME req' = [req EXCEPT ![r].kind = "move", ![r].pc = "move"]
          PROVE  Goal
      <3>1. req' = [req EXCEPT ![r] = move]
        BY <2>5
      <3> HIDE DEF q
      <3>3. move \in Request
        BY <1>0, <2>1, SetsSmall, RequestFields, ZenonT(60) DEF Steps, AllKinds
      <3>4. Knows(move)
        BY <1>0, <2>1, SetsSmall, RequestFields
           DEF Knows, StepsOf, Generating, Refreshing, Ended, AllKinds
      <3> HIDE DEF move
      <3> QED BY <3>1, <3>3, <3>4
    <2>6. ASSUME NEW f \in Foi,
                 req' = [req EXCEPT ![r].kind = "delete", ![r].pc = "records", ![r].foi = f]
          PROVE  Goal
      <3>1. req' = [req EXCEPT ![r] = delete(f)]
        BY <2>6
      <3> HIDE DEF q
      <3>2. f # NoFoi
        BY DEF Foi, NoFoi
      <3>3. delete(f) \in Request
        BY <1>0, <2>1, <3>2, SetsSmall, RequestFields, ZenonT(60) DEF Steps, AllKinds
      <3>4. Knows(delete(f))
        BY <1>0, <2>1, <3>2, SetsSmall, RequestFields
           DEF Knows, StepsOf, Generating, Refreshing, Ended, AllKinds
      <3> HIDE DEF delete
      <3> QED BY <3>1, <3>3, <3>4
    <2>7. ASSUME NEW f \in Foi,
                 req' = [req EXCEPT ![r].kind = "reshape", ![r].pc = "reshape", ![r].foi = f]
          PROVE  Goal
      <3>1. req' = [req EXCEPT ![r] = reshape(f)]
        BY <2>7
      <3> HIDE DEF q
      <3>3. reshape(f) \in Request
        BY <1>0, <2>1, SetsSmall, RequestFields, ZenonT(60) DEF Steps, AllKinds
      <3>4. Knows(reshape(f))
        BY <1>0, <2>1, SetsSmall, RequestFields
           DEF Knows, StepsOf, Generating, Refreshing, Ended, AllKinds
      <3> HIDE DEF reshape
      <3> QED BY <3>1, <3>3, <3>4
    <2>8. ASSUME NEW o \in obs,
                 req' = [req EXCEPT ![r].kind = "remove", ![r].pc = "erase", ![r].target = o,
                                       ![r].sets = <<o.ds>>]
          PROVE  Goal
      <3>1. req' = [req EXCEPT ![r] = remove(o)]
        BY <2>8
      <3> HIDE DEF q
      <3>2. o \in Observation /\ o.ds \in Datastream /\ <<o.ds>> \in Sets /\ <<o.ds>> # <<>>
        BY SetsSmall DEF TInv, TypeOK, Observation
      <3>3. remove(o) \in Request
        BY <1>0, <2>1, <3>2, SetsSmall, RequestFields, ZenonT(60) DEF Steps, AllKinds
      <3>4. Knows(remove(o))
        BY <1>0, <2>1, <3>2, SetsSmall, RequestFields
           DEF Knows, StepsOf, Generating, Refreshing, Ended, AllKinds
      <3> HIDE DEF remove
      <3> QED BY <3>1, <3>3, <3>4
    <2> HIDE DEF Goal
    <2> QED BY <1>19, <2>2, <2>3, <2>4, <2>5, <2>6, <2>7, <2>8 DEF Begin
  <1> QED BY <1>1, <1>2, <1>3, <1>4, <1>5, <1>6, <1>7, <1>8, <1>9, <1>10, <1>11, <1>12, <1>13,
             <1>14, <1>15, <1>16, <1>17, <1>18, <1>19 DEF Step

\* The part of TypeOK about the rows and their locks.
RowsTyped ==
    /\ loc \in LocationRow /\ locWork \in LocationRow
    /\ locLock \in Req \union {NoReq}
    /\ ds \in [Datastream -> DatastreamRow] /\ dsWork \in [Datastream -> DatastreamRow]
    /\ dsLock \in [Datastream -> Req \union {NoReq}]

\* Locking and writing a row leaves typed rows, and so does releasing what one holds.
LEMMA WritesTyped ==
    ASSUME RowsTyped, NEW r \in Req
    PROVE  /\ \A row \in LocationRow : WriteLoc(r, row) => RowsTyped'
           /\ \A d \in Datastream, row \in DatastreamRow : WriteDs(r, d, row) => RowsTyped'
           /\ \A row \in LocationRow, rows \in [Datastream -> DatastreamRow] :
                 Release(r, row, rows) => RowsTyped'
           /\ RowsUnchanged => RowsTyped'
  BY DEF RowsTyped, WriteLoc, WriteDs, Release, RowsUnchanged

\* The Datastream at hand is one.
LEMMA AtDatastream ==
    ASSUME TInv, NEW r \in Req,
           req[r].pc \in {"stamp", "reuse", "compare", "last", "insert", "extent", "write"}
    PROVE  At(r) \in Datastream
  <1>1. req[r].sets \in Sets /\ req[r].sets # <<>>
    BY RequestFields DEF TInv, TypeOK, Known, Knows
  <1> QED BY <1>1, SetsHeadTail DEF At

\* Rows keep their types.
LEMMA RowsStep ==
    ASSUME TInv, NEW r \in Req, Begin(r) \/ Step(r) \/ BreakDeadlock(r) \/ Cancel(r)
    PROVE  RowsTyped'
  <1>0. /\ RowsTyped /\ SeenLoc(r) \in LocationRow
        /\ \A d \in Datastream : SeenDs(r, d) \in DatastreamRow
        /\ \A f \in Foi \union {NoFoi} : Geometry(r, f) \in Area
        /\ req[r].foi \in Foi \union {NoFoi} /\ req[r].hull \in Area
    BY SeenTypes, RequestFields DEF TInv, TypeOK, RowsTyped
  <1>1. \A row \in DatastreamRow : Widened(r, row) \in DatastreamRow
    BY <1>0 DEF Widened, DatastreamRow, Area
  <1>2. CASE \/ Begin(r) \/ Read(r) \/ Create(r) \/ Reuse(r) \/ Compare(r) \/ Insert(r)
             \/ Reshape(r) \/ Records(r) \/ Measure(r) \/ Drop(r) \/ Erase(r)
    <2>1. RowsUnchanged
      BY <1>2
         DEF Begin, Read, Create, Reuse, Compare, Insert, Reshape, Records, Measure, Drop,
                  Erase
    <2> QED BY <1>0, <2>1, WritesTyped
  <1>3. CASE Lock(r)
    BY <1>0, <1>3, WritesTyped DEF Lock
  <1>4. CASE Stamp(r)
    <2>1. [SeenLoc(r) EXCEPT !.gen = req[r].foi] \in LocationRow
      BY <1>0 DEF LocationRow
    <2> QED BY <1>0, <1>4, <2>1, WritesTyped DEF Stamp
  <1>5. CASE Last(r)
    <2>1. At(r) \in Datastream
      BY <1>5, AtDatastream DEF Last
    <2> QED BY <1>0, <1>1, <1>5, <2>1, WritesTyped DEF Last
  <1>6. CASE Extent(r)
    <2>1. At(r) \in Datastream
      BY <1>6, AtDatastream DEF Extent
    <2>2. PICK row \in DatastreamRow : WriteDs(r, At(r), row)
      BY <1>0, <1>1, <1>6, <2>1 DEF Extent
    <2> QED BY <1>0, <2>1, <2>2, WritesTyped
  <1>7. CASE Move(r)
    <2>1. PICK n \in Name : WriteLoc(r, [gen |-> NoFoi, name |-> n])
      BY <1>7 DEF Move
    <2>2. [gen |-> NoFoi, name |-> n] \in LocationRow
      BY DEF LocationRow
    <2> QED BY <1>0, <2>1, <2>2, WritesTyped
  <1>8. CASE WriteArea(r)
    <2>1. At(r) \in Datastream
      BY <1>8, AtDatastream DEF WriteArea
    <2>2. [SeenDs(r, At(r)) EXCEPT !.area = req[r].hull] \in DatastreamRow
      BY <1>0, <2>1 DEF DatastreamRow
    <2> QED BY <1>0, <1>8, <2>1, <2>2, WritesTyped DEF WriteArea
  <1>9. CASE Unlink(r)
    <2>1. [SeenLoc(r) EXCEPT !.gen = NoFoi] \in LocationRow
      BY <1>0 DEF LocationRow
    <2> QED BY <1>0, <1>9, <2>1, WritesTyped DEF Unlink
  <1>10. CASE Commit(r)
    <2>1. [d \in Datastream |-> SeenDs(r, d)] \in [Datastream -> DatastreamRow]
      BY <1>0
    <2> QED BY <1>0, <1>10, <2>1, WritesTyped DEF Commit
  <1>11. CASE Reject(r) \/ BreakDeadlock(r) \/ Cancel(r)
    <2>1. Release(r, loc, ds)
      BY <1>11 DEF Reject, BreakDeadlock, Cancel, RollBack
    <2> QED BY <1>0, <2>1, WritesTyped DEF RowsTyped
  <1> QED BY <1>2, <1>3, <1>4, <1>5, <1>6, <1>7, <1>8, <1>9, <1>10, <1>11 DEF Step

\* FeaturesOfInterest, identifiers and Observations keep their types.
LEMMA DataStep ==
    ASSUME TInv, NEW r \in Req, Begin(r) \/ Step(r) \/ BreakDeadlock(r) \/ Cancel(r)
    PROVE  /\ foi' \in [Foi -> FoiRow] /\ issued' \in 0 .. MaxFoi
           /\ obs' \subseteq Observation
  <1>0. /\ foi \in [Foi -> FoiRow] /\ issued \in 0 .. MaxFoi /\ obs \subseteq Observation
        /\ req[r].name \in Name \union {NoName} /\ SeenObs(r) \in SUBSET Observation
        /\ MaxFoi \in Nat
    BY SeenTypes, RequestFields, GivenAssumption DEF TInv, TypeOK
  <1>1. CASE Create(r)
    BY <1>0, <1>1 DEF Create
  <1>2. CASE Commit(r)
    <2>1. \A f \in Foi : Committed(r, f) \in FoiRow
      BY <1>0 DEF Committed, FoiRow, NoRow
    <2> QED BY <1>0, <1>2, <2>1 DEF Commit
  <1>3. CASE ~Create(r) /\ ~Commit(r)
    <2>1. DataUnchanged
      BY <1>3
         DEF Begin, Step, BreakDeadlock, Cancel, RollBack, DataUnchanged, Read, Lock, Stamp,
                  Reuse, Compare, Last, Insert, Extent, Move, Reshape, Records, Measure,
                  WriteArea, Unlink, Drop, Erase, Reject
    <2> QED BY <1>0, <2>1 DEF DataUnchanged
  <1> QED BY <1>1, <1>2, <1>3

\* Types and knowledge are preserved by every step.
LEMMA TypesStep == TInv /\ [Next]_vars => TInv'
  <1> SUFFICES ASSUME TInv, [Next]_vars PROVE TInv'
    OBVIOUS
  <1>1. CASE UNCHANGED vars
    BY <1>1 DEF vars, TInv, TypeOK, Known
  <1>2. ASSUME NEW r \in Req, Begin(r) \/ Step(r) \/ BreakDeadlock(r) \/ Cancel(r)
        PROVE  TInv'
    <2>1. \E q \in Request : req' = [req EXCEPT ![r] = q] /\ Knows(q)
      <3>1. CASE Begin(r) \/ Step(r)
        BY <3>1, StepKnows
      <3>2. CASE BreakDeadlock(r) \/ Cancel(r)
        <4>1. PICK how \in Ended : Finish(r, how)
          BY <3>2 DEF BreakDeadlock, Cancel, RollBack, Ended
        <4> QED BY <4>1, FinishKnows
      <3> QED BY <1>2, <3>1, <3>2
    <2>2. req' \in [Req -> Request] /\ Known'
      BY <2>1, RequestStep
    <2>3. RowsTyped'
      BY <1>2, RowsStep
    <2>4. /\ foi' \in [Foi -> FoiRow] /\ issued' \in 0 .. MaxFoi
          /\ obs' \subseteq Observation
      BY <1>2, DataStep
    <2> QED BY <2>2, <2>3, <2>4 DEF TInv, TypeOK, RowsTyped
  <1> QED BY <1>1, <1>2 DEF Next

\* At the start every request is idle and knows nothing.
LEMMA TypesInit == Init => TInv
  <1> SUFFICES ASSUME Init PROVE TInv
    OBVIOUS
  <1> DEFINE q == [kind |-> "post", pc |-> "idle", sets |-> <<>>, foi |-> NoFoi,
                   name |-> NoName, made |-> NoFoi, hold |-> {}, mine |-> {},
                   target |-> NoObs, gone |-> {}, todo |-> {}, hull |-> {}]
  <1>1. q \in Request
    BY SetsSmall, RequestFields DEF Steps, AllKinds, Area
  <1>2. Knows(q)
    BY DEF Knows, StepsOf, Generating, Ended
  <1>3. req = [r \in Req |-> q]
    BY DEF Init
  <1> HIDE DEF q
  <1>4. req \in [Req -> Request] /\ Known
    BY <1>1, <1>2, <1>3 DEF Known
  <1>5. foi \in [Foi -> FoiRow] /\ issued \in 0 .. MaxFoi
    BY GivenAssumption DEF Init, FoiRow, NoRow, Foi
  <1>6. /\ loc \in LocationRow /\ locWork \in LocationRow /\ locLock \in Req \union {NoReq}
        /\ ds \in [Datastream -> DatastreamRow] /\ dsWork \in [Datastream -> DatastreamRow]
        /\ dsLock \in [Datastream -> Req \union {NoReq}]
    BY DEF Init, LocationRow, DatastreamRow, Area
  <1> QED BY <1>4, <1>5, <1>6 DEF TInv, TypeOK, Init

\* The variables keep their types in every behaviour, for any number of requests,
\* Datastreams and FeaturesOfInterest.
THEOREM TypeCorrect == Spec => []TypeOK
  <1>1. TInv => TypeOK
    BY DEF TInv
  <1> QED BY <1>1, TypesInit, TypesStep, PTL DEF Spec

-----------------------------------------------------------------------------
(* The invariant is inductive: one lemma per kind of step.                 *)

\* What every step of r leaves alone.
LEMMA OthersStay ==
    ASSUME TInv, NEW r \in Req, Begin(r) \/ Step(r) \/ BreakDeadlock(r) \/ Cancel(r)
    PROVE  \A s \in Req : s # r => req'[s] = req[s]
  <1>1. \E q : req' = [req EXCEPT ![r] = q]
    <2>1. CASE Begin(r) \/ Step(r)
      BY <2>1, StepKnows
    <2>2. CASE BreakDeadlock(r) \/ Cancel(r)
      <3>1. PICK how \in Ended : Finish(r, how)
        BY <2>2 DEF BreakDeadlock, Cancel, RollBack, Ended
      <3> QED BY <3>1, FinishKnows
    <2> QED BY <2>1, <2>2
  <1> QED BY <1>1 DEF TInv, TypeOK

\* Steps that neither look at the Location nor touch a FeatureOfInterest.
Quiet(r) == Reuse(r) \/ Compare(r) \/ Last(r) \/ Insert(r) \/ Extent(r) \/ Records(r)
              \/ Measure(r) \/ WriteArea(r) \/ Erase(r)

\* They keep what the invariant relates, and leave no request where it must know more.
LEMMA QuietFacts ==
    ASSUME TInv, NEW r \in Req, Quiet(r)
    PROVE  /\ UNCHANGED <<loc, locLock, locWork, foi, issued>>
           /\ req'[r].kind = req[r].kind /\ req'[r].made = req[r].made
           /\ req'[r].foi = req[r].foi /\ req'[r].hold = req[r].hold
           /\ req[r].pc \notin {"idle", "stamp"} \union Ended
           /\ req'[r].pc \notin {"idle", "lock", "create", "stamp", "drop"} \union Ended
           /\ req'[r].pc = "read" => req[r].kind # "post"
           /\ req'[r].pc = "commit" => req[r].kind # "delete"
  <1> DEFINE q == req[r]
             Fields(p) == /\ p.kind = q.kind /\ p.made = q.made
                          /\ p.foi = q.foi /\ p.hold = q.hold
                          /\ p.pc \notin {"idle", "lock", "create", "stamp", "drop"} \union Ended
                          /\ p.pc = "read" => q.kind # "post"
                          /\ p.pc = "commit" => q.kind # "delete"
  <1>0. q \in Request /\ Knows(q) /\ req \in [Req -> Request]
    BY DEF TInv, TypeOK, Known
  <1>1. UNCHANGED <<loc, locLock, locWork, foi, issued>>
    BY DEF Quiet, Reuse, Compare, Last, Insert, Extent, Records, Measure, WriteArea, Erase,
           RowsUnchanged, DataUnchanged, WriteDs
  <1>2. q.pc \in {"reuse", "compare", "last", "insert", "extent", "records", "measure", "write",
                  "erase"}
    BY DEF Quiet, Reuse, Compare, Last, Insert, Extent, Records, Measure, WriteArea, Erase
  <1>3. CASE Reuse(r) \/ Compare(r) \/ Last(r) \/ Insert(r)
    <2>1. Fields(req'[r])
      BY <1>0, <1>3, RequestFields DEF Reuse, Compare, Last, Insert, Go, Ended
    <2> QED BY <1>1, <1>2, <2>1 DEF Ended
  <1>4. CASE Extent(r)
    <2>1. Fields(req'[r])
      BY <1>0, <1>4, RequestFields DEF Extent, Ended, Knows, StepsOf, Generating, Refreshing
    <2> QED BY <1>1, <1>2, <2>1 DEF Ended
  <1>5. CASE Records(r) \/ WriteArea(r)
    <2>1. Fields(req'[r])
      BY <1>0, <1>5, RequestFields DEF Records, WriteArea, Go, Ended, Refreshed
    <2> QED BY <1>1, <1>2, <2>1 DEF Ended
  <1>6. CASE Measure(r)
    <2>1. Fields(req'[r])
      BY <1>0, <1>6, RequestFields DEF Measure, Ended
    <2> QED BY <1>1, <1>2, <2>1 DEF Ended
  <1>7. CASE Erase(r)
    <2>1. Fields(req'[r])
      BY <1>0, <1>7, RequestFields DEF Erase, Ended, Knows, StepsOf, Generating, Refreshing
    <2> QED BY <1>1, <1>2, <2>1 DEF Ended
  <1> QED BY <1>3, <1>4, <1>5, <1>6, <1>7 DEF Quiet

\* So the invariant survives them.
LEMMA QuietInv ==
    ASSUME FInv, NEW r \in Req, Quiet(r)
    PROVE  FInv'
  <1>0. TInv /\ TInv' /\ \A s \in Req : s # r => req'[s] = req[s]
    BY OthersStay, TypesStep DEF FInv, Quiet, Step, Next
  <1>1. /\ UNCHANGED <<loc, locLock, locWork, foi, issued>>
        /\ req'[r].kind = req[r].kind /\ req'[r].made = req[r].made
        /\ req'[r].foi = req[r].foi /\ req'[r].hold = req[r].hold
        /\ req[r].pc \notin {"idle", "stamp"} \union Ended
        /\ req'[r].pc \notin {"idle", "lock", "create", "stamp", "drop"} \union Ended
        /\ req'[r].pc = "read" => req[r].kind # "post"
        /\ req'[r].pc = "commit" => req[r].kind # "delete"
    BY <1>0, QuietFacts
  <1>2. /\ \A s \in Req : /\ req'[s].kind = req[s].kind /\ req'[s].made = req[s].made
                          /\ req'[s].foi = req[s].foi /\ req'[s].hold = req[s].hold
    BY <1>0, <1>1
  <1>3. Fresh'
    BY <1>1, <1>2 DEF FInv, Fresh
  <1>4. GenFoiExists'
    BY <1>1 DEF FInv, GenFoiExists, Exists
  <1>5. Works'
    BY <1>0, <1>1, <1>2 DEF FInv, Works, TInv, TypeOK
  <1>6. Kept'
    BY <1>0, <1>1, <1>2 DEF FInv, Kept
  <1>7. Unlinked'
    BY <1>0, <1>1, <1>2 DEF FInv, Unlinked
  <1>8. Locked'
    BY <1>0, <1>1, <1>2 DEF FInv, Locked, TInv, TypeOK
  <1> QED BY <1>0, <1>3, <1>4, <1>5, <1>6, <1>7, <1>8 DEF FInv

\* A statement that writes the Location waits until no other request holds it.
LEMMA FreeLocation ==
    ASSUME NEW r \in Req, Free(r),
           \/ req[r].pc \in {"lock", "stamp", "move"}
           \/ req[r].pc = "unlink" /\ loc.gen = req[r].foi
    PROVE  locLock \in {r, NoReq}
  BY DEF Free, Blockers, Holders

\* A request that begins holds nothing; a DELETE names what exists.
LEMMA BeginFacts ==
    ASSUME FInv, NEW r \in Req, Begin(r)
    PROVE  /\ UNCHANGED <<loc, locLock, locWork, foi, issued>>
           /\ locLock # r /\ req'[r].made = NoFoi /\ req'[r].hold = {}
           /\ req'[r].pc \notin {"idle", "lock", "create", "stamp", "drop", "commit"}
           /\ req'[r].kind = "delete" => req'[r].foi \in Foi /\ Exists(req'[r].foi)
  <1>0. /\ req[r] \in Request /\ Knows(req[r]) /\ req \in [Req -> Request]
        /\ req[r].pc = "idle"
    BY DEF FInv, TInv, TypeOK, Known, Begin
  <1>1. req[r].made = NoFoi /\ req[r].hold = {} /\ req[r].kind = "post"
    BY <1>0, RequestFields DEF Knows, StepsOf, Generating, Refreshing, Ended, AllKinds
  <1>2. locLock # r
    BY <1>0, NoReqAssumption DEF FInv, Works
  <1>3. UNCHANGED <<loc, locLock, locWork, foi, issued>>
    BY DEF Begin, RowsUnchanged, DataUnchanged
  <1> DEFINE Good(p) ==
               /\ p.made = NoFoi /\ p.hold = {}
               /\ p.pc \notin {"idle", "lock", "create", "stamp", "drop", "commit"}
               /\ p.kind = "delete" => p.foi \in Foi /\ Exists(p.foi)
  <1>4. Good(req'[r])
    <2>0. \A q : req' = [req EXCEPT ![r] = q] => req'[r] = q
      BY <1>0
    <2>1. ASSUME NEW s,
                 \/ req' = [req EXCEPT ![r].pc = "read", ![r].sets = s]
                 \/ req' = [req EXCEPT ![r].kind = "bulk", ![r].pc = "read", ![r].sets = s]
          PROVE  Good(req'[r])
      BY <1>0, <1>1, <2>0, <2>1, RequestFields
    <2>2. ASSUME NEW s, NEW f,
                 req' = [req EXCEPT ![r].kind = "explicit", ![r].pc = "compare",
                                    ![r].sets = s, ![r].foi = f]
          PROVE  Good(req'[r])
      BY <1>0, <1>1, <2>0, <2>2, RequestFields
    <2>3. ASSUME req' = [req EXCEPT ![r].kind = "move", ![r].pc = "move"]
          PROVE  Good(req'[r])
      BY <1>0, <1>1, <2>0, <2>3, RequestFields
    <2>4. ASSUME NEW f \in Foi, Exists(f),
                 req' = [req EXCEPT ![r].kind = "delete", ![r].pc = "records", ![r].foi = f]
          PROVE  Good(req'[r])
      BY <1>0, <1>1, <2>0, <2>4, RequestFields
    <2>5. ASSUME NEW f \in Foi,
                 req' = [req EXCEPT ![r].kind = "reshape", ![r].pc = "reshape", ![r].foi = f]
          PROVE  Good(req'[r])
      BY <1>0, <1>1, <2>0, <2>5, RequestFields
    <2>6. ASSUME NEW o, NEW s,
                 req' = [req EXCEPT ![r].kind = "remove", ![r].pc = "erase", ![r].target = o,
                                    ![r].sets = s]
          PROVE  Good(req'[r])
      BY <1>0, <1>1, <2>0, <2>6, RequestFields
    <2> HIDE DEF Good
    <2> QED BY <2>1, <2>2, <2>3, <2>4, <2>5, <2>6 DEF Begin
  <1> QED BY <1>2, <1>3, <1>4

\* A request that arrives disturbs no other.
LEMMA BeginInv ==
    ASSUME FInv, NEW r \in Req, Begin(r)
    PROVE  FInv'
  <1>0. /\ TInv /\ TInv' /\ Knows(req[r]) /\ req[r] \in Request
        /\ \A s \in Req : s # r => req'[s] = req[s]
    BY OthersStay, TypesStep DEF FInv, Next, TInv, TypeOK, Known
  <1>1. /\ UNCHANGED <<loc, locLock, locWork, foi, issued>>
        /\ locLock # r /\ req'[r].made = NoFoi /\ req'[r].hold = {}
        /\ req'[r].pc \notin {"idle", "lock", "create", "stamp", "drop", "commit"}
        /\ req'[r].kind = "delete" => req'[r].foi \in Foi /\ Exists(req'[r].foi)
    BY BeginFacts
  <1>2. req'[r].kind = "delete" => req'[r].foi <= issued /\ foi[req'[r].foi] # NoRow
    BY <1>1, GivenAssumption DEF FInv, Fresh, Exists, TInv, TypeOK, Foi
  <1>3. Fresh'
    <2>1. \A s \in Req : /\ req'[s].made \in {req[s].made, NoFoi}
                         /\ req'[s].hold \subseteq req[s].hold
                         /\ req'[s].kind = "delete" =>
                              \/ req[s].kind = "delete" /\ req'[s].foi = req[s].foi
                              \/ req'[s].foi <= issued /\ foi[req'[s].foi] # NoRow
      BY <1>0, <1>1, <1>2
    <2>2. \A s \in Req : req'[s].made # NoFoi => req'[s].made = req[s].made
      BY <2>1
    <2>3. /\ \A f \in Foi : f > issued' => foi'[f] = NoRow
          /\ \A s \in Req : \A f \in req'[s].hold :
                f <= issued' /\ \A p \in Req : req'[p].made # f \/ f = NoFoi
      BY <1>1, <2>1, <2>2 DEF FInv, Fresh
    <2>4. \A s \in Req : \A f \in req'[s].hold : f # NoFoi
      BY <1>0, RequestFields DEF TInv, TypeOK, Foi, NoFoi
    <2>5. \A s \in Req : req'[s].kind = "delete" => req'[s].foi <= issued'
      BY <1>1, <2>1 DEF FInv, Fresh
    <2>6. ASSUME NEW s \in Req, req'[s].made # NoFoi
          PROVE  /\ req'[s].made <= issued' /\ foi'[req'[s].made] = NoRow
                 /\ \A p \in Req : /\ p # s => req'[p].made # req'[s].made
                                   /\ req'[p].kind = "delete" => req'[p].foi # req'[s].made
      BY <1>1, <2>1, <2>2, <2>6 DEF FInv, Fresh
    <2> QED BY <2>3, <2>4, <2>5, <2>6 DEF Fresh
  <1>4. GenFoiExists'
    BY <1>1 DEF FInv, GenFoiExists, Exists
  <1>5. Works'
    BY <1>0, <1>1, <1>2 DEF FInv, Works, TInv, TypeOK
  <1>6. Kept'
    BY <1>0, <1>1, <1>2 DEF FInv, Kept
  <1>7. Unlinked'
    BY <1>0, <1>1, <1>2 DEF FInv, Unlinked
  <1>8. Locked'
    BY <1>0, <1>1, <1>2 DEF FInv, Locked, TInv, TypeOK
  <1> QED BY <1>0, <1>3, <1>4, <1>5, <1>6, <1>7, <1>8 DEF FInv

\* A bulk request reads what it created itself, a single one has created nothing.
LEMMA ReadInv ==
    ASSUME FInv, NEW r \in Req, Read(r)
    PROVE  FInv'
  <1>0. /\ TInv /\ TInv' /\ Knows(req[r]) /\ req[r] \in Request
        /\ \A s \in Req : s # r => req'[s] = req[s]
    BY OthersStay, TypesStep DEF FInv, Step, Next, TInv, TypeOK, Known
  <1>1. UNCHANGED <<loc, locLock, locWork, foi, issued>>
    BY DEF Read, RowsUnchanged, DataUnchanged
  <1>2. /\ req[r].pc = "read" /\ req[r].kind # "delete"
        /\ req'[r].kind = req[r].kind /\ req'[r].made = req[r].made
        /\ req'[r].hold = req[r].hold
        /\ \/ req'[r].pc \in {"reuse", "lock"}
           \/ req'[r].pc = "create" /\ req[r].kind = "bulk"
        /\ SeenLoc(r).gen # NoFoi => req'[r].pc = "reuse"
    BY <1>0, RequestFields DEF Read, TInv, TypeOK, Knows, StepsOf, Refreshing, Ended
  <1>9. req[r].made # NoFoi => req'[r].pc = "reuse"
    BY <1>2 DEF FInv, Kept, SeenLoc
  <1>3. Fresh'
    BY <1>0, <1>1, <1>2 DEF FInv, Fresh
  <1>4. GenFoiExists'
    BY <1>1 DEF FInv, GenFoiExists, Exists
  <1>5. Works'
    BY <1>0, <1>1, <1>2 DEF FInv, Works, TInv, TypeOK, Ended
  <1>6. Kept'
    BY <1>0, <1>1, <1>2, <1>9 DEF FInv, Kept
  <1>7. Unlinked'
    BY <1>0, <1>1, <1>2 DEF FInv, Unlinked
  <1>8. Locked'
    BY <1>0, <1>1, <1>2 DEF FInv, Locked, TInv, TypeOK
  <1> QED BY <1>0, <1>3, <1>4, <1>5, <1>6, <1>7, <1>8 DEF FInv

\* The Location was free: it is as committed, and nobody is past stamping it.
LEMMA LockInv ==
    ASSUME FInv, NEW r \in Req, Lock(r)
    PROVE  FInv'
  <1>0. /\ TInv /\ TInv' /\ Knows(req[r]) /\ req[r] \in Request
        /\ \A s \in Req : s # r => req'[s] = req[s]
    BY OthersStay, TypesStep DEF FInv, Step, Next, TInv, TypeOK, Known
  <1>9. /\ req[r].pc = "lock" /\ req[r].kind = "post" /\ req[r].made = NoFoi
    BY <1>0, RequestFields DEF Lock, Knows, StepsOf, Generating, Refreshing, Ended, AllKinds
  <1>10. locLock = NoReq
    BY <1>9, FreeLocation DEF Lock, FInv, Locked
  <1>1. UNCHANGED <<loc, foi, issued>> /\ locLock' = r /\ locWork' = loc
    BY <1>10, NoReqAssumption DEF Lock, WriteLoc, DataUnchanged, SeenLoc
  <1>2. /\ req'[r].kind = "post" /\ req'[r].made = NoFoi /\ req'[r].hold = req[r].hold
        /\ req'[r].pc \in {"reuse", "create"}
        /\ req'[r].pc = "create" => loc.gen = NoFoi
    BY <1>0, <1>9, <1>10, RequestFields, NoReqAssumption DEF Lock, TInv, TypeOK, SeenLoc
  <1>3. Fresh'
    BY <1>0, <1>1, <1>2, <1>9 DEF FInv, Fresh
  <1>4. GenFoiExists'
    BY <1>1 DEF FInv, GenFoiExists, Exists
  <1>5. Works'
    BY <1>0, <1>1, <1>2, <1>9 DEF FInv, Works, TInv, TypeOK, Ended
  <1>6. Kept'
    BY <1>0, <1>1, <1>2, <1>9, <1>10, NoReqAssumption DEF FInv, Kept
  <1>7. Unlinked'
    BY <1>0, <1>1, <1>2, <1>9, <1>10, NoReqAssumption DEF FInv, Unlinked
  <1>8. Locked'
    BY <1>0, <1>1, <1>2, <1>9, <1>10, NoReqAssumption DEF FInv, Locked, TInv, TypeOK
  <1> QED BY <1>0, <1>3, <1>4, <1>5, <1>6, <1>7, <1>8 DEF FInv

\* The identifier is new to everybody.
LEMMA CreateInv ==
    ASSUME FInv, NEW r \in Req, Create(r)
    PROVE  FInv'
  <1>0. /\ TInv /\ TInv' /\ Knows(req[r]) /\ req[r] \in Request
        /\ \A s \in Req : s # r => req'[s] = req[s]
    BY OthersStay, TypesStep DEF FInv, Step, Next, TInv, TypeOK, Known
  <1>9. /\ req[r].pc = "create" /\ req[r].made = NoFoi /\ req[r].kind # "delete"
        /\ issued \in 0 .. MaxFoi /\ MaxFoi \in Nat /\ issued < MaxFoi
        /\ issued + 1 \in Foi /\ issued + 1 > issued /\ issued + 1 # NoFoi
    BY <1>0, GivenAssumption
       DEF Create, FInv, Kept, TInv, TypeOK, Foi, NoFoi, Knows, StepsOf, Refreshing, Ended
  <1>1. UNCHANGED <<loc, locLock, locWork, foi>> /\ issued' = issued + 1
    BY DEF Create, RowsUnchanged
  <1>2. /\ req'[r].kind = req[r].kind /\ req'[r].made = issued + 1
        /\ req'[r].hold = req[r].hold /\ req'[r].pc = "stamp"
    BY <1>0, RequestFields DEF Create, TInv, TypeOK
  <1>11. /\ \A s \in Req : /\ req[s].made \in Foi \union {NoFoi} /\ req[s].hold \in SUBSET Foi
                           /\ req[s].foi \in Foi \union {NoFoi}
    BY RequestFields DEF FInv, TInv, TypeOK
  <1>12. foi[issued + 1] = NoRow
    BY <1>9 DEF FInv, Fresh
  <1>3. Fresh'
    BY <1>0, <1>1, <1>2, <1>9, <1>11, <1>12 DEF FInv, Fresh, Foi, NoFoi
  <1>4. GenFoiExists'
    BY <1>1 DEF FInv, GenFoiExists, Exists
  <1>5. Works'
    BY <1>0, <1>1, <1>2, <1>9 DEF FInv, Works, TInv, TypeOK, Ended
  <1>6. Kept'
    BY <1>0, <1>1, <1>2, <1>9 DEF FInv, Kept
  <1>7. Unlinked'
    BY <1>0, <1>1, <1>2, <1>9 DEF FInv, Unlinked
  <1>8. Locked'
    BY <1>0, <1>1, <1>2, <1>9 DEF FInv, Locked, TInv, TypeOK
  <1> QED BY <1>0, <1>3, <1>4, <1>5, <1>6, <1>7, <1>8 DEF FInv

\* The Location was free and names nothing yet when a single Observation is posted.
LEMMA StampInv ==
    ASSUME FInv, NEW r \in Req, Stamp(r)
    PROVE  FInv'
  <1>0. /\ TInv /\ TInv' /\ Knows(req[r]) /\ req[r] \in Request
        /\ \A s \in Req : s # r => req'[s] = req[s]
    BY OthersStay, TypesStep DEF FInv, Step, Next, TInv, TypeOK, Known
  <1>9. /\ req[r].pc = "stamp" /\ req[r].made = req[r].foi /\ req[r].made # NoFoi
        /\ req[r].kind \in {"post", "bulk"}
    BY <1>0 DEF Stamp, Knows
  <1>10. locLock \in {r, NoReq} /\ \A s \in Req : s # r => locLock # s
    BY <1>9, FreeLocation, NoReqAssumption DEF Stamp
  <1>1. UNCHANGED <<loc, foi, issued>> /\ locLock' = r /\ locWork'.gen = req[r].made
    <2>1. SeenLoc(r) \in LocationRow
      BY <1>0, SeenTypes DEF TInv
    <2> QED BY <1>9, <2>1 DEF Stamp, WriteLoc, DataUnchanged, LocationRow
  <1>2. /\ req'[r].kind = req[r].kind /\ req'[r].made = req[r].made
        /\ req'[r].foi = req[r].foi /\ req'[r].hold = req[r].hold /\ req'[r].pc = "last"
    BY <1>0, RequestFields DEF Stamp, Go, TInv, TypeOK
  <1>3. Fresh'
    BY <1>0, <1>1, <1>2, <1>9 DEF FInv, Fresh
  <1>4. GenFoiExists'
    BY <1>1, <1>2 DEF FInv, GenFoiExists, Exists
  <1>5. Works'
    BY <1>0, <1>1, <1>2, <1>9 DEF FInv, Works, TInv, TypeOK, Ended
  <1>6. Kept'
    BY <1>0, <1>1, <1>2, <1>9, <1>10 DEF FInv, Kept
  <1>7. Unlinked'
    BY <1>0, <1>1, <1>2, <1>9, <1>10 DEF FInv, Unlinked
  <1>8. Locked'
    BY <1>0, <1>1, <1>2, <1>9, <1>10 DEF FInv, Locked, TInv, TypeOK
  <1> QED BY <1>0, <1>3, <1>4, <1>5, <1>6, <1>7, <1>8 DEF FInv

\* The Location was free; it names nothing any more.
LEMMA MoveInv ==
    ASSUME FInv, NEW r \in Req, Move(r)
    PROVE  FInv'
  <1>0. /\ TInv /\ TInv' /\ Knows(req[r]) /\ req[r] \in Request
        /\ \A s \in Req : s # r => req'[s] = req[s]
    BY OthersStay, TypesStep DEF FInv, Step, Next, TInv, TypeOK, Known
  <1>9. req[r].pc = "move" /\ req[r].made = NoFoi /\ req[r].kind = "move"
    BY <1>0, RequestFields
       DEF Move, Knows, StepsOf, Generating, Refreshing, Ended, AllKinds
  <1>10. locLock \in {r, NoReq} /\ \A s \in Req : s # r => locLock # s
    BY <1>9, FreeLocation, NoReqAssumption DEF Move
  <1>1. UNCHANGED <<loc, foi, issued>> /\ locLock' = r /\ locWork'.gen = NoFoi
    BY DEF Move, WriteLoc, DataUnchanged
  <1>2. /\ req'[r].kind = req[r].kind /\ req'[r].made = req[r].made
        /\ req'[r].foi = req[r].foi /\ req'[r].hold = req[r].hold /\ req'[r].pc = "commit"
    BY <1>0, RequestFields DEF Move, Go, TInv, TypeOK
  <1>3. Fresh'
    BY <1>0, <1>1, <1>2, <1>9 DEF FInv, Fresh
  <1>4. GenFoiExists'
    BY <1>1, <1>2 DEF FInv, GenFoiExists, Exists
  <1>5. Works'
    BY <1>0, <1>1, <1>2, <1>9 DEF FInv, Works, TInv, TypeOK, Ended
  <1>6. Kept'
    BY <1>0, <1>1, <1>2, <1>9, <1>10 DEF FInv, Kept
  <1>7. Unlinked'
    BY <1>0, <1>1, <1>2, <1>9, <1>10 DEF FInv, Unlinked
  <1>8. Locked'
    BY <1>0, <1>1, <1>2, <1>9, <1>10 DEF FInv, Locked, TInv, TypeOK
  <1> QED BY <1>0, <1>3, <1>4, <1>5, <1>6, <1>7, <1>8 DEF FInv

\* What exists has not been created by anybody who is still at work.
LEMMA ExistingIsNobodys ==
    ASSUME FInv, NEW f \in Foi, Exists(f)
    PROVE  f <= issued /\ \A s \in Req : req[s].made # f
  <1>1. f <= issued
    BY GivenAssumption DEF FInv, Fresh, Exists, TInv, TypeOK, Foi
  <1>2. \A s \in Req : req[s].made # f
    BY DEF FInv, Fresh, Exists
  <1> QED BY <1>1, <1>2

\* PATCH and DELETE take hold of a FeatureOfInterest that exists.
LEMMA HoldInv ==
    ASSUME FInv, NEW r \in Req, Reshape(r) \/ Drop(r)
    PROVE  FInv'
  <1>0. /\ TInv /\ TInv' /\ Knows(req[r]) /\ req[r] \in Request
        /\ \A s \in Req : s # r => req'[s] = req[s]
    BY OthersStay, TypesStep DEF FInv, Step, Next, TInv, TypeOK, Known
  <1>1. UNCHANGED <<loc, locLock, locWork, foi, issued>>
    BY DEF Reshape, Drop, RowsUnchanged, DataUnchanged
  <1>2. /\ req'[r].kind = req[r].kind /\ req'[r].made = req[r].made
        /\ req'[r].foi = req[r].foi
        /\ req'[r].hold = {f \in {req[r].foi} : Exists(f)}
        /\ \/ req[r].pc = "drop" /\ req'[r].pc = "commit"
           \/ req[r].pc = "reshape" /\ req'[r].pc = "records"
    <2> DEFINE h == {f \in {req[r].foi} : Exists(f)}
    <2>1. \/ /\ req[r].pc = "drop"
             /\ req' = [req EXCEPT ![r].pc = "commit", ![r].hold = h,
                                   ![r].gone = {o \in obs : o.foi = req[r].foi}]
          \/ /\ req[r].pc = "reshape"
             /\ req' = [req EXCEPT ![r].pc = "records", ![r].hold = h]
      BY DEF Reshape, Drop
    <2> HIDE DEF h
    <2>2. /\ req'[r].kind = req[r].kind /\ req'[r].made = req[r].made
          /\ req'[r].foi = req[r].foi /\ req'[r].hold = h
          /\ \/ req[r].pc = "drop" /\ req'[r].pc = "commit"
             \/ req[r].pc = "reshape" /\ req'[r].pc = "records"
      BY <1>0, <2>1, RequestFields DEF TInv, TypeOK
    <2> QED BY <2>2 DEF h
  <1>9. req[r].kind \in {"delete", "reshape"} /\ (req[r].pc = "reshape" => req[r].kind = "reshape")
    BY <1>0, <1>2, RequestFields DEF Knows, StepsOf, Generating, Refreshing, Ended, AllKinds
  <1>10. \A f \in req'[r].hold : f <= issued /\ \A s \in Req : req[s].made # f
    BY <1>0, <1>2, ExistingIsNobodys, RequestFields DEF Exists
  <1>3. Fresh'
    BY <1>0, <1>1, <1>2, <1>10 DEF FInv, Fresh
  <1>4. GenFoiExists'
    BY <1>1, <1>2 DEF FInv, GenFoiExists, Exists
  <1>5. Works'
    BY <1>0, <1>1, <1>2 DEF FInv, Works, TInv, TypeOK, Ended
  <1>6. Kept'
    BY <1>0, <1>1, <1>2, <1>9 DEF FInv, Kept
  <1>7. Unlinked'
    BY <1>0, <1>1, <1>2, <1>9 DEF FInv, Unlinked
  <1>8. Locked'
    BY <1>0, <1>1, <1>2, <1>9 DEF FInv, Locked, TInv, TypeOK
  <1> QED BY <1>0, <1>3, <1>4, <1>5, <1>6, <1>7, <1>8 DEF FInv

\* A DELETE goes on only when the Location, as committed or as itself left it, does
\* not name its FeatureOfInterest.
LEMMA UnlinkInv ==
    ASSUME FInv, NEW r \in Req, Unlink(r)
    PROVE  FInv'
  <1>0. /\ TInv /\ TInv' /\ Knows(req[r]) /\ req[r] \in Request
        /\ \A s \in Req : s # r => req'[s] = req[s]
    BY OthersStay, TypesStep DEF FInv, Step, Next, TInv, TypeOK, Known
  <1>9. /\ req[r].pc = "unlink" /\ req[r].made = NoFoi /\ req[r].kind = "delete"
        /\ req[r].foi # NoFoi
    BY <1>0, RequestFields
       DEF Unlink, Knows, StepsOf, Generating, Refreshing, Ended, AllKinds
  <1>1. UNCHANGED <<loc, foi, issued>>
    BY DEF Unlink, WriteLoc, DataUnchanged, RowsUnchanged
  <1>2. /\ req'[r].kind = req[r].kind /\ req'[r].made = req[r].made
        /\ req'[r].foi = req[r].foi /\ req'[r].hold = req[r].hold /\ req'[r].pc = "drop"
    BY <1>0, RequestFields DEF Unlink, Go, TInv, TypeOK
  <1>10. \/ /\ locLock' = r /\ locWork'.gen = NoFoi
            /\ \A s \in Req : s # r => locLock # s
         \/ /\ UNCHANGED <<locLock, locWork>>
            /\ loc.gen # req[r].foi \/ (locLock = r /\ locWork.gen = NoFoi)
    <2>1. CASE SeenLoc(r).gen = req[r].foi
      <3>1. SeenLoc(r) \in LocationRow
        BY <1>0, SeenTypes DEF TInv
      <3>2. locLock' = r /\ locWork'.gen = NoFoi
        BY <2>1, <3>1 DEF Unlink, WriteLoc, LocationRow
      <3>3. locLock \in {r, NoReq}
        BY <1>9, <2>1, FreeLocation DEF Unlink, SeenLoc
      <3> QED BY <3>2, <3>3, NoReqAssumption
    <2>2. CASE SeenLoc(r).gen # req[r].foi
      <3>1. UNCHANGED <<locLock, locWork>>
        BY <2>2 DEF Unlink, RowsUnchanged
      <3>2. loc.gen # req[r].foi \/ (locLock = r /\ locWork.gen = NoFoi)
        BY <1>9, <2>2, NoReqAssumption DEF SeenLoc, FInv, Works
      <3> QED BY <3>1, <3>2
    <2> QED BY <2>1, <2>2
  <1>3. Fresh'
    BY <1>0, <1>1, <1>2, <1>9 DEF FInv, Fresh
  <1>4. GenFoiExists'
    BY <1>1, <1>2 DEF FInv, GenFoiExists, Exists
  <1>5. Works'
    BY <1>0, <1>1, <1>2, <1>9, <1>10 DEF FInv, Works, TInv, TypeOK, Ended
  <1>6. Kept'
    BY <1>0, <1>1, <1>2, <1>9, <1>10 DEF FInv, Kept
  <1>7. Unlinked'
    BY <1>0, <1>1, <1>2, <1>9, <1>10 DEF FInv, Unlinked
  <1>8. Locked'
    BY <1>0, <1>1, <1>2, <1>9, <1>10 DEF FInv, Locked, TInv, TypeOK
  <1> QED BY <1>0, <1>3, <1>4, <1>5, <1>6, <1>7, <1>8 DEF FInv

\* A request that ends leaves the Location free if it held it.
LEMMA EndFacts ==
    ASSUME FInv, NEW r \in Req, NEW row, NEW rows, NEW how \in Ended,
           Release(r, row, rows), Finish(r, how)
    PROVE  /\ loc' = row
           /\ locLock = r => locLock' = NoReq
           /\ locLock # r => UNCHANGED <<locLock, locWork>>
           /\ req'[r].kind = req[r].kind /\ req'[r].pc \in Ended
           /\ req'[r].foi = NoFoi /\ req'[r].made = NoFoi /\ req'[r].hold = {}
           /\ \A s \in Req : s # r => req'[s] = req[s]
  BY RequestFields DEF FInv, TInv, TypeOK, Release, Finish

\* An error, a deadlock or a lost connection: the committed rows stay.
LEMMA RollBackInv ==
    ASSUME FInv, NEW r \in Req, Reject(r) \/ BreakDeadlock(r) \/ Cancel(r)
    PROVE  FInv'
  <1>0. /\ TInv /\ TInv' /\ Knows(req[r]) /\ req[r] \in Request
        /\ \A s \in Req : s # r => req'[s] = req[s]
    BY OthersStay, TypesStep DEF FInv, Step, Next, TInv, TypeOK, Known
  <1>9. PICK how \in Ended : RollBack(r, how)
    BY DEF Reject, BreakDeadlock, Cancel, Ended
  <1>1. UNCHANGED <<foi, issued>>
    BY <1>9 DEF RollBack
  <1>2. /\ loc' = loc
        /\ locLock = r => locLock' = NoReq
        /\ locLock # r => UNCHANGED <<locLock, locWork>>
        /\ req'[r].kind = req[r].kind /\ req'[r].pc \in Ended
        /\ req'[r].foi = NoFoi /\ req'[r].made = NoFoi /\ req'[r].hold = {}
        /\ \A s \in Req : s # r => req'[s] = req[s]
    BY <1>9, EndFacts DEF RollBack
  <1>10. /\ \A s \in Req : req[s].made \in Foi \union {NoFoi} /\ req[s].hold \in SUBSET Foi
        /\ issued \in Nat /\ 0 <= issued
    BY RequestFields, GivenAssumption DEF FInv, TInv, TypeOK
  <1>11. req'[r].pc \notin {"idle", "read", "lock", "create", "stamp", "drop", "commit"}
    BY <1>2 DEF Ended
  <1>3. Fresh'
    <2>1. /\ \A f \in Foi : f > issued' => foi'[f] = NoRow
          /\ \A s \in Req : req'[s].kind = "delete" => req'[s].foi <= issued'
      BY <1>1, <1>2, <1>10 DEF FInv, Fresh, NoFoi
    <2>2. ASSUME NEW s \in Req, req'[s].made # NoFoi
          PROVE  /\ req'[s].made <= issued' /\ foi'[req'[s].made] = NoRow
                 /\ \A p \in Req : /\ p # s => req'[p].made # req'[s].made
                                   /\ req'[p].kind = "delete" => req'[p].foi # req'[s].made
      BY <1>1, <1>2, <2>2 DEF FInv, Fresh
    <2>3. ASSUME NEW s \in Req, NEW f \in req'[s].hold
          PROVE  f <= issued' /\ \A p \in Req : req'[p].made # f
      <3>1. f \in Foi /\ f \in req[s].hold /\ f # NoFoi
        BY <1>2, <1>10, <2>3 DEF Foi, NoFoi
      <3> QED BY <1>1, <1>2, <3>1 DEF FInv, Fresh
    <2> QED BY <2>1, <2>2, <2>3 DEF Fresh
  <1>4. GenFoiExists'
    BY <1>1, <1>2 DEF FInv, GenFoiExists, Exists
  <1>5. Works'
    BY <1>0, <1>1, <1>2, NoReqAssumption DEF FInv, Works, TInv, TypeOK, Ended
  <1>6. Kept'
    BY <1>0, <1>1, <1>2 DEF FInv, Kept
  <1>7. Unlinked'
    BY <1>0, <1>1, <1>2, <1>11 DEF FInv, Unlinked
  <1>8. Locked'
    BY <1>0, <1>1, <1>2, <1>11, NoReqAssumption DEF FInv, Locked, TInv, TypeOK
  <1> QED BY <1>0, <1>3, <1>4, <1>5, <1>6, <1>7, <1>8 DEF FInv

\* What a commit leaves of a FeatureOfInterest: the one created is there, and only
\* what the request deleted is not.
LEMMA CommittedExists ==
    ASSUME FInv, NEW r \in Req, req[r].pc = "commit"
    PROVE  /\ req[r].made # NoFoi => Committed(r, req[r].made) # NoRow
           /\ \A f \in Foi : /\ f > issued => Committed(r, f) = foi[f]
                             /\ \A s \in Req : (s # r /\ f = req[s].made) =>
                                   Committed(r, f) = foi[f]
                             /\ Exists(f) /\ (req[r].kind = "delete" => f # req[r].foi)
                                  => Committed(r, f) # NoRow
  <1>0. /\ Knows(req[r]) /\ req[r].name \in Name \union {NoName}
        /\ req[r].made \in Foi \union {NoFoi}
        /\ req[r].hold \in SUBSET Foi /\ issued \in Nat /\ MaxFoi \in Nat
    BY RequestFields, GivenAssumption DEF FInv, TInv, TypeOK, Known
  <1>1. req[r].made # NoFoi => req[r].name # NoName
    BY <1>0, NoNameAssumption DEF Knows
  <1>2. req[r].made # NoFoi => Committed(r, req[r].made) # NoRow
    BY <1>1 DEF Committed, NoRow
  <1>3. ASSUME NEW f \in Foi, f > issued
        PROVE  Committed(r, f) = foi[f]
    <2>1. f \notin req[r].hold /\ (req[r].made # NoFoi => f # req[r].made)
      BY <1>0, <1>3 DEF FInv, Fresh, Foi
    <2> QED BY <2>1 DEF Committed, Foi, NoFoi
  <1>4. ASSUME NEW f \in Foi, NEW s \in Req, s # r, f = req[s].made
        PROVE  Committed(r, f) = foi[f]
    <2>1. f # NoFoi
      BY DEF Foi, NoFoi
    <2>2. f \notin req[r].hold /\ f # req[r].made
      BY <1>4, <2>1 DEF FInv, Fresh
    <2> QED BY <2>2 DEF Committed
  <1>5. ASSUME NEW f \in Foi, Exists(f), req[r].kind = "delete" => f # req[r].foi
        PROVE  Committed(r, f) # NoRow
    <2>1. foi[f] \in FoiRow /\ foi[f] # NoRow
      BY <1>5 DEF Exists, FInv, TInv, TypeOK
    <2>2. f # NoFoi
      BY <1>5 DEF Exists
    <2>3. CASE f = req[r].made
      BY <1>2, <2>2, <2>3
    <2>4. CASE f # req[r].made /\ f \in req[r].hold
      <3>1. req[r].kind # "delete"
        BY <1>0, <1>5, <2>4 DEF Knows
      <3>2. Committed(r, f) = [foi[f] EXCEPT !.shape = 1]
        BY <2>4, <3>1 DEF Committed
      <3>3. Committed(r, f).shape = 1
        BY <2>1, <3>2 DEF FoiRow
      <3> QED BY <3>3 DEF NoRow
    <2>5. CASE f # req[r].made /\ f \notin req[r].hold
      BY <2>1, <2>5 DEF Committed
    <2> QED BY <2>3, <2>4, <2>5
  <1> QED BY <1>2, <1>3, <1>4, <1>5

\* The Location that a commit leaves names what it named, nothing, or what the request
\* created; not the last unless the request held the Location.
LEMMA CommitInv ==
    ASSUME FInv, NEW r \in Req, Commit(r)
    PROVE  FInv'
  <1>0. /\ TInv /\ TInv' /\ Knows(req[r]) /\ req[r] \in Request
        /\ req[r].pc = "commit"
    BY TypesStep DEF FInv, Step, Next, TInv, TypeOK, Known, Commit
  <1>1. foi' = [f \in Foi |-> Committed(r, f)] /\ UNCHANGED issued
    BY DEF Commit
  <1>2. /\ loc' = SeenLoc(r)
        /\ locLock = r => locLock' = NoReq
        /\ locLock # r => UNCHANGED <<locLock, locWork>>
        /\ req'[r].kind = req[r].kind /\ req'[r].pc \in Ended
        /\ req'[r].foi = NoFoi /\ req'[r].made = NoFoi /\ req'[r].hold = {}
        /\ \A s \in Req : s # r => req'[s] = req[s]
    <2>1. PICK how \in Ended : Finish(r, how)
      BY DEF Commit, Ended
    <2> QED BY <2>1, EndFacts DEF Commit
  <1>3. /\ locLock # r => loc' = loc
        /\ locLock = r => loc'.gen \in {loc.gen, NoFoi, req[r].made}
        /\ locLock = r => loc'.gen = locWork.gen
    BY <1>2, NoReqAssumption DEF SeenLoc, FInv, Works
  <1>4. /\ \A s \in Req : /\ req[s].made \in Foi \union {NoFoi}
                          /\ req[s].hold \in SUBSET Foi
                          /\ Knows(req[s])
        /\ loc.gen \in Foi \union {NoFoi} /\ issued \in Nat /\ 0 <= issued
    BY RequestFields, GivenAssumption DEF FInv, TInv, TypeOK, Known, LocationRow
  <1>5. req'[r].pc \notin {"idle", "read", "lock", "create", "stamp", "drop", "commit"}
    BY <1>2 DEF Ended
  <1>6. Fresh'
    <2>1. \A f \in Foi : f > issued' => foi'[f] = NoRow
      BY <1>0, <1>1, CommittedExists DEF FInv, Fresh
    <2>2. \A s \in Req : req'[s].kind = "delete" => req'[s].foi <= issued'
      BY <1>1, <1>2, <1>4 DEF FInv, Fresh, NoFoi
    <2>3. ASSUME NEW s \in Req, req'[s].made # NoFoi
          PROVE  /\ req'[s].made <= issued' /\ foi'[req'[s].made] = NoRow
                 /\ \A p \in Req : /\ p # s => req'[p].made # req'[s].made
                                   /\ req'[p].kind = "delete" => req'[p].foi # req'[s].made
      <3>1. s # r /\ req'[s] = req[s] /\ req[s].made \in Foi
        BY <1>2, <1>4, <2>3
      <3>2. foi'[req[s].made] = NoRow
        BY <1>0, <1>1, <2>3, <3>1, CommittedExists DEF FInv, Fresh
      <3> QED BY <1>1, <1>2, <2>3, <3>1, <3>2 DEF FInv, Fresh
    <2>4. ASSUME NEW s \in Req, NEW f \in req'[s].hold
          PROVE  f <= issued' /\ \A p \in Req : req'[p].made # f
      <3>1. f \in Foi /\ f \in req[s].hold /\ f # NoFoi
        BY <1>2, <1>4, <2>4 DEF Foi, NoFoi
      <3> QED BY <1>1, <1>2, <3>1 DEF FInv, Fresh
    <2> QED BY <2>1, <2>2, <2>3, <2>4 DEF Fresh
  <1>7. GenFoiExists'
    <2> SUFFICES ASSUME loc'.gen # NoFoi PROVE foi'[loc'.gen] # NoRow
      BY DEF GenFoiExists, Exists
    <2>1. CASE locLock = r /\ loc'.gen = req[r].made
      <3>1. req[r].made \in Foi
        BY <1>4, <2>1
      <3> QED BY <1>0, <1>1, <2>1, <3>1, CommittedExists
    <2>2. CASE loc'.gen = loc.gen
      <3>1. loc.gen \in Foi /\ Exists(loc.gen)
        BY <1>4, <2>2 DEF FInv, GenFoiExists
      <3>2. req[r].kind = "delete" => loc.gen # req[r].foi
        BY <1>0, <1>3, <2>2 DEF FInv, Unlinked
      <3> QED BY <1>0, <1>1, <2>2, <3>1, <3>2, CommittedExists
    <2> QED BY <1>3, <2>1, <2>2
  <1>8. Works'
    BY <1>2, <1>3 DEF FInv, Works, TInv, TypeOK
  <1>9. Kept'
    BY <1>2, <1>3 DEF FInv, Kept
  <1>10. Unlinked'
    <2>1. ASSUME NEW s \in Req, req'[s].kind = "delete", req'[s].pc \in {"drop", "commit"}
          PROVE  loc'.gen # req'[s].foi \/ (locLock' = s /\ locWork'.gen = NoFoi)
      <3>1. s # r /\ req'[s] = req[s]
        BY <1>2, <1>5, <2>1
      <3>2. req[s].foi # NoFoi
        BY <1>4, <2>1, <3>1 DEF Knows, Ended
      <3>3. req[r].made # NoFoi => req[s].foi # req[r].made
        BY <2>1, <3>1 DEF FInv, Fresh
      <3> QED BY <1>2, <1>3, <2>1, <3>1, <3>2, <3>3 DEF FInv, Unlinked
    <2> QED BY <2>1 DEF Unlinked
  <1>11. Locked'
    BY <1>2, <1>3, <1>5, NoReqAssumption DEF FInv, Locked, TInv, TypeOK
  <1> QED BY <1>0, <1>6, <1>7, <1>8, <1>9, <1>10, <1>11 DEF FInv

-----------------------------------------------------------------------------
(* The theorems.                                                           *)

\* Nothing is generated, locked or deleted at the start.
LEMMA FInit == Init => FInv
  <1> SUFFICES ASSUME Init PROVE FInv
    OBVIOUS
  <1>1. /\ \A r \in Req : /\ req[r].kind = "post" /\ req[r].pc = "idle"
                          /\ req[r].made = NoFoi /\ req[r].hold = {}
        /\ locLock = NoReq /\ loc.gen = NoFoi /\ issued = Given
    BY DEF Init
  <1>2. \A f \in Foi : f > issued => foi[f] = NoRow
    BY GivenAssumption DEF Init, Foi
  <1> QED BY <1>1, <1>2, TypesInit, NoReqAssumption
          DEF FInv, Fresh, GenFoiExists, Works, Kept, Unlinked, Locked

\* Every step preserves the invariant, by the lemma about its kind of step.
LEMMA FStep == FInv /\ [Next]_vars => FInv'
  <1> SUFFICES ASSUME FInv, [Next]_vars PROVE FInv'
    OBVIOUS
  <1>1. CASE UNCHANGED vars
    BY <1>1 DEF vars, FInv, TInv, TypeOK, Known, Fresh, GenFoiExists, Exists, Works, Kept,
                Unlinked, Locked
  <1>2. ASSUME NEW r \in Req, Begin(r) \/ Step(r) \/ BreakDeadlock(r) \/ Cancel(r)
        PROVE  FInv'
    BY <1>2, BeginInv, ReadInv, LockInv, CreateInv, StampInv, MoveInv, HoldInv, UnlinkInv,
       QuietInv, CommitInv, RollBackInv DEF Step, Quiet
  <1> QED BY <1>1, <1>2 DEF Next

\* Types, the freshness of identifiers, who works on the Location and what a DELETE has
\* unlinked: all of it holds in every reachable state.
THEOREM FoiInvariance == Spec => []FInv
  BY FInit, FStep, PTL DEF Spec

\* gen_foi_id never names a FeatureOfInterest that is not there, for any number of
\* requests of every kind, whatever they interleave and wherever they are broken off.
THEOREM GeneratedExists == Spec => []GenFoiExists
  <1>1. FInv => GenFoiExists
    BY DEF FInv
  <1> QED BY <1>1, FoiInvariance, PTL

\* Without bulk requests the FeatureOfInterest generated for a Location is replaced only
\* after it was forgotten.
THEOREM GeneratedOnce == Spec => StampedOnce
  <1> DEFINE Once == NoBulk /\ loc.gen # NoFoi => loc'.gen \in {loc.gen, NoFoi}
  <1>1. FInv /\ [Next]_vars => [Once]_vars
    <2> SUFFICES ASSUME FInv, [Next]_vars, NoBulk, loc.gen # NoFoi
                 PROVE  loc'.gen \in {loc.gen, NoFoi}
      OBVIOUS
    <2>1. CASE UNCHANGED vars
      BY <2>1 DEF vars
    <2>2. ASSUME NEW r \in Req, Begin(r) \/ Step(r) \/ BreakDeadlock(r) \/ Cancel(r)
          PROVE  loc'.gen \in {loc.gen, NoFoi}
      <3>1. CASE Commit(r)
        <4>1. loc' = SeenLoc(r) /\ req[r].kind # "bulk"
          BY <3>1 DEF Commit, Release, NoBulk
        <4> QED BY <4>1, NoReqAssumption DEF SeenLoc, FInv, Locked
      <3>2. CASE ~Commit(r)
        <4>1. loc' = loc
          BY <2>2, <3>2
             DEF Begin, Step, BreakDeadlock, Cancel, RollBack, Release, RowsUnchanged,
             WriteLoc, WriteDs, Read, Lock, Create, Stamp, Reuse, Compare, Last, Insert, Extent,
             Move, Reshape, Records, Measure, WriteArea, Unlink, Drop, Erase, Reject
        <4> QED BY <4>1
      <3> QED BY <3>1, <3>2
    <2> QED BY <2>1, <2>2 DEF Next
  <1> QED BY <1>1, FoiInvariance, PTL DEF Spec, StampedOnce
-----------------------------------------------------------------------------
(* The observedArea.                                                       *)

Inserting == {"post", "explicit", "bulk", "move"}

Together(s) == \A o, p \in s : o.ds = p.ds

InArea(f, row) == <<f, 0>> \in row.area

\* Nothing is deleted or reshaped.
Plain ==
    /\ \A f \in Foi : foi[f].shape = 0
    /\ \A r \in Req : req[r].kind \in Inserting /\ req[r].hold = {} /\ req[r].gone = {}

\* last_foi_id is in the area, and the row being written has the committed area in its.
Remembered ==
    \A d \in Datastream :
        /\ ds[d].last # NoFoi => InArea(ds[d].last, ds[d])
        /\ dsWork[d].last # NoFoi => InArea(dsWork[d].last, dsWork[d])
        /\ dsLock[d] # NoReq => ds[d].area \subseteq dsWork[d].area

\* As long as the Observations are of one Datastream, its area covers them and the
\* FeatureOfInterest of the Location, which has one only if there are Observations.
CoversNow ==
    /\ loc.gen # NoFoi => obs # {}
    /\ Together(obs) => \A o \in obs :
          /\ InArea(o.foi, ds[o.ds])
          /\ loc.gen # NoFoi => InArea(loc.gen, ds[o.ds])

\* What request r knows of the FeatureOfInterest at hand and of those it inserted: the
\* area it sees covers them, unless its Datastream is not the only one.
Sees(r) ==
    LET q == req[r] IN
    /\ q.pc \in {"reuse", "compare", "last", "insert", "extent"} =>
          q.foi \in Foi /\ (Exists(q.foi) \/ q.foi = q.made)
    /\ q.kind = "post" /\ q.pc = "reuse" =>
          obs # {} /\ (Together(obs) => \A o \in obs : InArea(q.foi, ds[o.ds]))
    /\ q.kind # "bulk" /\ q.pc = "insert" =>
          (\E o \in obs : o.ds # At(r)) \/ InArea(q.foi, SeenDs(r, At(r)))
    /\ q.kind # "bulk" /\ q.pc \notin {"extent", "commit"} => q.mine = {}
    /\ \A o \in q.mine :
          \/ \E p \in obs \union q.mine : p.ds # o.ds
          \/ InArea(o.foi, SeenDs(r, o.ds))
          \/ q.kind = "bulk" /\ q.pc = "extent" /\ o.ds = At(r) /\ o.foi = q.foi
    /\ q.made # NoFoi =>
          \/ \E o \in q.mine : o.foi = q.made
          \/ q.pc \in {"stamp", "last", "insert"} /\ q.foi = q.made

CInv == OnlyInserts => Plain /\ Remembered /\ CoversNow /\ \A r \in Req : Sees(r)

\* A request that has begun does not change its kind.
LEMMA KindStays ==
    ASSUME TInv, NEW r \in Req, Begin(r) \/ Step(r) \/ BreakDeadlock(r) \/ Cancel(r),
           req[r].pc # "idle"
    PROVE  req'[r].kind = req[r].kind /\ req'[r].pc # "idle"
  <1>0. req \in [Req -> Request] /\ req[r] \in Request /\ ~Begin(r)
    BY DEF TInv, TypeOK, Begin
  <1>1. CASE Quiet(r)
    BY <1>1, QuietFacts
  <1>2. CASE Read(r) \/ Lock(r) \/ Create(r) \/ Stamp(r) \/ Move(r) \/ Unlink(r)
    BY <1>0, <1>2, RequestFields DEF Read, Lock, Create, Stamp, Move, Unlink, Go
  <1>3. CASE Reshape(r) \/ Drop(r)
    BY <1>0, <1>3, RequestFields, ZenonT(60) DEF Reshape, Drop
  <1>4. CASE Commit(r) \/ Reject(r) \/ BreakDeadlock(r) \/ Cancel(r)
    <2>1. PICK how \in Ended : Finish(r, how)
      BY <1>4 DEF Commit, Reject, BreakDeadlock, Cancel, RollBack, Ended
    <2> QED BY <1>0, <2>1 DEF Finish, Ended
  <1> QED BY <1>0, <1>1, <1>2, <1>3, <1>4 DEF Step, Quiet

\* Then a request is at one of these statements, and only some kinds are there.
LEMMA InsertingAt ==
    ASSUME TInv, Plain, NEW r \in Req
    PROVE  /\ req[r].pc \notin {"reshape", "records", "measure", "write", "unlink", "drop",
                                "erase"}
           /\ req[r].pc = "idle" => req[r].kind = "post" /\ req[r].made = NoFoi
           /\ req[r].pc = "lock" => req[r].kind = "post"
           /\ req[r].pc = "reuse" => req[r].kind \in {"post", "bulk"}
           /\ req[r].pc = "compare" => req[r].kind = "explicit"
           /\ req[r].kind \notin {"post", "bulk"} => req[r].made = NoFoi
           /\ req[r].pc = "move" => req[r].kind = "move"
  <1>1. Knows(req[r]) /\ req[r].kind \in Inserting
    BY DEF TInv, Known, Plain
  <1> QED BY <1>1 DEF Knows, StepsOf, Generating, Refreshing, Ended, Inserting

\* Requests that arrive later do not undo that.
LEMMA InsertingBefore ==
    ASSUME TInv, [Next]_vars, OnlyInserts'
    PROVE  OnlyInserts
  <1> SUFFICES ASSUME NEW s \in Req, req[s].pc # "idle"
               PROVE  req[s].kind \in {"post", "explicit", "bulk", "move"}
    BY DEF OnlyInserts
  <1>1. req'[s].kind = req[s].kind /\ req'[s].pc # "idle"
    <2>1. CASE UNCHANGED vars
      BY <2>1 DEF vars
    <2>2. ASSUME NEW r \in Req, Begin(r) \/ Step(r) \/ BreakDeadlock(r) \/ Cancel(r)
          PROVE  req'[s].kind = req[s].kind /\ req'[s].pc # "idle"
      <3>1. CASE s # r
        BY <2>2, <3>1, OthersStay
      <3>2. CASE s = r
        BY <2>2, <3>2, KindStays
      <3> QED BY <3>1, <3>2
    <2> QED BY <2>1, <2>2 DEF Next
  <1> QED BY <1>1 DEF OnlyInserts

\* What a request knows of the area survives what others do, as areas only grow and
\* neither Observations nor FeaturesOfInterest go away.
LEMMA OthersSee ==
    ASSUME TInv, NEW s \in Req, Sees(s), req'[s] = req[s], obs \subseteq obs',
           \A f \in Foi : foi[f] # NoRow => foi'[f] # NoRow,
           \A d \in Datastream : /\ ds[d].area \subseteq ds'[d].area
                                 /\ SeenDs(s, d).area \subseteq SeenDs(s, d)'.area,
           obs' \subseteq Observation
    PROVE  Sees(s)'
  <1> DEFINE q == req[s]
             d == At(s)
  <1>0. /\ q \in Request /\ q.mine \subseteq Observation /\ obs \subseteq Observation
        /\ At(s)' = d
        /\ q.pc \in {"insert", "extent"} => d \in Datastream
    BY AtDatastream, RequestFields DEF TInv, TypeOK, At
  <1>1. q.pc \in {"reuse", "compare", "last", "insert", "extent"} =>
          q.foi \in Foi /\ (Exists(q.foi)' \/ q.foi = q.made)
    BY DEF Sees, Exists
  <1>2. q.kind = "post" /\ q.pc = "reuse" =>
          obs' # {} /\ (Together(obs') => \A o \in obs' : InArea(q.foi, ds'[o.ds]))
    <2> SUFFICES ASSUME q.kind = "post", q.pc = "reuse", Together(obs'), NEW o \in obs'
                 PROVE  InArea(q.foi, ds'[o.ds])
      BY DEF Sees
    <2>1. PICK p \in obs : TRUE
      BY DEF Sees
    <2>2. Together(obs) /\ p.ds = o.ds /\ o.ds \in Datastream
      BY <1>0 DEF Together, Observation
    <2>3. InArea(q.foi, ds[o.ds])
      BY <2>1, <2>2 DEF Sees
    <2> QED BY <2>2, <2>3 DEF InArea
  <1>3. q.kind # "bulk" /\ q.pc = "insert" =>
          (\E o \in obs' : o.ds # d) \/ InArea(q.foi, SeenDs(s, d)')
    <2> SUFFICES ASSUME q.kind # "bulk", q.pc = "insert", \A o \in obs' : o.ds = d
                 PROVE  InArea(q.foi, SeenDs(s, d)')
      OBVIOUS
    <2>1. PICK e \in Datastream : e = d
      BY <1>0
    <2>2. InArea(q.foi, SeenDs(s, e))
      BY <2>1 DEF Sees
    <2>3. InArea(q.foi, SeenDs(s, e)')
      BY <2>2 DEF InArea
    <2>4. d' = e
      BY <1>0, <2>1
    <2> QED BY <2>3, <2>4
  <1>4. \A o \in q.mine :
          \/ \E p \in obs' \union q.mine : p.ds # o.ds
          \/ InArea(o.foi, SeenDs(s, o.ds)')
          \/ q.kind = "bulk" /\ q.pc = "extent" /\ o.ds = d /\ o.foi = q.foi
    <2> SUFFICES ASSUME NEW o \in q.mine,
                        \A p \in obs' \union q.mine : p.ds = o.ds,
                        ~(q.kind = "bulk" /\ q.pc = "extent" /\ o.ds = d /\ o.foi = q.foi)
                 PROVE  InArea(o.foi, SeenDs(s, o.ds)')
      OBVIOUS
    <2>1. o.ds \in Datastream
      BY <1>0 DEF Observation
    <2>2. InArea(o.foi, SeenDs(s, o.ds))
      BY DEF Sees
    <2> QED BY <2>1, <2>2 DEF InArea
  <1>5. /\ q.kind # "bulk" /\ q.pc \notin {"extent", "commit"} => q.mine = {}
        /\ q.made # NoFoi =>
          \/ \E o \in q.mine : o.foi = q.made
          \/ q.pc \in {"stamp", "last", "insert"} /\ q.foi = q.made
    BY DEF Sees
  <1> QED BY <1>0, <1>1, <1>2, <1>3, <1>4, <1>5 DEF Sees

-----------------------------------------------------------------------------
(* What the statements of an insert do to the Datastreams.                 *)

\* The statements of an insert, and of a move of the Location.
Statement(r) ==
    Begin(r) \/ Read(r) \/ Lock(r) \/ Create(r) \/ Stamp(r) \/ Reuse(r) \/ Compare(r)
      \/ Last(r) \/ Insert(r) \/ Extent(r) \/ Move(r)

\* The geometry of the FeatureOfInterest at hand is widened by as it is.
LEMMA WidenedHas ==
    ASSUME TInv, Plain, NEW r \in Req, Sees(r), req[r].pc \in {"last", "extent"},
           NEW row \in DatastreamRow
    PROVE  LET w == Widened(r, row) IN
           /\ w \in DatastreamRow /\ w.last = req[r].foi
           /\ row.area \subseteq w.area /\ InArea(req[r].foi, w)
  <1> DEFINE q == req[r]
             w == Widened(r, row)
  <1>1. /\ q.foi \in Foi /\ (Exists(q.foi) \/ q.foi = q.made) /\ q.foi # NoFoi
        /\ Geometry(r, q.foi) \in Area /\ foi[q.foi].shape = 0
    BY SeenTypes DEF Sees, Plain, TInv, Foi, NoFoi
  <1>2. <<q.foi, 0>> \in Geometry(r, q.foi)
    BY <1>1 DEF Geometry
  <1>3. w.last = q.foi /\ w.area = row.area \union Geometry(r, q.foi)
    BY DEF Widened
  <1>4. w \in DatastreamRow
    BY <1>1 DEF Widened, DatastreamRow, Area
  <1> QED BY <1>2, <1>3, <1>4 DEF InArea

\* A row that is written keeps what was in it, and last_foi_id is in its area.
LEMMA WriteGrows ==
    ASSUME TInv, Remembered, NEW r \in Req, NEW d \in Datastream, NEW row,
           dsLock[d] \in {r, NoReq}, WriteDs(r, d, row),
           SeenDs(r, d).area \subseteq row.area,
           row.last # NoFoi => InArea(row.last, row)
    PROVE  /\ Remembered' /\ SeenDs(r, d)' = row
           /\ \A e \in Datastream :
                 /\ SeenDs(r, e).area \subseteq SeenDs(r, e)'.area
                 /\ \A s \in Req : s # r => SeenDs(s, e)' = SeenDs(s, e)
  <1>1. /\ dsLock' = [dsLock EXCEPT ![d] = r] /\ dsWork' = [dsWork EXCEPT ![d] = row]
        /\ ds' = ds
        /\ DOMAIN dsLock = Datastream /\ DOMAIN dsWork = Datastream
    BY DEF WriteDs, TInv, TypeOK
  <1>2. ds[d].area \subseteq SeenDs(r, d).area
    BY NoReqAssumption DEF SeenDs, Remembered
  <1>3. Remembered'
    BY <1>1, <1>2 DEF Remembered, InArea
  <1>4. SeenDs(r, d)' = row
    BY <1>1 DEF SeenDs
  <1>5. \A e \in Datastream : e # d => SeenDs(r, e)' = SeenDs(r, e)
    BY <1>1 DEF SeenDs
  <1>6. \A e \in Datastream, s \in Req : s # r => SeenDs(s, e)' = SeenDs(s, e)
    BY <1>1, NoReqAssumption DEF SeenDs
  <1> QED BY <1>3, <1>4, <1>5, <1>6

\* The committed rows stay, and areas only grow.
LEMMA StatementRows ==
    ASSUME FInv, Plain, Remembered, NEW r \in Req, Sees(r), Statement(r)
    PROVE  /\ UNCHANGED <<loc, ds, obs, foi>> /\ Remembered'
           /\ \A d \in Datastream :
                 /\ SeenDs(r, d).area \subseteq SeenDs(r, d)'.area
                 /\ \A s \in Req : s # r => SeenDs(s, d)' = SeenDs(s, d)
           /\ Last(r) \/ (Extent(r) /\ req[r].kind = "bulk") =>
                 \A d \in Datastream : d = At(r) => InArea(req[r].foi, SeenDs(r, d)')
  <1>0. TInv /\ \A d \in Datastream : SeenDs(r, d) \in DatastreamRow
    BY SeenTypes DEF FInv, TInv
  <1>1. UNCHANGED <<loc, ds, obs, foi>>
    BY DEF Statement, Begin, Read, Lock, Create, Stamp, Reuse, Compare, Last, Insert, Extent, Move,
           RowsUnchanged, DataUnchanged, WriteLoc, WriteDs
  <1>2. CASE UNCHANGED <<dsLock, dsWork>> /\ ~Last(r) /\ ~Extent(r)
    <2>1. \A s \in Req, d \in Datastream : SeenDs(s, d)' = SeenDs(s, d)
      BY <1>1, <1>2 DEF SeenDs
    <2>2. Remembered'
      BY <1>1, <1>2 DEF Remembered
    <2> QED BY <1>1, <1>2, <2>1, <2>2
  <1>3. CASE Last(r) \/ Extent(r)
    <2>0. PICK d \in Datastream : d = At(r)
      BY <1>0, <1>3, AtDatastream DEF Last, Extent
    <2> DEFINE row == IF Last(r) \/ req[r].kind = "bulk" THEN Widened(r, SeenDs(r, d))
                      ELSE SeenDs(r, d)
    <2>1. req[r].pc \in {"last", "extent"} /\ Free(r)
      BY <1>3 DEF Last, Extent
    <2>2. dsLock[d] \in {r, NoReq}
      BY <2>0, <2>1 DEF Free, Blockers, Holders
    <2>3. ~(Last(r) /\ Extent(r))
      BY DEF Last, Extent
    <2>4. WriteDs(r, d, row)
      BY <1>3, <2>0, <2>3 DEF Last, Extent
    <2>5. SeenDs(r, d).last # NoFoi => InArea(SeenDs(r, d).last, SeenDs(r, d))
      BY <2>1 DEF SeenDs, Remembered
    <2>6. /\ SeenDs(r, d).area \subseteq row.area
          /\ row.last # NoFoi => InArea(row.last, row)
          /\ Last(r) \/ req[r].kind = "bulk" => InArea(req[r].foi, row)
      BY <1>0, <2>1, <2>5, WidenedHas
    <2> HIDE DEF row
    <2>7. /\ Remembered' /\ SeenDs(r, d)' = row
          /\ \A e \in Datastream :
                /\ SeenDs(r, e).area \subseteq SeenDs(r, e)'.area
                /\ \A s \in Req : s # r => SeenDs(s, e)' = SeenDs(s, e)
      BY <1>0, <2>1, <2>2, <2>4, <2>6, WriteGrows
    <2> QED BY <1>1, <1>3, <2>0, <2>6, <2>7
  <1>4. UNCHANGED <<dsLock, dsWork>> \/ Last(r) \/ Extent(r)
    BY DEF Statement, Begin, Read, Lock, Create, Stamp, Reuse, Compare, Insert, Move,
           RowsUnchanged, WriteLoc
  <1> QED BY <1>2, <1>3, <1>4

-----------------------------------------------------------------------------
(* What a statement leaves its own request knowing.                        *)

\* What it inserted stays covered; after the end of a set the last one is, too.
LEMMA MineKept ==
    ASSUME TInv, NEW r \in Req, Sees(r), UNCHANGED obs, req[r].pc # "extent",
           \A d \in Datastream : SeenDs(r, d).area \subseteq SeenDs(r, d)'.area
    PROVE  \A o \in req[r].mine :
              (\E p \in obs \union req[r].mine : p.ds # o.ds) \/ InArea(o.foi, SeenDs(r, o.ds)')
  <1> SUFFICES ASSUME NEW o \in req[r].mine, \A p \in obs \union req[r].mine : p.ds = o.ds
               PROVE  InArea(o.foi, SeenDs(r, o.ds)')
    OBVIOUS
  <1>1. o.ds \in Datastream
    BY RequestFields DEF TInv, TypeOK, Observation
  <1>2. InArea(o.foi, SeenDs(r, o.ds))
    BY DEF Sees
  <1> QED BY <1>1, <1>2 DEF InArea

\* NoFoi is not one of them.
LEMMA FoiNumbers == NoFoi \notin Foi
  BY DEF NoFoi, Foi

\* A request that begins.
LEMMA BeginSees ==
    ASSUME FInv, Plain, NEW r \in Req, Sees(r), Begin(r), OnlyInserts', UNCHANGED foi
    PROVE  Sees(r)' /\ req'[r].kind \in Inserting /\ req'[r].hold = {} /\ req'[r].gone = {}
  <1>0. /\ req[r] \in Request /\ req \in [Req -> Request] /\ TInv
        /\ req[r].pc = "idle" /\ req[r].made = NoFoi /\ req[r].kind = "post"
        /\ req[r].hold = {} /\ req[r].gone = {}
    BY InsertingAt DEF FInv, TInv, TypeOK, Begin, Plain
  <1>1. req[r].mine = {}
    BY <1>0 DEF Sees
  <1> DEFINE Good(p) ==
               /\ p.made = NoFoi /\ p.mine = {} /\ p.hold = {} /\ p.gone = {}
               /\ p.pc \in {"read", "compare", "move", "records", "reshape", "erase"}
               /\ p.pc = "compare" => p.foi \in Foi /\ Exists(p.foi)
  <1>2. Good(req'[r])
    <2>0. \A q : req' = [req EXCEPT ![r] = q] => req'[r] = q
      BY <1>0
    <2>1. ASSUME NEW s,
                 \/ req' = [req EXCEPT ![r].pc = "read", ![r].sets = s]
                 \/ req' = [req EXCEPT ![r].kind = "bulk", ![r].pc = "read", ![r].sets = s]
          PROVE  Good(req'[r])
      BY <1>0, <1>1, <2>0, <2>1, RequestFields
    <2>2. ASSUME NEW s, NEW f \in Foi, Exists(f),
                 req' = [req EXCEPT ![r].kind = "explicit", ![r].pc = "compare",
                                    ![r].sets = s, ![r].foi = f]
          PROVE  Good(req'[r])
      BY <1>0, <1>1, <2>0, <2>2, RequestFields
    <2>3. ASSUME req' = [req EXCEPT ![r].kind = "move", ![r].pc = "move"]
          PROVE  Good(req'[r])
      BY <1>0, <1>1, <2>0, <2>3, RequestFields
    <2>4. ASSUME NEW f,
                 \/ req' = [req EXCEPT ![r].kind = "delete", ![r].pc = "records", ![r].foi = f]
                 \/ req' = [req EXCEPT ![r].kind = "reshape", ![r].pc = "reshape", ![r].foi = f]
          PROVE  Good(req'[r])
      BY <1>0, <1>1, <2>0, <2>4, RequestFields
    <2>5. ASSUME NEW o, NEW s,
                 req' = [req EXCEPT ![r].kind = "remove", ![r].pc = "erase", ![r].target = o,
                                    ![r].sets = s]
          PROVE  Good(req'[r])
      BY <1>0, <1>1, <2>0, <2>5, RequestFields
    <2> HIDE DEF Good
    <2> QED BY <2>1, <2>2, <2>3, <2>4, <2>5 DEF Begin
  <1>3. req'[r].kind \in Inserting
    BY <1>2 DEF OnlyInserts, Inserting
  <1>4. Sees(r)'
    BY <1>2 DEF Sees, Exists
  <1> QED BY <1>2, <1>3, <1>4

\* A request that looks for the FeatureOfInterest of the Location.
LEMMA GenerateSees ==
    ASSUME FInv, Plain, Remembered, CoversNow, NEW r \in Req, Sees(r),
           Read(r) \/ Lock(r) \/ Create(r) \/ Stamp(r)
    PROVE  Sees(r)'
  <1> DEFINE q == req[r]
             p == req'[r]
             row == SeenLoc(r)
  <1>0. /\ q \in Request /\ req \in [Req -> Request] /\ TInv /\ Knows(q)
        /\ row \in LocationRow
    BY SeenTypes DEF FInv, TInv, TypeOK, Known
  <1>1. /\ UNCHANGED <<loc, ds, obs, foi>>
        /\ \A d \in Datastream : SeenDs(r, d).area \subseteq SeenDs(r, d)'.area
    BY StatementRows DEF Statement
  <1>2. q.pc \in {"read", "lock", "create", "stamp"}
    BY DEF Read, Lock, Create, Stamp
  <1>3. \A o \in q.mine : \/ \E m \in obs \union q.mine : m.ds # o.ds
                          \/ InArea(o.foi, SeenDs(r, o.ds)')
    BY <1>0, <1>1, <1>2, MineKept
  <1>9. q.kind # "bulk" => q.mine = {}
    BY <1>2 DEF Sees
  <1>4. CASE Read(r) \/ Lock(r)
    <2>1. /\ p.kind = q.kind /\ p.mine = q.mine /\ p.made = q.made /\ p.foi = row.gen
          /\ p.pc \in {"reuse", "create", "lock"} /\ (p.pc = "reuse" => row.gen # NoFoi)
      BY <1>0, <1>4, RequestFields DEF Read, Lock
    <2>2. q.made # NoFoi => \E o \in q.mine : o.foi = q.made
      BY <1>4 DEF Sees, Read, Lock
    <2>3. q.kind = "post" => row = loc
      <3>1. CASE Read(r)
        BY <3>1 DEF Read, SeenLoc, FInv, Locked
      <3>2. CASE Lock(r)
        BY <3>2 DEF Lock, SeenLoc, FInv, Locked
      <3> QED BY <1>4, <3>1, <3>2
    <2>4. row.gen # NoFoi => row.gen \in Foi /\ (Exists(row.gen) \/ row.gen = q.made)
      BY <1>0, NoReqAssumption DEF SeenLoc, FInv, Works, GenFoiExists, LocationRow
    <2>5. p.pc = "reuse" => p.foi \in Foi /\ (foi'[p.foi] # NoRow \/ p.foi = p.made)
      BY <1>1, <2>1, <2>4 DEF Exists
    <2>6. p.kind = "post" /\ p.pc = "reuse" =>
            obs' # {} /\ (Together(obs') => \A o \in obs' : InArea(p.foi, ds'[o.ds]))
      BY <1>1, <2>1, <2>3 DEF CoversNow
    <2> QED BY <1>1, <1>3, <1>9, <2>1, <2>2, <2>5, <2>6, FoiNumbers DEF Sees, Exists
  <1>5. CASE Create(r)
    <2>1. /\ p.kind = q.kind /\ p.mine = q.mine /\ p.made = p.foi /\ p.pc = "stamp"
      BY <1>0, <1>5, RequestFields DEF Create
    <2> QED BY <1>1, <1>3, <1>9, <2>1 DEF Sees
  <1>6. CASE Stamp(r)
    <2>1. /\ p.kind = q.kind /\ p.mine = q.mine /\ p.made = q.made /\ p.foi = q.foi
          /\ p.pc = "last" /\ q.pc = "stamp"
      BY <1>0, <1>6, RequestFields DEF Stamp, Go
    <2>2. q.foi = q.made /\ q.foi \in Foi
      BY <1>0, <2>1, RequestFields DEF Knows
    <2> QED BY <1>1, <1>3, <1>9, <2>1, <2>2 DEF Sees
  <1> QED BY <1>4, <1>5, <1>6

\* A request that decides whether to widen the area.
LEMMA DecideSees ==
    ASSUME FInv, Plain, Remembered, CoversNow, NEW r \in Req, Sees(r), Reuse(r) \/ Compare(r)
    PROVE  Sees(r)'
  <1> DEFINE q == req[r]
             p == req'[r]
  <1>0. /\ q \in Request /\ req \in [Req -> Request] /\ TInv /\ Knows(q)
    BY DEF FInv, TInv, TypeOK, Known
  <1>1. /\ UNCHANGED <<loc, ds, obs, foi>>
        /\ \A d \in Datastream : SeenDs(r, d).area \subseteq SeenDs(r, d)'.area
    BY StatementRows DEF Statement
  <1>2. q.pc \in {"reuse", "compare"}
    BY DEF Reuse, Compare
  <1>3. \A o \in q.mine : \/ \E m \in obs \union q.mine : m.ds # o.ds
                          \/ InArea(o.foi, SeenDs(r, o.ds)')
    BY <1>0, <1>1, <1>2, MineKept
  <1>4. /\ p.kind = q.kind /\ p.mine = q.mine /\ p.made = q.made /\ p.foi = q.foi
        /\ p.sets = q.sets /\ p.pc \in {"last", "insert"}
    BY <1>0, RequestFields DEF Reuse, Compare, Go
  <1>5. p.foi \in Foi /\ (foi'[p.foi] # NoRow \/ p.foi = p.made)
    BY <1>1, <1>2, <1>4 DEF Sees, Exists
  <1>6. /\ p.made # NoFoi => \E o \in p.mine : o.foi = p.made
        /\ q.kind # "bulk" => q.mine = {}
    BY <1>2, <1>4 DEF Sees
  <1>7. PICK d \in Datastream : d = At(r)
    BY <1>0, <1>2, AtDatastream
  <1>8. ds[d].area \subseteq SeenDs(r, d).area
    BY NoReqAssumption DEF SeenDs, Remembered
  <1>9. q.kind # "bulk" /\ p.pc = "insert" =>
          (\E o \in obs : o.ds # d) \/ InArea(q.foi, SeenDs(r, d)')
    <2> SUFFICES ASSUME q.kind # "bulk", p.pc = "insert", \A o \in obs : o.ds = d
                 PROVE  InArea(q.foi, SeenDs(r, d))
      BY <1>1 DEF InArea
    <2>1. CASE Reuse(r)
      <3>1. q.kind = "post" /\ q.pc = "reuse" /\ SeenObs(r) = obs
        BY <1>0, <1>6, <2>1, InsertingAt DEF Reuse, SeenObs, Plain
      <3>2. \E o \in obs : o.ds = d
        BY <1>0, <1>7, <2>1, <3>1, RequestFields DEF Reuse, Go
      <3>3. InArea(q.foi, ds[d])
        BY <3>1, <3>2 DEF Sees, Together
      <3> QED BY <1>8, <3>3 DEF InArea
    <2>2. CASE Compare(r)
      <3>1. SeenDs(r, d).last = q.foi /\ q.foi # NoFoi
        BY <1>0, <1>7, <2>2, RequestFields DEF Compare, Go, Knows
      <3> QED BY <3>1 DEF SeenDs, Remembered
    <2> QED BY <2>1, <2>2
  <1>10. At(r)' = d
    BY <1>4, <1>7 DEF At
  <1> QED BY <1>1, <1>3, <1>4, <1>5, <1>6, <1>9, <1>10, FoiNumbers DEF Sees, Exists

\* A request that widens the area, inserts, or moves the Location.
LEMMA InsertSees ==
    ASSUME FInv, Plain, Remembered, NEW r \in Req, Sees(r),
           Last(r) \/ Insert(r) \/ Extent(r) \/ Move(r)
    PROVE  Sees(r)'
  <1> DEFINE q == req[r]
             p == req'[r]
  <1>0. /\ q \in Request /\ req \in [Req -> Request] /\ TInv /\ Knows(q)
        /\ q.mine \subseteq Observation
    BY RequestFields DEF FInv, TInv, TypeOK, Known
  <1>1. /\ UNCHANGED <<loc, ds, obs, foi>>
        /\ \A d \in Datastream : SeenDs(r, d).area \subseteq SeenDs(r, d)'.area
        /\ Last(r) \/ (Extent(r) /\ q.kind = "bulk") =>
              \A d \in Datastream : d = At(r) => InArea(q.foi, SeenDs(r, d)')
    BY StatementRows DEF Statement
  <1>2. q.pc # "extent" =>
          \A o \in q.mine : \/ \E m \in obs \union q.mine : m.ds # o.ds
                            \/ InArea(o.foi, SeenDs(r, o.ds)')
    BY <1>0, <1>1, MineKept
  <1>3. CASE Move(r)
    <2>1. /\ p.kind = q.kind /\ p.mine = q.mine /\ p.made = q.made /\ p.pc = "commit"
          /\ q.pc = "move"
      BY <1>0, <1>3, RequestFields DEF Move, Go
    <2>2. p.made = NoFoi
      BY <1>0, <2>1, InsertingAt
    <2> QED BY <1>1, <1>2, <2>1, <2>2 DEF Sees
  <1>4. CASE ~Move(r)
    <2>1. q.pc \in {"last", "insert", "extent"}
      BY <1>4 DEF Last, Insert, Extent
    <2>2. PICK d \in Datastream : d = At(r)
      BY <1>0, <2>1, AtDatastream
    <2>3. q.foi \in Foi /\ (Exists(q.foi) \/ q.foi = q.made) /\ q.foi # NoFoi
      BY <2>1, FoiNumbers DEF Sees
    <2>4. CASE Last(r)
      <3>1. /\ p.kind = q.kind /\ p.mine = q.mine /\ p.made = q.made /\ p.foi = q.foi
            /\ p.sets = q.sets /\ p.pc = "insert" /\ q.pc = "last"
        BY <1>0, <2>4, RequestFields DEF Last, Go
      <3>2. At(r)' = d
        BY <2>2, <3>1 DEF At
      <3>3. InArea(q.foi, SeenDs(r, d)')
        BY <1>1, <2>2, <2>4
      <3>4. /\ q.kind # "bulk" => p.mine = {}
            /\ p.made # NoFoi => (\E o \in p.mine : o.foi = p.made) \/ p.foi = p.made
        BY <3>1 DEF Sees
      <3> QED BY <1>1, <1>2, <2>3, <3>1, <3>2, <3>3, <3>4 DEF Sees, Exists
    <2>5. CASE Insert(r)
      <3> DEFINE new == [by |-> r, ds |-> At(r), foi |-> q.foi]
      <3>1. /\ p.kind = q.kind /\ p.mine = q.mine \union {new} /\ p.made = q.made
            /\ p.foi = q.foi /\ p.sets = q.sets /\ p.pc = "extent" /\ q.pc = "insert"
        BY <1>0, <2>5, RequestFields DEF Insert
      <3>2. At(r)' = d /\ new.ds = d /\ new.foi = q.foi
        BY <2>2, <3>1 DEF At
      <3>3. \/ \E m \in obs \union p.mine : m.ds # new.ds
            \/ InArea(new.foi, SeenDs(r, d)')
            \/ q.kind = "bulk"
        <4> SUFFICES ASSUME \A m \in obs : m.ds = d, q.kind # "bulk"
                     PROVE  InArea(q.foi, SeenDs(r, d)')
          BY <3>2
        <4>1. InArea(q.foi, SeenDs(r, d))
          BY <2>2, <3>1 DEF Sees
        <4> QED BY <1>1, <4>1 DEF InArea
      <3>4. \A o \in p.mine : \/ \E m \in obs \union p.mine : m.ds # o.ds
                              \/ InArea(o.foi, SeenDs(r, o.ds)')
                              \/ q.kind = "bulk" /\ o.ds = d /\ o.foi = q.foi
        BY <1>2, <3>1, <3>2, <3>3
      <3>5. p.made # NoFoi => \E o \in p.mine : o.foi = p.made
        BY <3>1, <3>2 DEF Sees
      <3> HIDE DEF new
      <3> QED BY <1>1, <2>3, <3>1, <3>2, <3>4, <3>5 DEF Sees, Exists
    <2>6. CASE Extent(r)
      <3>1. /\ p.kind = q.kind /\ p.mine = q.mine /\ p.made = q.made
            /\ q.pc = "extent" /\ p.pc \in {"measure", "read", "commit"}
            /\ p.pc # "commit" => q.kind \in {"bulk", "remove"}
        BY <1>0, <2>6, RequestFields DEF Extent
      <3>2. \A o \in p.mine : \/ \E m \in obs \union p.mine : m.ds # o.ds
                              \/ InArea(o.foi, SeenDs(r, o.ds)')
        <4> SUFFICES ASSUME NEW o \in q.mine, \A m \in obs \union q.mine : m.ds = o.ds
                     PROVE  InArea(o.foi, SeenDs(r, o.ds)')
          BY <3>1
        <4>1. o.ds \in Datastream
          BY <1>0 DEF Observation
        <4>2. CASE InArea(o.foi, SeenDs(r, o.ds))
          BY <1>1, <4>1, <4>2 DEF InArea
        <4>3. CASE q.kind = "bulk" /\ o.ds = At(r) /\ o.foi = q.foi
          BY <1>1, <2>6, <4>1, <4>3
        <4> QED BY <4>2, <4>3 DEF Sees
      <3>3. p.made # NoFoi => \E o \in p.mine : o.foi = p.made
        BY <3>1 DEF Sees
      <3>4. p.kind # "bulk" => p.pc = "commit"
        BY <3>1 DEF Plain, Inserting
      <3> QED BY <1>1, <3>1, <3>2, <3>3, <3>4 DEF Sees
    <2> QED BY <1>4, <2>4, <2>5, <2>6
  <1> QED BY <1>3, <1>4

-----------------------------------------------------------------------------
(* CInv is inductive.                                                      *)

\* The statements of an insert.
LEMMA StatementCovers ==
    ASSUME FInv, FInv', Plain, Remembered, CoversNow, \A s \in Req : Sees(s),
           NEW r \in Req, Statement(r), OnlyInserts'
    PROVE  Plain' /\ Remembered' /\ CoversNow' /\ \A s \in Req : Sees(s)'
  <1>0. TInv /\ TInv' /\ req[r] \in Request /\ req \in [Req -> Request]
    BY DEF FInv, TInv, TypeOK
  <1>1. /\ UNCHANGED <<loc, ds, obs, foi>> /\ Remembered'
        /\ \A d \in Datastream : \A s \in Req : s # r => SeenDs(s, d)' = SeenDs(s, d)
    BY StatementRows
  <1>2. \A s \in Req : s # r => req'[s] = req[s]
    BY <1>0, OthersStay DEF Statement, Step
  <1>3. Sees(r)' /\ req'[r].kind \in Inserting /\ req'[r].hold = {} /\ req'[r].gone = {}
    <2>1. CASE Begin(r)
      BY <1>1, <2>1, BeginSees
    <2>2. CASE ~Begin(r)
      <3>1. Sees(r)'
        BY <2>2, GenerateSees, DecideSees, InsertSees DEF Statement
      <3>2. req'[r].kind = req[r].kind /\ req'[r].hold = req[r].hold
              /\ req'[r].gone = req[r].gone
        BY <1>0, <2>2, RequestFields
           DEF Statement, Read, Lock, Create, Stamp, Reuse, Compare, Last, Insert, Extent, Move, Go
      <3> QED BY <3>1, <3>2 DEF Plain
    <2> QED BY <2>1, <2>2
  <1>4. Plain'
    BY <1>1, <1>2, <1>3 DEF Plain
  <1>5. CoversNow'
    BY <1>1 DEF CoversNow
  <1>6. ASSUME NEW s \in Req, s # r
        PROVE  Sees(s)'
    BY <1>0, <1>1, <1>2, <1>6, OthersSee DEF TInv, TypeOK
  <1> QED BY <1>1, <1>3, <1>4, <1>5, <1>6

\* An error or a lost connection leaves the committed rows, and the locks of r go.
LEMMA RollBackCovers ==
    ASSUME FInv, FInv', Plain, Remembered, CoversNow, \A s \in Req : Sees(s),
           NEW r \in Req, Reject(r) \/ BreakDeadlock(r) \/ Cancel(r)
    PROVE  Plain' /\ Remembered' /\ CoversNow' /\ \A s \in Req : Sees(s)'
  <1>0. TInv /\ TInv' /\ req \in [Req -> Request]
    BY DEF FInv, TInv, TypeOK
  <1>1. PICK how \in Ended : RollBack(r, how)
    BY DEF Reject, BreakDeadlock, Cancel, Ended
  <1>2. /\ UNCHANGED <<loc, ds, foi, obs>>
        /\ dsLock' = [d \in Datastream |-> IF dsLock[d] = r THEN NoReq ELSE dsLock[d]]
        /\ dsWork' = [d \in Datastream |-> IF dsLock[d] = r THEN ds[d] ELSE dsWork[d]]
    BY <1>1 DEF RollBack, Release
  <1>3. /\ req'[r].kind = req[r].kind /\ req'[r].pc \in Ended /\ req'[r].hold = {}
        /\ req'[r].gone = {} /\ req'[r].mine = {} /\ req'[r].made = NoFoi
        /\ \A s \in Req : s # r => req'[s] = req[s]
    BY <1>0, <1>1 DEF RollBack, Finish
  <1>4. Plain'
    BY <1>2, <1>3 DEF Plain
  <1>5. Remembered'
    BY <1>2 DEF Remembered, InArea
  <1>6. CoversNow'
    BY <1>2 DEF CoversNow
  <1>7. Sees(r)'
    BY <1>3 DEF Sees, Ended
  <1>8. ASSUME NEW s \in Req, s # r
        PROVE  Sees(s)'
    <2>1. \A d \in Datastream : SeenDs(s, d)' = SeenDs(s, d)
      BY <1>2, <1>8, NoReqAssumption DEF SeenDs
    <2> QED BY <1>0, <1>2, <1>3, <1>8, <2>1, OthersSee DEF TInv, TypeOK
  <1> QED BY <1>4, <1>5, <1>6, <1>7, <1>8

\* A commit publishes an area that covers what it publishes with it, since it is the
\* committed one and more.
LEMMA CommitCovers ==
    ASSUME FInv, FInv', Plain, Remembered, CoversNow, \A s \in Req : Sees(s),
           NEW r \in Req, Commit(r)
    PROVE  Plain' /\ Remembered' /\ CoversNow' /\ \A s \in Req : Sees(s)'
  <1> DEFINE q == req[r]
  <1>0. /\ TInv /\ TInv' /\ req \in [Req -> Request] /\ q \in Request
        /\ q.mine \subseteq Observation /\ obs \subseteq Observation
        /\ q.hold = {} /\ q.gone = {} /\ q.pc = "commit"
    BY RequestFields DEF FInv, TInv, TypeOK, Plain, Commit
  <1>1. /\ loc' = SeenLoc(r) /\ obs' = obs \union q.mine
        /\ ds' = [d \in Datastream |-> SeenDs(r, d)]
        /\ dsLock' = [d \in Datastream |-> IF dsLock[d] = r THEN NoReq ELSE dsLock[d]]
        /\ dsWork' = [d \in Datastream |-> IF dsLock[d] = r THEN ds'[d] ELSE dsWork[d]]
        /\ foi' = [f \in Foi |-> Committed(r, f)]
    BY <1>0 DEF Commit, Release, SeenObs
  <1>2. \A f \in Foi : foi'[f].shape = 0 /\ (foi[f] # NoRow => foi'[f] # NoRow)
    <2>1. \A f \in Foi : foi'[f].shape = 0
      BY <1>0, <1>1 DEF Committed, Plain
    <2>2. \A f \in Foi : foi[f] # NoRow => foi'[f] # NoRow
      BY <1>0, <1>1, CommittedExists, FoiNumbers DEF Exists, Plain, Inserting
    <2> QED BY <2>1, <2>2
  <1>3. /\ req'[r].kind = req[r].kind /\ req'[r].pc \in Ended /\ req'[r].hold = {}
        /\ req'[r].gone = {} /\ req'[r].mine = {} /\ req'[r].made = NoFoi
        /\ \A s \in Req : s # r => req'[s] = req[s]
    BY <1>0 DEF Commit, Finish, Ended
  <1>4. \A d \in Datastream : ds[d].area \subseteq ds'[d].area
    BY <1>1, NoReqAssumption DEF SeenDs, Remembered
  <1>5. Plain'
    BY <1>2, <1>3 DEF Plain
  <1>6. Remembered'
    <2>1. \A d \in Datastream : ds'[d].last # NoFoi => InArea(ds'[d].last, ds'[d])
      BY <1>1 DEF SeenDs, Remembered
    <2>2. \A d \in Datastream :
             /\ dsWork'[d].last # NoFoi => InArea(dsWork'[d].last, dsWork'[d])
             /\ dsLock'[d] # NoReq => ds'[d].area \subseteq dsWork'[d].area
      BY <1>1, <2>1 DEF SeenDs, Remembered
    <2> QED BY <2>1, <2>2 DEF Remembered
  <1>7. CoversNow'
    <2>1. ASSUME Together(obs'), NEW o \in q.mine
          PROVE  InArea(o.foi, ds'[o.ds])
      <3>1. o.ds \in Datastream /\ \A p \in obs \union q.mine : p.ds = o.ds
        BY <1>0, <1>1, <2>1 DEF Together, Observation
      <3>2. InArea(o.foi, SeenDs(r, o.ds))
        BY <1>0, <3>1 DEF Sees
      <3> QED BY <1>1, <3>1, <3>2
    <2>2. ASSUME Together(obs'), NEW o \in obs
          PROVE  InArea(o.foi, ds'[o.ds]) /\ (loc.gen # NoFoi => InArea(loc.gen, ds'[o.ds]))
      <3>1. o.ds \in Datastream /\ Together(obs)
        BY <1>0, <1>1, <2>2 DEF Together, Observation
      <3> QED BY <1>4, <3>1 DEF CoversNow, InArea
    <2>3. loc'.gen \in {loc.gen, NoFoi, q.made}
      BY <1>1, NoReqAssumption DEF SeenLoc, FInv, Works
    <2>4. q.made # NoFoi => \E m \in q.mine : m.foi = q.made
      BY <1>0 DEF Sees
    <2>5. loc'.gen # NoFoi =>
             \E m \in obs' : Together(obs') => InArea(loc'.gen, ds'[m.ds])
      <3>1. CASE loc'.gen = loc.gen /\ loc.gen # NoFoi
        <4>1. PICK m \in obs : TRUE
          BY <3>1 DEF CoversNow
        <4> QED BY <1>1, <2>2, <3>1, <4>1
      <3>2. CASE loc'.gen = q.made /\ q.made # NoFoi
        <4>1. PICK m \in q.mine : m.foi = q.made
          BY <2>4, <3>2
        <4> QED BY <1>1, <2>1, <3>2, <4>1
      <3> QED BY <2>3, <3>1, <3>2
    <2>6. loc'.gen # NoFoi => obs' # {}
      BY <2>5
    <2>7. ASSUME Together(obs'), NEW o \in obs'
          PROVE  /\ InArea(o.foi, ds'[o.ds])
                 /\ loc'.gen # NoFoi => InArea(loc'.gen, ds'[o.ds])
      <3>1. InArea(o.foi, ds'[o.ds])
        BY <1>1, <2>1, <2>2, <2>7
      <3>2. \A m \in obs' : m.ds = o.ds
        BY <2>7 DEF Together
      <3> QED BY <2>5, <2>7, <3>1, <3>2
    <2> QED BY <2>6, <2>7 DEF CoversNow
  <1>8. Sees(r)'
    BY <1>3 DEF Sees, Ended
  <1>9. ASSUME NEW s \in Req, s # r
        PROVE  Sees(s)'
    <2>1. \A d \in Datastream : SeenDs(s, d).area \subseteq SeenDs(s, d)'.area
      <3> SUFFICES ASSUME NEW d \in Datastream
                   PROVE  SeenDs(s, d).area \subseteq SeenDs(s, d)'.area
        OBVIOUS
      <3>1. CASE dsLock[d] = s
        BY <1>1, <1>9, <3>1 DEF SeenDs
      <3>2. CASE dsLock[d] # s
        <4>1. SeenDs(s, d) = ds[d] /\ SeenDs(s, d)' = ds'[d]
          BY <1>1, <3>2, NoReqAssumption DEF SeenDs
        <4> QED BY <1>4, <4>1
      <3> QED BY <3>1, <3>2
    <2> QED BY <1>0, <1>1, <1>2, <1>3, <1>4, <1>9, <2>1, OthersSee DEF TInv, TypeOK
  <1> QED BY <1>5, <1>6, <1>7, <1>8, <1>9

\* Every step keeps what CInv says.
LEMMA CStep == FInv /\ CInv /\ [Next]_vars => CInv'
  <1> SUFFICES ASSUME FInv, CInv, [Next]_vars, OnlyInserts'
               PROVE  Plain' /\ Remembered' /\ CoversNow' /\ \A s \in Req : Sees(s)'
    BY DEF CInv
  <1>1. FInv' /\ TInv
    BY FStep DEF FInv
  <1>2. Plain /\ Remembered /\ CoversNow /\ \A s \in Req : Sees(s)
    BY <1>1, InsertingBefore DEF CInv
  <1>3. CASE UNCHANGED vars
    BY <1>2, <1>3, SMTT(30)
       DEF vars, Plain, Remembered, CoversNow, Sees, InArea, SeenDs, At, Exists, Together
  <1>4. ASSUME NEW r \in Req, Begin(r) \/ Step(r) \/ BreakDeadlock(r) \/ Cancel(r)
        PROVE  Plain' /\ Remembered' /\ CoversNow' /\ \A s \in Req : Sees(s)'
    <2>1. ~(Reshape(r) \/ Records(r) \/ Measure(r) \/ WriteArea(r) \/ Unlink(r) \/ Drop(r)
              \/ Erase(r))
      BY <1>1, <1>2, InsertingAt DEF Reshape, Records, Measure, WriteArea, Unlink, Drop, Erase
    <2>2. Statement(r) \/ Commit(r) \/ Reject(r) \/ BreakDeadlock(r) \/ Cancel(r)
      BY <1>4, <2>1 DEF Step, Statement
    <2> QED BY <1>1, <1>2, <2>2, StatementCovers, RollBackCovers, CommitCovers
  <1> QED BY <1>3, <1>4 DEF Next

\* Nothing is observed at the start.
LEMMA CInit == Init => CInv
  <1> SUFFICES ASSUME Init PROVE CInv
    OBVIOUS
  <1>1. Plain /\ Remembered /\ CoversNow
    BY GivenAssumption
       DEF Init, Plain, Remembered, CoversNow, Inserting, Together, NoRow, NoFoi
  <1>2. \A r \in Req : Sees(r)
    BY DEF Init, Sees
  <1> QED BY <1>1, <1>2 DEF CInv

\* What open requests know of the area, in every reachable state.
THEOREM CoverInvariance == Spec => []CInv
  <1>1. Init => FInv /\ CInv
    BY FInit, CInit
  <1>2. FInv /\ CInv /\ [Next]_vars => FInv' /\ CInv'
    BY FStep, CStep
  <1> QED BY <1>1, <1>2, PTL DEF Spec

\* While requests only insert Observations or change the Location, the observedArea of
\* the one Datastream that has Observations covers the FeaturesOfInterest of all of them,
\* although most inserts do not write it.
THEOREM AreaKept == Spec => []AreaCovers
  <1>1. FInv /\ CInv => AreaCovers
    <2> SUFFICES ASSUME FInv, CInv, OnlyInserts, \A o, p \in obs : o.ds = p.ds, NEW o \in obs
                 PROVE  <<o.foi, foi[o.foi].shape>> \in ds[o.ds].area
      BY DEF AreaCovers
    <2>1. o.foi \in Foi
      BY DEF FInv, TInv, TypeOK, Observation
    <2> QED BY <2>1 DEF CInv, Plain, CoversNow, Together, InArea
  <1> QED BY <1>1, FoiInvariance, CoverInvariance, PTL
-----------------------------------------------------------------------------
(* Deadlocks.                                                              *)

\* Where a request is that has written or locked a row: past the wait for it.
Holding ==
    /\ \A r \in Req : locLock = r =>
          req[r].pc \in {"create", "stamp", "reuse", "last", "insert", "extent", "commit"}
    /\ \A r \in Req, d \in Datastream : dsLock[d] = r =>
          /\ req[r].pc \in {"insert", "extent", "commit"}
          /\ req[r].pc # "commit" => At(r) = d

HInv == MaxSets = 1 /\ OnlyInserts => Holding

\* The locks of the other requests stay, and of r those it has just taken.
LEMMA OthersHold ==
    ASSUME TInv, Holding, NEW r \in Req,
           Begin(r) \/ Step(r) \/ BreakDeadlock(r) \/ Cancel(r),
           locLock' = locLock \/ locLock' \in {r, NoReq},
           \A d \in Datastream : dsLock'[d] = dsLock[d] \/ dsLock'[d] \in {r, NoReq},
           locLock' = r =>
             req'[r].pc \in {"create", "stamp", "reuse", "last", "insert", "extent", "commit"},
           \A d \in Datastream : dsLock'[d] = r =>
             /\ req'[r].pc \in {"insert", "extent", "commit"}
             /\ req'[r].pc # "commit" => Head(req'[r].sets) = d
    PROVE  Holding'
  <1>1. \A s \in Req : s # r => req'[s] = req[s]
    BY OthersStay
  <1>2. ASSUME NEW s \in Req, locLock' = s
        PROVE  req'[s].pc \in {"create", "stamp", "reuse", "last", "insert", "extent", "commit"}
    BY <1>1, <1>2, NoReqAssumption DEF Holding
  <1>3. ASSUME NEW s \in Req, NEW d \in Datastream, dsLock'[d] = s
        PROVE  /\ req'[s].pc \in {"insert", "extent", "commit"}
               /\ req'[s].pc # "commit" => Head(req'[s].sets) = d
    <2>1. CASE s = r
      BY <1>3, <2>1
    <2>2. CASE s # r
      BY <1>1, <1>3, <2>2, NoReqAssumption DEF Holding, At
    <2> QED BY <2>1, <2>2
  <1> QED BY <1>2, <1>3 DEF Holding, At

LEMMA StatementHolds ==
    ASSUME TInv, Plain, Holding, MaxSets = 1, NEW r \in Req, Statement(r)
    PROVE  Holding'
  <1>1. /\ req \in [Req -> Request] /\ req[r] \in Request /\ dsLock \in [Datastream -> Req \union {NoReq}]
        /\ req[r].kind \in Inserting
    BY DEF TInv, TypeOK, Plain
  <1>2. Begin(r) \/ Step(r)
    BY DEF Statement, Step
  <1>3. /\ locLock = r =>
             req[r].pc \in {"create", "stamp", "reuse", "last", "insert", "extent", "commit"}
        /\ \A d \in Datastream : dsLock[d] = r =>
             /\ req[r].pc \in {"insert", "extent", "commit"}
             /\ req[r].pc # "commit" => Head(req[r].sets) = d
    BY DEF Holding, At
  <1>4. CASE Begin(r) \/ Read(r) \/ Compare(r)
    <2>1. UNCHANGED <<locLock, dsLock>> /\ req[r].pc \in {"idle", "read", "compare"}
      BY <1>4 DEF Begin, Read, Compare, RowsUnchanged
    <2> QED BY <1>2, <1>3, <2>1, OthersHold
  <1>5. CASE Lock(r) \/ Stamp(r) \/ Move(r)
    <2>1. /\ locLock' = r /\ dsLock' = dsLock /\ req[r].pc \in {"lock", "stamp", "move"}
          /\ req'[r].pc \in {"reuse", "create", "last", "commit"}
      BY <1>1, <1>5, RequestFields DEF Lock, Stamp, Move, WriteLoc, Go
    <2> QED BY <1>2, <1>3, <2>1, OthersHold
  <1>6. CASE Create(r) \/ Reuse(r)
    <2>1. /\ UNCHANGED <<locLock, dsLock>> /\ req[r].pc \in {"create", "reuse"}
          /\ req'[r].pc \in {"stamp", "last", "insert"}
      BY <1>1, <1>6, RequestFields DEF Create, Reuse, RowsUnchanged, Go
    <2> QED BY <1>2, <1>3, <2>1, OthersHold
  <1>7. CASE Last(r)
    <2>1. /\ locLock' = locLock /\ req[r].pc = "last" /\ req'[r].pc = "insert"
          /\ req'[r].sets = req[r].sets
          /\ \A d \in Datastream : dsLock'[d] = dsLock[d] \/ (d = Head(req[r].sets) /\ dsLock'[d] = r)
      BY <1>1, <1>7, RequestFields DEF Last, WriteDs, Go, At
    <2> QED BY <1>2, <1>3, <2>1, OthersHold
  <1>8. CASE Insert(r)
    <2>1. /\ UNCHANGED <<locLock, dsLock>> /\ req[r].pc = "insert" /\ req'[r].pc = "extent"
          /\ req'[r].sets = req[r].sets
      BY <1>1, <1>8, RequestFields DEF Insert, RowsUnchanged
    <2> QED BY <1>2, <1>3, <2>1, OthersHold
  <1>9. CASE Extent(r)
    <2>1. Len(req[r].sets) \in Nat /\ Len(req[r].sets) <= 1
      BY <1>1, SetsSequence, RequestFields, LenProperties
    <2>2. /\ locLock' = locLock /\ req[r].pc = "extent" /\ req'[r].pc = "commit"
          /\ \A d \in Datastream : dsLock'[d] = dsLock[d] \/ dsLock'[d] = r
      BY <1>1, <1>9, <2>1, RequestFields DEF Extent, WriteDs, At, Inserting
    <2> QED BY <1>2, <1>3, <2>2, OthersHold
  <1> QED BY <1>4, <1>5, <1>6, <1>7, <1>8, <1>9 DEF Statement

LEMMA EndHolds ==
    ASSUME TInv, Holding, NEW r \in Req, Commit(r) \/ Reject(r) \/ BreakDeadlock(r) \/ Cancel(r)
    PROVE  Holding'
  <1>1. /\ locLock' = IF locLock = r THEN NoReq ELSE locLock
        /\ dsLock' = [d \in Datastream |-> IF dsLock[d] = r THEN NoReq ELSE dsLock[d]]
    BY DEF Commit, Reject, BreakDeadlock, Cancel, RollBack, Release
  <1>2. locLock' # r /\ \A d \in Datastream : dsLock'[d] # r
    BY <1>1, NoReqAssumption
  <1>3. Step(r) \/ BreakDeadlock(r) \/ Cancel(r)
    BY DEF Step
  <1> QED BY <1>1, <1>2, <1>3, OthersHold

LEMMA HStep == FInv /\ CInv /\ HInv /\ [Next]_vars => HInv'
  <1> SUFFICES ASSUME FInv, CInv, HInv, [Next]_vars, OnlyInserts', MaxSets = 1 PROVE Holding'
    BY DEF HInv
  <1>1. TInv /\ Plain /\ Holding
    BY InsertingBefore DEF FInv, CInv, HInv
  <1>2. CASE UNCHANGED vars
    BY <1>1, <1>2 DEF vars, Holding, At
  <1>3. ASSUME NEW r \in Req, Begin(r) \/ Step(r) \/ BreakDeadlock(r) \/ Cancel(r)
        PROVE  Holding'
    <2>1. ~(Reshape(r) \/ Records(r) \/ Measure(r) \/ WriteArea(r) \/ Unlink(r) \/ Drop(r)
              \/ Erase(r))
      BY <1>1, InsertingAt DEF Reshape, Records, Measure, WriteArea, Unlink, Drop, Erase
    <2>2. Statement(r) \/ Commit(r) \/ Reject(r) \/ BreakDeadlock(r) \/ Cancel(r)
      BY <1>3, <2>1 DEF Step, Statement
    <2> QED BY <1>1, <2>2, StatementHolds, EndHolds
  <1> QED BY <1>2, <1>3 DEF Next

\* In a cycle every request waits for one of the cycle.
LEMMA CycleWaits ==
    ASSUME NEW r \in Req, OnCycle(r)
    PROVE  \E C \in SUBSET Req : r \in C /\ \A x \in C : \E y \in C : y \in Blockers(x)
  <1>0. PICK n \in 1 .. Cardinality(Req) : \E c \in [1 .. n -> Req] :
          c[1] = r /\ \A i \in 1 .. n : c[IF i = n THEN 1 ELSE i + 1] \in Blockers(c[i])
    BY DEF OnCycle
  <1>1. PICK c \in [1 .. n -> Req] :
          c[1] = r /\ \A i \in 1 .. n : c[IF i = n THEN 1 ELSE i + 1] \in Blockers(c[i])
    BY <1>0
  <1>2. n \in Int /\ 1 <= n
    BY <1>0
  <1> DEFINE C == {c[i] : i \in 1 .. n}
  <1>3. C \in SUBSET Req /\ r \in C
    BY <1>1, <1>2
  <1>4. ASSUME NEW i \in 1 .. n PROVE \E y \in C : y \in Blockers(c[i])
    <2>1. (IF i = n THEN 1 ELSE i + 1) \in 1 .. n
      BY <1>2
    <2>2. c[IF i = n THEN 1 ELSE i + 1] \in Blockers(c[i])
      BY <1>1
    <2>3. c[IF i = n THEN 1 ELSE i + 1] \in C
      BY <2>1
    <2> QED BY <2>2, <2>3
  <1>5. \A x \in C : \E i \in 1 .. n : x = c[i]
    OBVIOUS
  <1> HIDE DEF C
  <1> QED BY <1>3, <1>4, <1>5

\* Who holds a Datastream does not wait.
LEMMA DatastreamHolderGoesOn ==
    ASSUME TInv, Plain, Holding, NEW d \in Datastream, NEW z \in Req, dsLock[d] = z
    PROVE  Blockers(z) = {}
  <1>1. req[z].pc \in {"insert", "extent", "commit"} /\ (req[z].pc # "commit" => At(z) = d)
    BY DEF Holding
  <1>2. \A f : Deleting(f) = {}
    BY DEF Deleting, Plain, Inserting
  <1> QED BY <1>1, <1>2 DEF Blockers, Holders

\* Who holds the Location waits for who holds a Datastream at most.
LEMMA LocationHolderGoesOn ==
    ASSUME FInv, Plain, Holding, UniqueNames => NoBulk, NEW y \in Req, locLock = y,
           NEW z \in Blockers(y)
    PROVE  z \in Req /\ \E d \in Datastream : dsLock[d] = z
  <1>1. req[y].pc \in {"create", "stamp", "reuse", "last", "insert", "extent", "commit"}
    BY DEF Holding
  <1>2. \A f : Deleting(f) = {}
    BY DEF Deleting, Plain, Inserting
  <1>3. CASE req[y].pc \in {"stamp", "reuse", "insert", "commit"}
    BY <1>2, <1>3 DEF Blockers, Holders
  <1>4. CASE req[y].pc \in {"last", "extent"}
    <2>1. Blockers(y) = {dsLock[At(y)]} \ {y, NoReq}
      BY <1>4 DEF Blockers, Holders
    <2>2. At(y) \in Datastream
      BY <1>4, AtDatastream DEF FInv
    <2> QED BY <2>1, <2>2 DEF FInv, TInv, TypeOK
  <1>5. CASE req[y].pc = "create"
    <2>1. /\ UniqueNames /\ z \in Req /\ z # y
          /\ \/ req[y].name \in NamedBy(z)
             \/ req[z].kind = "delete" /\ \E f \in req[z].hold : foi[f].name = req[y].name
      BY <1>5 DEF Blockers, Others
    <2>2. req[z].made # NoFoi
      BY <2>1 DEF NamedBy, Plain, Inserting
    <2>3. Knows(req[z]) /\ NoBulk
      BY <2>1 DEF FInv, TInv, Known
    <2>4. req[z].kind = "post"
      BY <2>1, <2>2, <2>3 DEF Knows, NoBulk
    <2>5. locLock = z
      BY <2>1, <2>2, <2>4 DEF FInv, Kept, Locked
    <2> QED BY <2>1, <2>5
  <1> QED BY <1>1, <1>3, <1>4, <1>5

\* No request has locked a row at first.
LEMMA HInit == Init => HInv
  BY NoReqAssumption DEF Init, HInv, Holding

\* What the requests of a cycle would wait for is held by who waits for none of them.
LEMMA NobodyWaitsInCycle ==
    ASSUME FInv, Plain, Holding, UniqueNames => NoBulk, NEW C \in SUBSET Req,
           \A x \in C : \E y \in C : y \in Blockers(x)
    PROVE  C = {}
  <1>1. \A z \in C, d \in Datastream : dsLock[d] # z
    BY DatastreamHolderGoesOn DEF FInv
  <1>2. \A y \in C : locLock # y
    BY <1>1, LocationHolderGoesOn
  <1>3. ASSUME NEW x \in C PROVE FALSE
    <2>1. PICK y \in C : y \in Blockers(x)
      BY <1>3
    <2>2. x \in Req /\ Knows(req[x])
      BY DEF FInv, TInv, Known
    <2>3. \A f : Deleting(f) = {}
      BY DEF Deleting, Plain, Inserting
    <2>4. CASE req[x].pc \in {"lock", "stamp", "move"}
      BY <1>2, <2>1, <2>4 DEF Blockers, Holders
    <2>5. CASE req[x].pc \in {"last", "extent"}
      <3>1. At(x) \in Datastream /\ Blockers(x) = {dsLock[At(x)]} \ {x, NoReq}
        BY <2>2, <2>5, AtDatastream DEF FInv, Blockers, Holders
      <3> QED BY <1>1, <2>1, <3>1
    <2>6. CASE req[x].pc = "create"
      <3>1. UniqueNames
        BY <2>1, <2>6 DEF Blockers
      <3>2. req[x].kind = "post"
        BY <2>2, <2>6, <3>1 DEF Knows, StepsOf, Generating, Refreshing, Ended, NoBulk
      <3> QED BY <1>2, <2>2, <2>6, <3>2 DEF FInv, Locked
    <2>7. ~(req[x].pc \in {"unlink", "write", "reshape", "drop", "erase"})
      BY <2>2, InsertingAt DEF FInv
    <2> QED BY <2>1, <2>3, <2>4, <2>5, <2>6, <2>7 DEF Blockers
  <1> QED BY <1>3

\* update_datastream_last_foi_id and the row locks: a request that inserts has locked the
\* Location before its Datastream, and goes on to its commit once it has the Datastream.
THEOREM HoldInvariance == Spec => []HInv
  <1>1. FInv /\ CInv /\ HInv /\ [Next]_vars => HInv'
    BY HStep
  <1> QED BY HInit, <1>1, FoiInvariance, CoverInvariance, PTL DEF Spec

\* Inserting requests never wait for each other in a cycle, however many they are.
THEOREM NoCycle == Spec => []NoDeadlock
  <1>1. FInv /\ CInv /\ HInv => NoDeadlock
    <2> SUFFICES ASSUME FInv, CInv, HInv, MaxSets = 1, UniqueNames => NoBulk, OnlyInserts,
                        NEW r \in Req, Deadlocked(r)
                 PROVE  FALSE
      BY DEF NoDeadlock
    <2>1. Plain /\ Holding
      BY DEF CInv, HInv
    <2>2. PICK C \in SUBSET Req : r \in C /\ \A x \in C : \E y \in C : y \in Blockers(x)
      BY CycleWaits DEF Deadlocked
    <2> QED BY <2>1, <2>2, NobodyWaitsInCycle
  <1> QED BY <1>1, FoiInvariance, CoverInvariance, HoldInvariance, PTL
=============================================================================
