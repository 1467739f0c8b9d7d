---------------------------- MODULE EntityGraph -----------------------------
(***************************************************************************)
(* The entities of the SensorThings API and the links between them, as the *)
(* create, update and delete endpoints change them: deep inserts that link *)
(* what they create, nested links in a PATCH, deletes that cascade, the    *)
(* Locations of a Thing and the HistoricalLocations written beside them.   *)
(*                                                                         *)
(* A request is one transaction and one step here; an error rolls it back. *)
(* (What concurrent requests do to one Datastream, FeatureOfInterest or    *)
(* version is in the modules about those.)  NETWORK is on; entities are    *)
(* reduced to their links.                                                 *)
(***************************************************************************)
EXTENDS Naturals, SequencesExt

CONSTANTS
    MaxId,        \* bound: the entities of a type ever created
    MaxRequests   \* bound: requests after the seed

ASSUME GraphAssumption == MaxId \in Nat \ {0} /\ MaxRequests \in Nat

VARIABLES
    graph,      \* the database
    requests    \* requests made

graphVars == <<graph, requests>>

\* Foreign keys as functions from their names to ids: one of them, and new over old.
Ref(key, id) == [k \in {key} |-> id]
Over(new, old) ==
    [k \in DOMAIN new \union DOMAIN old |-> IF k \in DOMAIN new THEN new[k] ELSE old[k]]

\* In a payload, an entity to create; otherwise the @iot.id of one to link.
New == 0

\* The foreign keys of a table.
Refs(type) ==
    CASE type = "Datastream" -> {"Thing", "Sensor", "ObservedProperty", "Network"}
      [] type = "Observation" -> {"Datastream", "FeatureOfInterest"}
      [] type = "HistoricalLocation" -> {"Thing"}
      [] OTHER -> {}

Type == {"Thing", "Location", "HistoricalLocation", "Sensor", "ObservedProperty",
         "Network", "Datastream", "FeatureOfInterest", "Observation"}

Exists(g, type, id) == <<type, id>> \in DOMAIN g.rows

Ids(g, type) == {id \in 1 .. MaxId : Exists(g, type, id)}

GraphTypeOK ==
    /\ DOMAIN graph.rows \subseteq Type \X (1 .. MaxId)
    /\ \A e \in DOMAIN graph.rows : DOMAIN graph.rows[e] = Refs(e[1])
    /\ graph.at \subseteq (1 .. MaxId) \X (1 .. MaxId)
    /\ graph.seen \subseteq (1 .. MaxId) \X (1 .. MaxId)
    /\ graph.next \in [Type -> 1 .. MaxId + 1] /\ graph.ok
    /\ requests \in 0 .. MaxRequests

-----------------------------------------------------------------------------
(* Statements.  A graph with ok = FALSE is one whose transaction failed.   *)

Fail(g, unless) == [g EXCEPT !.ok = @ /\ unless]

\* create_entity: an INSERT with its foreign keys.
InsertEntity(g, type, refs) ==
    [Fail(g, \A key \in Refs(type) : Exists(g, key, refs[key])) EXCEPT
        !.rows = Over(Ref(<<type, g.next[type]>>, refs), @),
        !.next[type] = @ + 1]

NoRefs == [key \in {} |-> New]

\* UPDATE ... SET keys WHERE id: nothing happens to a row that is not there.
Link(g, type, id, refs) ==
    IF Exists(g, type, id)
    THEN [Fail(g, \A key \in DOMAIN refs : Exists(g, key, refs[key])) EXCEPT
            !.rows[<<type, id>>] = Over(refs, @)]
    ELSE g

\* ON DELETE CASCADE: what refers to the rows, and what refers to that.
Referring(g, rows) ==
    {e \in DOMAIN g.rows : \E key \in Refs(e[1]) : <<key, g.rows[e][key]>> \in rows}

RemoveNoCascade(g, rows) ==
    [g EXCEPT !.rows = [e \in DOMAIN @ \ rows |-> @[e]]]

RemoveRows(g, rows) ==
    LET once == rows \union Referring(g, rows)
        gone == once \union Referring(g, once)
    IN  [g EXCEPT
          !.rows = [e \in DOMAIN @ \ gone |-> @[e]],
          !.at   = {x \in @ : <<"Thing", x[1]>> \notin gone /\ <<"Location", x[2]>> \notin gone},
          !.seen = {x \in @ : /\ <<"Location", x[1]>> \notin gone
                              /\ <<"HistoricalLocation", x[2]>> \notin gone}]

At(g, t) == {l \in 1 .. MaxId : <<t, l>> \in g.at}

\* Location_HistoricalLocation, whose rows are unique.
See(g, l, h) == [Fail(g, <<l, h>> \notin g.seen /\ Exists(g, "Location", l)) EXCEPT
                    !.seen = @ \union {<<l, h>>}]

\* Thing_Location, whose rows are unique too.
Place(g, t, l) ==
    [Fail(g, <<t, l>> \notin g.at /\ Exists(g, "Thing", t) /\ Exists(g, "Location", l)) EXCEPT
        !.at = @ \union {<<t, l>>}]

\* UPDATE Thing_Location SET location_id WHERE thing_id: two rows would become equal.
MoveAll(g, t, l) ==
    [Fail(g, Cardinality(At(g, t)) <= 1 /\ Exists(g, "Location", l)) EXCEPT
        !.at = {x \in @ : x[1] # t} \union {<<t, l>>}]

\* The move of an existing Thing.
Move(g, t, l) == MoveAll(g, t, l)

RecordUnlinked(g, t, l) == InsertEntity(g, "HistoricalLocation", Ref("Thing", t))

\* A HistoricalLocation of the Thing at the Location.
Record(g, t, l) ==
    See(InsertEntity(g, "HistoricalLocation", Ref("Thing", t)), l, g.next["HistoricalLocation"])

\* manage_thing_location_with_historical_location
Manage(g, t, l, newRecord) ==
    IF newRecord \/ At(g, t) = {} THEN Place(g, t, l) ELSE Move(g, t, l)

-----------------------------------------------------------------------------
(* Deep inserts.                                                           *)

\* insert_location_entity; things: ids, or New.  A Thing made here has no place yet.
InsertLocation(g, things) ==
    LET Made(acc, t) == IF t = New THEN InsertEntity(acc, "Thing", NoRefs) ELSE acc
        made == FoldLeft(Made, g, things)
        IdOf(i) == IF things[i] # New THEN things[i]
                   ELSE g.next["Thing"] + Cardinality({j \in 1 .. i - 1 : things[j] = New})
        l == g.next["Location"]
        Put(acc, i) == Record(Manage(acc, IdOf(i), l, things[i] = New), IdOf(i), l)
    IN  FoldLeft(Put, InsertEntity(made, "Location", NoRefs), [i \in DOMAIN things |-> i])

\* handle_associations: the keys of a new row, some of them created on the way.
Associate(g, refs) ==
    FoldLeft(LAMBDA acc, key :
                 IF key \in DOMAIN refs /\ refs[key] = New THEN InsertEntity(acc, key, NoRefs) ELSE acc,
             g, <<"Thing", "Sensor", "ObservedProperty", "Network", "FeatureOfInterest">>)

Resolved(g, refs) ==
    [key \in DOMAIN refs |-> IF refs[key] = New THEN g.next[key] ELSE refs[key]]

\* insert_observation_entity.  Without a FeatureOfInterest one is taken from, or
\* generated for, the Location of the Thing, which must have one (see FeatureOfInterest).
InsertObservation(g, refs) ==
    IF "FeatureOfInterest" \in DOMAIN refs
    THEN InsertEntity(Associate(g, refs), "Observation", Resolved(g, refs))
    ELSE LET thing == g.rows[<<"Datastream", refs["Datastream"]>>]["Thing"]
         IN  InsertEntity(Fail(InsertEntity(g, "FeatureOfInterest", NoRefs), At(g, thing) # {}), "Observation",
                    Over(Ref("FeatureOfInterest", g.next["FeatureOfInterest"]), refs))

\* insert_datastream_entity: one that exists is only linked.
InsertDatastream(g, id, refs) ==
    IF id # New THEN Link(g, "Datastream", id, refs)
    ELSE IF DOMAIN refs # Refs("Datastream") THEN Fail(g, FALSE)
    ELSE InsertEntity(Associate(g, refs), "Datastream", Resolved(g, refs))

\* The Datastreams of a Thing, a Sensor, an ObservedProperty or a Network: each is
\* linked, or created with the other links given.
InsertDatastreams(g, type, id, datastreams) ==
    FoldLeft(LAMBDA acc, d : InsertDatastream(acc, d.id, Over(Ref(type, id), d.refs)), g, datastreams)

\* insert_sensor_entity, insert_observed_property_entity, insert_network_entity
InsertOwner(g, type, datastreams) ==
    InsertDatastreams(InsertEntity(g, type, NoRefs), type, g.next[type], datastreams)

\* insert_thing_entity: Locations, the Thing, its places, its Datastreams.
InsertThing(g, locations, datastreams) ==
    LET Made(acc, l) == IF l = New THEN InsertLocation(acc, <<>>) ELSE acc
        made == FoldLeft(Made, g, locations)
        IdOf(i) == IF locations[i] # New THEN locations[i]
                   ELSE g.next["Location"] + Cardinality({j \in 1 .. i - 1 : locations[j] = New})
        t == g.next["Thing"]
        Put(acc, i) == Record(Manage(acc, t, IdOf(i), TRUE), t, IdOf(i))
        put == FoldLeft(Put, InsertEntity(made, "Thing", NoRefs), [i \in DOMAIN locations |-> i])
    IN  InsertDatastreams(put, "Thing", t, datastreams)

\* insert_historical_location_entity: it moves the Thing as well.
InsertHistoricalLocation(g, thing, locations) ==
    LET t == IF thing = New THEN g.next["Thing"] ELSE thing
        h == g.next["HistoricalLocation"]
        made == IF thing = New THEN InsertEntity(g, "Thing", NoRefs) ELSE g
        Put(acc, l) == See(Manage(acc, t, l, thing = New), l, h)
    IN  FoldLeft(Put, InsertEntity(made, "HistoricalLocation", Ref("Thing", t)), locations)

-----------------------------------------------------------------------------
(* Links in a PATCH.                                                       *)

\* ON CONFLICT DO NOTHING
PlaceAnyway(g, t, l) == IF <<t, l>> \in g.at THEN g ELSE Place(g, t, l)

\* The Things at a Location become the Thing: two rows would become equal.
TakeOver(g, t, l) ==
    [Fail(g, Cardinality({x \in g.at : x[2] = l}) <= 1 /\ Exists(g, "Thing", t)) EXCEPT
        !.at = {x \in @ : x[2] # l} \union {<<t, l>>}]

\* update_location_entity: the UPDATE returns no row, so the INSERT always follows.
LinkThings(g, l, things) ==
    LET Put(acc, t) ==
          Record(PlaceAnyway(IF \E x \in acc.at : x[2] = l THEN TakeOver(acc, t, l) ELSE acc, t, l), t, l)
    IN  FoldLeft(Put, g, things)

\* The same in update_thing_entity.
LinkLocations(g, t, locations) ==
    LET Put(acc, l) ==
          Record(PlaceAnyway(IF At(acc, t) # {} THEN MoveAll(acc, t, l) ELSE acc, t, l), t, l)
    IN  FoldLeft(Put, g, locations)

\* update_historical_location_entity
LinkSeen(g, h, locations) ==
    LET Put(acc, l) ==
          [Fail(acc, Cardinality({x \in acc.seen : x[2] = h}) <= 1 /\ Exists(acc, "Location", l)) EXCEPT
              !.seen = {x \in @ : x[2] # h} \union {<<l, h>>}]
    IN  FoldLeft(Put, g, locations)

\* handle_nested_entities: each row of the table takes the entity as its foreign key.
LinkNested(g, type, id, table, nested) ==
    FoldLeft(LAMBDA acc, n : Link(acc, table, n, Ref(type, id)), g, nested)

\* handle_associations and the rest of an update.
LinkRefs(g, type, id, refs) == Link(g, type, id, refs)

-----------------------------------------------------------------------------
(* Requests.                                                               *)

Within(g) == \A type \in Type : g.next[type] <= MaxId + 1

WithoutRollback(g) == g

\* What an error leaves behind.
Outcome(g) == IF g.ok THEN g ELSE graph

\* The end of the transaction.
Respond(g) ==
    /\ Within(g)
    /\ graph' = Outcome(g)

\* check_id_exists comes first.
PatchOf(type, id, g) ==
    Respond(Fail(IF Exists(graph, type, id) THEN g ELSE graph, Exists(graph, type, id)))

\* DELETE ... RETURNING id: none is a 404.
DeleteOf(type, id, g) ==
    Respond(Fail(g, Exists(graph, type, id)))

Some(type) == {New} \union Ids(graph, type)

\* Short lists of distinct ids, or of one New.
Lists(ids) == {<<>>} \union {<<i>> : i \in ids} \union {<<i, j>> : i, j \in ids \ {New}}

\* The other links of a new Datastream, when one of its owners is given.
OtherRefs(type) ==
    {[key \in Refs("Datastream") \ {type} |-> New],
     [key \in Refs("Datastream") \ {type} |-> 1]}

\* A Datastream in the payload of an owner.
Nested(type) ==
    {[id |-> New, refs |-> refs] : refs \in OtherRefs(type)}
    \union {[id |-> d, refs |-> NoRefs] : d \in Ids(graph, "Datastream")}

NestedLists(type) == {<<>>} \union {<<d>> : d \in Nested(type)}

CreateThing(locations, datastreams) ==
    Respond(InsertThing(graph, locations, datastreams))

CreateLocation(things) == Respond(InsertLocation(graph, things))

CreateHistoricalLocation(thing, locations) ==
    Respond(InsertHistoricalLocation(graph, thing, locations))

CreateSensor(datastreams) == Respond(InsertOwner(graph, "Sensor", datastreams))

CreateObservedProperty(datastreams) == Respond(InsertOwner(graph, "ObservedProperty", datastreams))

CreateNetwork(datastreams) == Respond(InsertOwner(graph, "Network", datastreams))

\* Its Observations follow it, each with the FeatureOfInterest of the Location.
CreateDatastream(refs, observed) ==
    LET made == InsertDatastream(graph, New, refs)
    IN  Respond(IF made.ok /\ observed
                THEN InsertObservation(made, Ref("Datastream", graph.next["Datastream"]))
                ELSE made)

\* Observations of a new FeatureOfInterest need a Datastream.
CreateFeatureOfInterest(datastreams) ==
    LET f == graph.next["FeatureOfInterest"]
    IN  Respond(FoldLeft(LAMBDA acc, d :
                    InsertObservation(acc, Over(Ref("Datastream", d), Ref("FeatureOfInterest", f))),
                  InsertEntity(graph, "FeatureOfInterest", NoRefs), datastreams))

CreateObservation(refs) == Respond(InsertObservation(graph, refs))

UpdateThing(t, locations, datastreams) ==
    PatchOf("Thing", t,
        LinkNested(LinkLocations(graph, t, locations), "Thing", t, "Datastream", datastreams))

UpdateLocation(l, things) == PatchOf("Location", l, LinkThings(graph, l, things))

UpdateHistoricalLocation(h, locations, refs) ==
    PatchOf("HistoricalLocation", h,
        LinkRefs(LinkSeen(graph, h, locations), "HistoricalLocation", h, refs))

UpdateSensor(id, datastreams) ==
    PatchOf("Sensor", id, LinkNested(graph, "Sensor", id, "Datastream", datastreams))

UpdateObservedProperty(id, datastreams) ==
    PatchOf("ObservedProperty", id,
        LinkNested(graph, "ObservedProperty", id, "Datastream", datastreams))

UpdateNetwork(id, datastreams) ==
    PatchOf("Network", id, LinkNested(graph, "Network", id, "Datastream", datastreams))

UpdateDatastream(id, refs, observations) ==
    PatchOf("Datastream", id,
        LinkRefs(LinkNested(graph, "Datastream", id, "Observation", observations),
                 "Datastream", id, refs))

UpdateFeatureOfInterest(id, observations) ==
    PatchOf("FeatureOfInterest", id,
        LinkNested(graph, "FeatureOfInterest", id, "Observation", observations))

UpdateObservation(id, refs) == PatchOf("Observation", id, LinkRefs(graph, "Observation", id, refs))

\* handle_put_replace: a body without a mandatory property is refused; a relation it
\* does not mention stays as it is, the others are linked as by a PATCH.
PutOf(type, id, complete, g) ==
    Respond(Fail(IF Exists(graph, type, id) THEN g ELSE graph,
                 Exists(graph, type, id) /\ complete))

ReplaceThing(t, complete, locations) ==
    PutOf("Thing", t, complete, LinkLocations(graph, t, locations))

ReplaceLocation(l, complete, things) ==
    PutOf("Location", l, complete, LinkThings(graph, l, things))

ReplaceHistoricalLocation(h, complete, locations) ==
    PutOf("HistoricalLocation", h, complete, LinkSeen(graph, h, locations))

ReplaceSensor(id, complete, datastreams) ==
    PutOf("Sensor", id, complete, LinkNested(graph, "Sensor", id, "Datastream", datastreams))

ReplaceObservedProperty(id, complete, datastreams) ==
    PutOf("ObservedProperty", id, complete,
        LinkNested(graph, "ObservedProperty", id, "Datastream", datastreams))

ReplaceNetwork(id, complete, datastreams) ==
    PutOf("Network", id, complete, LinkNested(graph, "Network", id, "Datastream", datastreams))

ReplaceDatastream(id, complete, refs) ==
    PutOf("Datastream", id, complete, LinkRefs(graph, "Datastream", id, refs))

ReplaceFeatureOfInterest(id, complete, observations) ==
    PutOf("FeatureOfInterest", id, complete,
        LinkNested(graph, "FeatureOfInterest", id, "Observation", observations))

ReplaceObservation(id, complete, refs) ==
    PutOf("Observation", id, complete, LinkRefs(graph, "Observation", id, refs))

DeleteThing(id) == DeleteOf("Thing", id, RemoveRows(graph, {<<"Thing", id>>}))

\* The trigger of a Location: the HistoricalLocations of the Things that are there.
PastOf(l) ==
    LET there == {x[1] : x \in {x \in graph.at : x[2] = l}}
    IN  {e \in DOMAIN graph.rows :
            e[1] = "HistoricalLocation" /\ graph.rows[e]["Thing"] \in there}

DeleteLocation(id) ==
    DeleteOf("Location", id, RemoveRows(graph, PastOf(id) \union {<<"Location", id>>}))

DeleteHistoricalLocation(id) ==
    DeleteOf("HistoricalLocation", id, RemoveRows(graph, {<<"HistoricalLocation", id>>}))

DeleteSensor(id) == DeleteOf("Sensor", id, RemoveRows(graph, {<<"Sensor", id>>}))

DeleteObservedProperty(id) ==
    DeleteOf("ObservedProperty", id, RemoveRows(graph, {<<"ObservedProperty", id>>}))

DeleteNetwork(id) == DeleteOf("Network", id, RemoveRows(graph, {<<"Network", id>>}))

DeleteDatastream(id) == DeleteOf("Datastream", id, RemoveRows(graph, {<<"Datastream", id>>}))

DeleteFeatureOfInterest(id) ==
    DeleteOf("FeatureOfInterest", id, RemoveRows(graph, {<<"FeatureOfInterest", id>>}))

DeleteObservation(id) == DeleteOf("Observation", id, RemoveRows(graph, {<<"Observation", id>>}))

-----------------------------------------------------------------------------

Seed ==
    LET empty == [rows |-> [e \in {} |-> NoRefs], at |-> {}, seen |-> {},
                  next |-> [type \in Type |-> 1], ok |-> TRUE]
        placed == InsertThing(empty, <<New>>, <<>>)
    IN  InsertDatastream(placed, New,
            Over(Ref("Thing", 1), [key \in {"Sensor", "ObservedProperty", "Network"} |-> New]))

GraphInit ==
    /\ graph = Seed
    /\ requests = 0

CreateNext ==
    \/ \E ls \in Lists(Some("Location")), ds \in NestedLists("Thing") : CreateThing(ls, ds)
    \/ \E ts \in Lists(Some("Thing")) : CreateLocation(ts)
    \/ \E t \in Some("Thing"), ls \in Lists(Ids(graph, "Location")) : CreateHistoricalLocation(t, ls)
    \/ \E ds \in NestedLists("Sensor") : CreateSensor(ds)
    \/ \E ds \in NestedLists("ObservedProperty") : CreateObservedProperty(ds)
    \/ \E ds \in NestedLists("Network") : CreateNetwork(ds)
    \/ \E t \in Some("Thing"), refs \in OtherRefs("Thing"), observed \in BOOLEAN :
          CreateDatastream(Over(Ref("Thing", t), refs), observed)
    \/ \E ds \in Lists(Ids(graph, "Datastream")) : CreateFeatureOfInterest(ds)
    \/ \E d \in Ids(graph, "Datastream") :
          \/ CreateObservation(Ref("Datastream", d))
          \/ \E f \in Some("FeatureOfInterest") :
                CreateObservation(Over(Ref("Datastream", d), Ref("FeatureOfInterest", f)))

\* What a request that is refused anyway would link makes no difference.
ListsIf(served, ids) == IF served THEN Lists(ids) ELSE {<<>>}

UpdateNext ==
    \E id \in 1 .. MaxId :
        LET Linking(type, table) == ListsIf(Exists(graph, type, id), Ids(graph, table)) IN
        \/ \E ls \in Linking("Thing", "Location"), ds \in Linking("Thing", "Datastream") :
              UpdateThing(id, ls, ds)
        \/ \E ts \in Linking("Location", "Thing") : UpdateLocation(id, ts)
        \/ \E ls \in Linking("HistoricalLocation", "Location"), t \in Ids(graph, "Thing") :
              UpdateHistoricalLocation(id, ls, Ref("Thing", t))
        \/ \E ds \in Linking("Sensor", "Datastream") : UpdateSensor(id, ds)
        \/ \E ds \in Linking("ObservedProperty", "Datastream") : UpdateObservedProperty(id, ds)
        \/ \E ds \in Linking("Network", "Datastream") : UpdateNetwork(id, ds)
        \/ \E key \in Refs("Datastream") : \E other \in Ids(graph, key) :
              \E os \in Linking("Datastream", "Observation") : UpdateDatastream(id, Ref(key, other), os)
        \/ \E os \in Linking("FeatureOfInterest", "Observation") : UpdateFeatureOfInterest(id, os)
        \/ \E key \in Refs("Observation") : \E other \in Ids(graph, key) :
              UpdateObservation(id, Ref(key, other))

ReplaceNext ==
    \E id \in 1 .. MaxId, complete \in BOOLEAN :
        LET Linking(type, table) ==
              ListsIf(complete /\ Exists(graph, type, id), Ids(graph, table)) IN
        \/ \E ls \in Linking("Thing", "Location") : ReplaceThing(id, complete, ls)
        \/ \E ls \in Linking("HistoricalLocation", "Location") :
              ReplaceHistoricalLocation(id, complete, ls)
        \/ \E ts \in Linking("Location", "Thing") : ReplaceLocation(id, complete, ts)
        \/ \E ds \in Linking("Sensor", "Datastream") : ReplaceSensor(id, complete, ds)
        \/ \E ds \in Linking("ObservedProperty", "Datastream") :
              ReplaceObservedProperty(id, complete, ds)
        \/ \E ds \in Linking("Network", "Datastream") : ReplaceNetwork(id, complete, ds)
        \/ \E key \in Refs("Datastream") : \E other \in Ids(graph, key) :
              ReplaceDatastream(id, complete, Ref(key, other))
        \/ \E os \in Linking("FeatureOfInterest", "Observation") :
              ReplaceFeatureOfInterest(id, complete, os)
        \/ \E key \in Refs("Observation") : \E other \in Ids(graph, key) :
              ReplaceObservation(id, complete, Ref(key, other))

DeleteNext ==
    \E id \in 1 .. MaxId :
        \/ DeleteThing(id) \/ DeleteLocation(id) \/ DeleteHistoricalLocation(id)
        \/ DeleteSensor(id) \/ DeleteObservedProperty(id) \/ DeleteNetwork(id)
        \/ DeleteDatastream(id) \/ DeleteFeatureOfInterest(id) \/ DeleteObservation(id)

GraphNext ==
    /\ requests < MaxRequests
    /\ requests' = requests + 1
    /\ CreateNext \/ UpdateNext \/ ReplaceNext \/ DeleteNext

GraphSpec == GraphInit /\ [][GraphNext]_graphVars

-----------------------------------------------------------------------------
(* Properties.                                                             *)

\* Every foreign key names a row that is there, whatever was linked, moved or
\* deleted before: no Observation without its Datastream and FeatureOfInterest, no
\* place or history of a Thing or a Location that is gone.
NoOrphans ==
    /\ \A e \in DOMAIN graph.rows : \A key \in Refs(e[1]) : Exists(graph, key, graph.rows[e][key])
    /\ \A x \in graph.at : Exists(graph, "Thing", x[1]) /\ Exists(graph, "Location", x[2])
    /\ \A x \in graph.seen :
          Exists(graph, "Location", x[1]) /\ Exists(graph, "HistoricalLocation", x[2])

\* Whichever endpoint puts a Thing at a Location, alone, in a deep insert or in a
\* PATCH, a new HistoricalLocation says so (test_create.py:816).
EveryMoveRecorded ==
    [][\A x \in graph'.at \ graph.at :
          \E h \in Ids(graph', "HistoricalLocation") :
              /\ graph'.rows[<<"HistoricalLocation", h>>]["Thing"] = x[1]
              /\ <<x[2], h>> \in graph'.seen \ graph.seen]_graphVars

=============================================================================
