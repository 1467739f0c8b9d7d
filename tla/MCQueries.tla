----------------------------- MODULE MCQueries ------------------------------
(* Two small databases and the requests about them.                        *)
EXTENDS Queries

Version(i, from, to, fk, name) == [id |-> i, from |-> from, to |-> to, fk |-> fk, name |-> name]

\* Two Things and two Locations; Datastream 1 moved from Thing 1 to Thing 2
\* at 3, Thing 1 was renamed at 2, Observation 2 was deleted at 4.
StoreA ==
    [Thing |-> {Version(1, 1, 2, 0, 1), Version(1, 2, 9, 0, 2), Version(2, 1, 9, 0, 1)},
     Location |-> {Version(1, 1, 9, 0, 1), Version(2, 1, 9, 0, 2)},
     Datastream |-> {Version(1, 1, 3, 1, 1), Version(1, 3, 9, 2, 1), Version(2, 1, 9, 1, 2), Version(3, 2, 9, 2, 2)},
     Observation |-> {Version(1, 1, 9, 1, 1), Version(2, 1, 4, 1, 2), Version(3, 2, 9, 2, 1), Version(4, 2, 9, 1, 1)},
     linked |-> {<<1, 1>>, <<1, 2>>, <<2, 1>>}]

StoreB ==
    [Thing |-> {Version(1, 1, 9, 0, 1), Version(2, 2, 9, 0, 2)},
     Location |-> {Version(1, 1, 9, 0, 1), Version(2, 3, 9, 0, 1)},
     Datastream |-> {Version(1, 1, 9, 1, 1), Version(2, 1, 9, 1, 2), Version(3, 1, 9, 1, 1)},
     Observation |-> {Version(1, 1, 9, 3, 1), Version(2, 1, 9, 3, 2), Version(3, 1, 9, 2, 2)},
     linked |-> {<<1, 1>>, <<2, 1>>, <<2, 2>>}]

Segment(type, i) == [type |-> type, id |-> i]
HasName(nav, v) == Atom("name", nav, v, 0)

Paths ==
    {<<Segment("Thing", 0)>>, <<Segment("Thing", 1)>>, <<Segment("Datastream", 0)>>, <<Segment("Observation", 0)>>,
     <<Segment("Thing", 1), Segment("Datastream", 0)>>, <<Segment("Datastream", 3), Segment("Thing", 0)>>,
     <<Segment("Thing", 2), Segment("Location", 0)>>, <<Segment("Location", 1), Segment("Thing", 0)>>,
     <<Segment("Thing", 1), Segment("Datastream", 2), Segment("Observation", 0)>>,
     <<Segment("Location", 1), Segment("Thing", 1), Segment("Datastream", 0)>>,
     <<Segment("Observation", 1), Segment("Datastream", 0), Segment("Thing", 0)>>}

NavTo(type) == CASE type = "Thing" -> {<<"Datastream">>, <<"Datastream", "Observation">>, <<"Location">>}
                 [] type = "Datastream" -> {<<"Thing">>, <<"Observation">>}
                 [] type = "Observation" -> {<<"Datastream">>, <<"Datastream", "Thing">>}
                 [] type = "Location" -> {<<"Thing">>}

Filters(type) ==
    {<< >>, <<HasName(<< >>, 1)>>, <<HasName(<< >>, 1), OR, HasName(<< >>, 2)>>}
    \cup {<<HasName(n, 2)>> : n \in NavTo(type)}
    \cup {<<HasName(<< >>, 1), AND, HasName(n, 1)>> : n \in NavTo(type)}

ExpandItem(rel, f, top, sub) == [rel |-> rel, filter |-> f, top |-> top, expand |-> sub]
Expands(type) ==
    CASE type = "Thing" ->
          {<< >>, <<ExpandItem("Datastream", << >>, 1, << >>)>>,
           <<ExpandItem("Location", << >>, 5, << >>), ExpandItem("Datastream", <<HasName(<< >>, 1)>>, 1, << >>)>>,
           <<ExpandItem("Datastream", << >>, 2, <<ExpandItem("Observation", <<HasName(<< >>, 1)>>, 1, << >>)>>)>>}
      [] type = "Datastream" ->
          {<< >>, <<ExpandItem("Thing", << >>, 5, << >>)>>, <<ExpandItem("Observation", <<HasName(<< >>, 2)>>, 1, << >>)>>,
           <<ExpandItem("Thing", << >>, 5, <<ExpandItem("Location", << >>, 5, << >>)>>)>>}
      [] type = "Observation" -> {<< >>, <<ExpandItem("Datastream", << >>, 5, << >>)>>}
      [] type = "Location" -> {<< >>}

CurrentRequests == {[path |-> p, filter |-> f, asof |-> 0, top |-> t, skip |-> 0, expand |-> e, dataArray |-> FALSE,
            fromto |-> << >>, slashes |-> FALSE] :
            p \in Paths, f \in UNION {Filters(x) : x \in {"Thing", "Datastream", "Observation", "Location"}},
            t \in {1, 2, 5}, e \in UNION {Expands(x) : x \in {"Thing", "Datastream", "Observation", "Location"}}}

TypeOf(r) == Last(r.path).type
HasOr(f) == \E k \in DOMAIN f : f[k] = OR

LiveRequests == {r \in CurrentRequests : /\ r.filter \in Filters(TypeOf(r)) /\ r.expand \in Expands(TypeOf(r))
                     /\ ~(HasOr(r.filter) /\ Last(r.path).id # 0)}

\* $as_of over paths whose entities all have an id but the last, without
\* many-to-many steps, OR, nested levels and lists that are cut.
Keyed(p) == \A k \in 1 .. Len(p) - 1 : p[k].id # 0 /\ "Location" \notin {p[k].type, p[k + 1].type}
PastRequests == {[r EXCEPT !.asof = t] : t \in 1 .. 4,
           r \in {q \in LiveRequests : /\ Keyed(q.path) /\ ~HasOr(q.filter)
                              /\ \A k \in DOMAIN q.expand : q.expand[k].top = 5 /\ q.expand[k].expand = << >>}}
DataArrays == {[path |-> p, filter |-> << >>, asof |-> 0, top |-> 5, skip |-> 0, expand |-> << >>, dataArray |-> TRUE,
            fromto |-> << >>, slashes |-> FALSE] :
                  p \in {<<Segment("Observation", 0)>>, <<Segment("Datastream", 1), Segment("Observation", 0)>>}}

\* $from_to over one entity: intervals of which some are empty and one is reversed.
Intervals == {<<1, 2>>, <<2, 4>>, <<3, 3>>, <<4, 2>>}
FromToRequests == {[r EXCEPT !.fromto = i] : i \in Intervals,
           r \in {q \in LiveRequests : Len(q.path) = 1 /\ ~HasOr(q.filter) /\ q.expand \in {<< >>, <<ExpandItem("Datastream", << >>, 5, << >>)>>}}}

\* Entities written in others with "/", one and two of them, alone and with another list.
SlashedExpands ==
    LET observations == ExpandItem("Observation", << >>, 5, << >>)
        one == ExpandItem("Datastream", << >>, 5, <<observations>>)
        two == ExpandItem("Datastream", << >>, 5, <<observations, ExpandItem("Thing", << >>, 5, << >>)>>)
    IN  {<<one>>, <<two>>, <<one, ExpandItem("Location", << >>, 1, << >>)>>}
Slashed == {[r EXCEPT !.slashes = TRUE, !.expand = e] : e \in SlashedExpands,
            r \in {q \in LiveRequests : TypeOf(q) = "Thing" /\ q.expand = << >>}}
MCRequests == LiveRequests \cup PastRequests \cup DataArrays \cup FromToRequests \cup Slashed
AsOfRequests == {[path |-> p, filter |-> f, asof |-> t, top |-> 5, skip |-> 0, expand |-> << >>, dataArray |-> FALSE,
            fromto |-> << >>, slashes |-> FALSE] :
                   p \in {<<Segment("Thing", 0)>>}, t \in {1, 2},
                   f \in {<<HasName(<< >>, 1)>>, <<HasName(<< >>, 1), OR, HasName(<< >>, 2)>>}}
MCStores == {StoreA, StoreB}
=============================================================================
