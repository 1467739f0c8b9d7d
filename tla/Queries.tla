-------------------------------- MODULE Queries --------------------------------
(***************************************************************************)
(* What a GET returns: how convert_query turns the path and the options of *)
(* a request into one SELECT over the tables (or, with $as_of, over the    *)
(* tables of all versions), and the links its answer carries.              *)
(*                                                                         *)
(*   src/api/app/sta2rest/sta2rest.py        parse_uri, convert_query,     *)
(*                                           convert_filter_to_ids_query   *)
(*   src/api/app/sta2rest/visitors.py        visit_QueryNode, visit_ExpandNode *)
(*   src/api/app/sta2rest/filter_visitor.py  visit_Attribute               *)
(*   src/database/istsos_schema.sql          expand, expand_many2many      *)
(*                                                                         *)
(* Against it stands a reference that says what the request asks for:      *)
(* navigate from entity to entity, keep those the filter selects, in order *)
(* of id.  Columns, $select and JSON are left out; $orderby is in Paging.  *)
(***************************************************************************)
EXTENDS QueryText

CONSTANTS
    Stores,     \* contents of the database: [type -> set of versions], and "linked"
    Requests,   \* requests: [path, filter, asof, fromto, top, skip, expand, dataArray,
                \*   slashes]; with slashes, its text has $expand=A/B and more options
    Infinity    \* the upper bound of the validity of a current row

VARIABLES
    db,         \* the database
    request,    \* the request being answered
    answer,     \* NoAnswer, or what the server returned
    rest        \* NoRest, or the ids a link that is followed has to lead to

queryVars == <<db, request, answer, rest>>

NoAnswer == [status |-> "none", ids |-> << >>, linked |-> FALSE, nested |-> {}]
NoRest == <<0>>
NoInstant == 0

QueryInit ==
    /\ db \in Stores /\ request \in Requests
    /\ answer = NoAnswer /\ rest = NoRest

-----------------------------------------------------------------------------
(* Tables and relationships.  A version is [id, from, to, fk, name].       *)

Parent == [Datastream |-> "Thing", Observation |-> "Datastream"]

Direction(a, b) ==
    IF a \in DOMAIN Parent /\ Parent[a] = b THEN "MANYTOONE"
    ELSE IF b \in DOMAIN Parent /\ Parent[b] = a THEN "ONETOMANY" ELSE "MANYTOMANY"

Live(type) == {v \in db[type] : v.to = Infinity}
ValidAt(v, t) == v.from <= t /\ t < v.to

\* system_time_validity && tstzrange(a, b): an empty range overlaps nothing.
ValidDuring(v, a, b) == v.from < b /\ a < v.to /\ a < b

\* The rows of a table, or of the view of all versions.
Table(type, past) == IF past THEN db[type] ELSE Live(type)

\* The foreign keys, and the Thing_Location table, which keeps no versions.
InLink(a, i, b, j) == IF a = "Thing" THEN <<i, j>> \in db.linked ELSE <<j, i>> \in db.linked
Joined(a, v, b, w) ==
    CASE Direction(a, b) = "MANYTOONE" -> v.fk = w.id
      [] Direction(a, b) = "ONETOMANY" -> w.fk = v.id
      [] OTHER                         -> InLink(a, v.id, b, w.id)

-----------------------------------------------------------------------------
(* Filters: atoms with and / or tokens between them.  An atom is           *)
(* [on, nav, val, end]: a column, the navigation path in front of it, a    *)
(* value or an interval.                                                   *)

Atom(on, nav, val, end) == [on |-> on, nav |-> nav, val |-> val, end |-> end]
AND == Atom("and", << >>, 0, 0)
OR  == Atom("or", << >>, 0, 0)

AtomHolds(a, v) ==
    CASE a.on = "name"  -> v.name = a.val
      [] a.on = "id"    -> v.id = a.val
      [] a.on = "valid" -> ValidAt(v, a.val)
      [] a.on = "during" -> ValidDuring(v, a.val, a.end)

Atoms(f) == ToSet(f) \ {AND, OR}

\* Given the atoms that hold: "and" binds tighter than "or" (grammar.py, precedence).
Truth(f, holding) == f = << >> \/ \E i, j \in DOMAIN f :
    /\ i <= j
    /\ i = 1 \/ f[i - 1] = OR
    /\ j = Len(f) \/ f[j + 1] = OR
    /\ \A k \in i .. j : f[k] \in holding \union {AND}

NavOf(f) == IF \E a \in Atoms(f) : a.nav # << >>
            THEN (CHOOSE a \in Atoms(f) : a.nav # << >>).nav ELSE << >>

\* query_ast.filter.filter + " and " + condition: the text is appended as it is.
And(f, a) == IF f = << >> THEN <<a>> ELSE f \o <<AND, a>>

IsId(i) == Atom("id", << >>, i, 0)

\* The rows at the end of a navigation path, by inner joins of the tables.
Reach(type, v, nav) ==
    FoldLeft(LAMBDA ends, b : UNION {{<<b, w>> : w \in {u \in Live(b) : Joined(e[1], e[2], b, u)}} :
                                     e \in ends},
             {<<type, v>>}, nav)

Holds1(a, v, e) == AtomHolds(a, IF a.nav = << >> THEN v ELSE e)

\* The joined rows of v the whole filter selects.
Selected(type, v, f) ==
    {e \in Reach(type, v, NavOf(f)) : Truth(f, {a \in Atoms(f) : Holds1(a, v, e[2])})}

Hops(type, nav) == [k \in DOMAIN nav |-> Direction(IF k = 1 THEN type ELSE nav[k - 1], nav[k])]

\* Mutant: every filter joins its tables to the statement.
DirectJoinAlways(type, nav) == TRUE

\* direct_join_is_safe; any other filter goes into "id IN (subquery)".
DirectJoin(type, nav) == \A k \in DOMAIN nav : Hops(type, nav)[k] = "MANYTOONE"

\* The copies of row v the filter of the main entity leaves in the result.
Copies(type, v, f) ==
    IF DirectJoin(type, NavOf(f)) THEN Selected(type, v, f)
    ELSE IF Selected(type, v, f) = {} THEN {} ELSE {<<type, v>>}

-----------------------------------------------------------------------------
(* The statement of a request *)

Seg(r, k) == r.path[Len(r.path) + 1 - k]     \* parse_uri reverses the path
Past(r) == r.asof # NoInstant \/ r.fromto # << >>

\* The condition $as_of or $from_to adds.
Validity(r) == IF r.asof # NoInstant THEN Atom("valid", << >>, r.asof, 0)
               ELSE Atom("during", << >>, r.fromto[1], r.fromto[2])

\* The conditions of convert_query, in its order.
MainFilter(r) ==
    LET timed == IF Past(r) THEN And(r.filter, Validity(r)) ELSE r.filter
    IN  IF Seg(r, 1).id = 0 THEN timed ELSE And(timed, IsId(Seg(r, 1).id))

\* An entity of the path gets $as_of or $from_to only when it has an id.
EntityFilter(r, k) ==
    IF Seg(r, k).id = 0 THEN << >>
    ELSE IF Past(r) THEN And(<<IsId(Seg(r, k).id)>>, Validity(r)) ELSE <<IsId(Seg(r, k).id)>>

\* The join of segments k and k + 1.  Over a many-to-many relationship it
\* names the CURRENT table of the first entity also when all versions are
\* read, which then is one more table of the statement; "via" is its row.
\* (For the entity next to the main one the first is the main one, for the
\* others it is the entity itself and the second the one before it.)
First(k) == IF k = 1 THEN 1 ELSE k + 1
Second(k) == IF k = 1 THEN 2 ELSE k

JoinHolds(r, k, row, via) ==
    LET a == Seg(r, First(k)).type  b == Seg(r, Second(k)).type
    IN  IF Past(r) /\ Direction(a, b) = "MANYTOMANY"
        THEN via \in {u.id : u \in Live(a)} /\ InLink(a, via, b, row[Second(k)].id)
        ELSE via = 0 /\ Joined(a, row[First(k)], b, row[Second(k)])

Ids == 0 .. 9

\* The rows of the result: the versions joined along the path, the rows of
\* the extra tables, the rows joined for the filter.
ResultRows(r) ==
    LET n == Len(r.path)
        past == Past(r)
        tuples == {t \in [1 .. n -> UNION {Table(Seg(r, k).type, past) : k \in 1 .. n}] :
                     \A k \in 1 .. n :
                        /\ t[k] \in Table(Seg(r, k).type, past)
                        /\ k > 1 => Truth(EntityFilter(r, k), {a \in Atoms(EntityFilter(r, k)) : AtomHolds(a, t[k])})}
        joined == {<<t, via>> \in tuples \X [1 .. n - 1 -> Ids] :
                     \A k \in 1 .. n - 1 : JoinHolds(r, k, t, via[k])}
    IN  UNION {{<<p[1][1], p, c>> : c \in Copies(Seg(r, 1).type, p[1][1], MainFilter(r))} : p \in joined}

\* By id, which is the default $orderby.
InOrder(rows) == SetToSortSeq(rows, LAMBDA p, q : p[1].id < q[1].id)
Cut(s, skip, n) == SubSeq(s, skip + 1, IF skip + n < Len(s) THEN skip + n ELSE Len(s))
IdsOf(s) == [k \in DOMAIN s |-> s[k][1].id]

\* $resultFormat=dataArray keeps the row that otherwise only tells that there
\* is more, unless the path has several entities; it never has a nextLink.
KeptRows(r) == IF r.dataArray /\ Len(r.path) = 1 THEN r.top + 1 ELSE r.top
HasLink(r, s) == ~r.dataArray /\ Len(s) > r.skip + r.top

-----------------------------------------------------------------------------
(* $expand: one query per parent row, [rel, filter, top, expand]           *)

RelatedTo(a, v, b, w) == Joined(a, v, b, w)

\* Only the items of the first level get $as_of (and read all versions).
ItemFilter(item, past, t) == IF past THEN And(item.filter, Atom("valid", << >>, t, 0)) ELSE item.filter

ItemRows(a, v, item, past, t) ==
    UNION {{<<w, e>> : e \in Selected(item.rel, w, ItemFilter(item, past, t))} :
           w \in {u \in Table(item.rel, past) : RelatedTo(a, v, item.rel, u)}}

\* result - (limit_ - 1): the extra row is removed.
ItemCut(s, item) == Cut(s, 0, item.top)

Nested(a, v, item, past, t) ==
    LET s == InOrder(ItemRows(a, v, item, past, t))
        kept == ItemCut(s, item)
    IN  [parent |-> <<a, v.id>>, rel |-> item.rel, ids |-> IdsOf(kept),
         linked |-> Len(s) > item.top /\ Direction(a, item.rel) # "MANYTOONE",
         rows |-> {p[1] : p \in ToSet(kept)}]

NestedIn(a, rows, items, past, t) ==
    {Nested(a, v, items[k], past, t) : v \in rows, k \in DOMAIN items}

\* Two levels of $expand.
AllNested(r, rows, past) ==
    LET first == NestedIn(Seg(r, 1).type, rows, r.expand, past, r.asof)
    IN  first \cup UNION {UNION {NestedIn(n.rel, n.rows, i.expand, FALSE, NoInstant) :
                                 i \in {j \in ToSet(r.expand) : j.rel = n.rel}} : n \in first}

\* A filter over a related entity is refused in the past, where the tables of
\* versions have no relationships; so are $as_of with $from_to, a $from_to
\* that ends before it starts, and $expand with $from_to.
Refused(r) ==
    \/ Past(r) /\ NavOf(r.filter) # << >>
    \/ /\ r.fromto # << >>
       /\ r.asof # NoInstant \/ r.fromto[1] > r.fromto[2] \/ r.expand # << >>

\* The request as the server has it: its path, and what the parser makes of the text.
Understood(r, options) ==
    [path |-> r.path, slashes |-> r.slashes, filter |-> options.filter, expand |-> options.expand,
     asof |-> options.asof, fromto |-> options.fromto, top |-> options.top, skip |-> options.skip,
     dataArray |-> options.dataArray]

Execute(r) ==
    IF Refused(r) THEN [NoAnswer EXCEPT !.status = "refused"]
    ELSE LET s == InOrder(ResultRows(r))
             kept == Cut(s, r.skip, KeptRows(r))
         IN  [status |-> "ok", ids |-> IdsOf(kept), linked |-> HasLink(r, s),
              nested |-> AllNested(r, {p[1] : p \in ToSet(kept)}, Past(r))]

-----------------------------------------------------------------------------
(* What the request asks for *)

Instant(r) == IF r.asof # NoInstant THEN r.asof ELSE Infinity - 1

\* The versions a request is about: of an instant or, with $from_to, of an interval.
There(type, r) ==
    {v \in db[type] : IF r.fromto = << >> THEN ValidAt(v, Instant(r))
                      ELSE \E t \in r.fromto[1] .. r.fromto[2] - 1 : ValidAt(v, t)}

WantedAtom(type, v, a, r) ==
    \E e \in FoldLeft(LAMBDA ends, b : UNION {{<<b, w>> : w \in {u \in There(b, r) : Joined(e[1], e[2], b, u)}} :
                                              e \in ends},
                      {<<type, v>>}, a.nav) : AtomHolds(a, e[2])

Wants(type, v, f, r) == Truth(f, {a \in Atoms(f) : WantedAtom(type, v, a, r)})

Wanted(r) ==
    LET From(rows, k) == {v \in There(r.path[k].type, r) :
                            /\ r.path[k].id \in {0, v.id}
                            /\ k = 1 \/ \E u \in rows : Joined(r.path[k - 1].type, u, r.path[k].type, v)}
    IN  {v \in FoldLeft(LAMBDA rows, k : From(rows, k), {}, [k \in DOMAIN r.path |-> k]) :
            Wants(Seg(r, 1).type, v, r.filter, r)}

ById(rows) == LET s == SetToSortSeq(rows, LAMBDA v, w : v.id < w.id) IN [k \in DOMAIN s |-> s[k].id]

WantedItem(a, v, item, r) ==
    {w \in There(item.rel, r) : Joined(a, v, item.rel, w) /\ Wants(item.rel, w, item.filter, r)}

WantedNested(a, rows, items, r) ==
    {LET all == ById(WantedItem(a, v, items[k], r))
         kept == Cut(all, 0, items[k].top)
     IN  [parent |-> <<a, v.id>>, rel |-> items[k].rel, ids |-> kept,
          linked |-> Len(all) > Len(kept),
          rows |-> {w \in WantedItem(a, v, items[k], r) : w.id \in ToSet(kept)}] :
        v \in rows, k \in DOMAIN items}

WantedLists(r, rows) ==
    LET first == WantedNested(Seg(r, 1).type, rows, r.expand, r)
    IN  first \cup UNION {UNION {WantedNested(n.rel, n.rows, i.expand, r) :
                                 i \in {j \in ToSet(r.expand) : j.rel = n.rel}} : n \in first}

-----------------------------------------------------------------------------
(* Requests and links *)

Served(r, parser) ==
    IF parser.ok THEN Execute(Understood(r, parser.options))
    ELSE [NoAnswer EXCEPT !.status = "unparsed"]

Answer ==
    /\ answer = NoAnswer
    /\ answer' = Served(request, ParseText(Written(request)))
    /\ UNCHANGED <<db, request, rest>>

\* DELETE Observations?$filter: the ids convert_filter_to_ids_query selects.  It
\* leaves all other options aside, and the page with them.
Matched(filter) ==
    {v.id : v \in {u \in Live("Observation") : Copies("Observation", u, filter) # {}}}

MatchIds ==
    /\ answer = NoAnswer /\ rest = NoRest /\ request.path = <<[type |-> "Observation", id |-> 0]>>
    /\ request.filter # << >>
    /\ answer' = [NoAnswer EXCEPT !.status = "matched",
                    !.ids = SetToSortSeq(Matched(ParseText(Written(request)).options.filter), <)]
    /\ UNCHANGED <<db, request, rest>>

\* The nextLink of the collection.
FollowNext ==
    /\ answer.linked
    /\ rest' = Cut(ById(Wanted(request)), request.skip + request.top, 9)
    /\ request' = [request EXCEPT !.skip = @ + request.top]
    /\ answer' = NoAnswer
    /\ UNCHANGED db

\* The filter of a nested nextLink: of the LAST identifier of $expand.
NestedOptions(r) == Last(r.expand).filter

\* The nextLink of a list of the first level: parent/relation?$top&$skip&$filter&$expand.
FollowNested == \E n \in answer.nested : \E item \in ToSet(request.expand) :
    /\ n.linked /\ n.rel = item.rel /\ n.parent[1] = Seg(request, 1).type
    /\ rest' = Cut(ById(UNION {WantedItem(n.parent[1], v, item, request) :
                               v \in {u \in There(n.parent[1], request) : u.id = n.parent[2]}}),
                   item.top, 9)
    /\ request' = [path |-> <<[type |-> n.parent[1], id |-> n.parent[2]], [type |-> n.rel, id |-> 0]>>,
                   filter |-> NestedOptions(request), asof |-> NoInstant, fromto |-> << >>,
                   top |-> item.top, skip |-> item.top, expand |-> Last(request.expand).expand,
                   dataArray |-> FALSE, slashes |-> FALSE]
    /\ answer' = NoAnswer
    /\ UNCHANGED db

QueryNext == Answer \/ MatchIds \/ FollowNext \/ FollowNested

QuerySpec == QueryInit /\ [][QueryNext]_queryVars

-----------------------------------------------------------------------------
(* Properties *)

\* The answer lists the ids that were asked for, each once, in order: joins
\* over the path and the filter neither lose nor repeat an entity; there is a
\* nextLink iff there are more.
PathAnswered ==
    /\ answer.ids = Cut(ById(Wanted(request)), request.skip, request.top)
    /\ answer.linked <=> Cardinality(Wanted(request)) > request.skip + request.top

\* Every expanded list of the answer, on both levels, holds the related
\* entities its options select, and has a nextLink iff it was cut.
ListsAnswered ==
    answer.nested = WantedLists(request, {v \in Wanted(request) : v.id \in ToSet(answer.ids)})

\* A link that is followed leads to the entities the list it came with left
\* out, and to nothing else.
LinksContinue == rest # NoRest => answer.ids = Cut(rest, 0, request.top)

\* A DELETE with a $filter takes exactly the entities a GET with it lists on all its pages.
MatchesWanted ==
    ToSet(answer.ids) = {v.id : v \in Wanted([request EXCEPT !.asof = NoInstant, !.fromto = << >>])}

\* The parser accepts what a request writes, and every answer that is not an error is what
\* the request asks for: its rows, the lists expanded in them and the links of both; what a
\* filtered DELETE takes is what the filter selects.
AnswersAsked ==
    /\ answer.status # "unparsed"
    /\ answer.status = "ok" => PathAnswered /\ ListsAnswered /\ LinksContinue
    /\ answer.status = "matched" => MatchesWanted

\* With $as_of the answer is "data as were served in the specified date-time"
\* (docs/mkdocs/docs/system-time.md:65-67).
ServedAsOf == (answer.status = "ok" /\ request.asof # NoInstant) =>
    answer.ids = Cut(ById(Wanted(request)), request.skip, request.top)
=============================================================================
