------------------------------ MODULE QueryText ------------------------------
(***************************************************************************)
(* The query part of a URL: how Parser turns the tokens of the Lexer into  *)
(* the options of a request.  (src/api/app/sta2rest/sta_parser/parser.py)  *)
(*                                                                         *)
(* The parser is one pass with a position in the tokens; what it also      *)
(* keeps between calls is expand_identifiers, the entities it has met in   *)
(* front of a "/" and may have to merge later ones with.                   *)
(***************************************************************************)
EXTENDS Naturals, SequencesExt

CONSTANT DefaultTop     \* the $top of a list that names none

Token(type, value) == [type |-> type, value |-> value]

NoOptions ==
    [select |-> <<>>, filter |-> <<>>, expand |-> <<>>, orderby |-> <<>>, skip |-> 0,
     top |-> DefaultTop, count |-> FALSE, asof |-> 0, fromto |-> <<>>, dataArray |-> FALSE]

\* A parser: where it is, whether all was well so far, expand_identifiers, and the
\* options read.
Parser == [at |-> 1, ok |-> TRUE, met |-> {}, options |-> NoOptions]

TypeAt(T, i) == IF i <= Len(T) THEN T[i].type ELSE "end"
Next1(T, p) == TypeAt(T, p.at)

Match(T, p, type) == [p EXCEPT !.at = @ + 1, !.ok = @ /\ Next1(T, p) = type]
Skip1(T, p, type) == IF Next1(T, p) = type THEN Match(T, p, type) ELSE p

\* An option and its value.
Value(T, p, option, type, field) ==
    LET q == Match(T, p, option) IN
    IF Next1(T, q) # type THEN [q EXCEPT !.ok = FALSE]
    ELSE [Match(T, q, type) EXCEPT !.options = [@ EXCEPT ![field] = T[q.at].value]]

ParseSkip(T, p) == Value(T, p, "SKIP", "INTEGER", "skip")
ParseTop(T, p) == Value(T, p, "TOP", "INTEGER", "top")
ParseCount(T, p) == Value(T, p, "COUNT", "BOOL", "count")
ParseAsOf(T, p) == Value(T, p, "ASOF", "DATETIME", "asof")

\* Only dataArray is a RESULT_FORMAT_VALUE.
ParseResultFormat(T, p) == Value(T, p, "RESULT_FORMAT", "RESULT_FORMAT_VALUE", "dataArray")

ParseFromTo(T, p) ==
    LET q == Match(T, Match(T, Match(T, Match(T, p, "FROMTO"), "DATETIME"), "SEGMENT_SEPARATOR"), "DATETIME")
    IN  IF q.ok THEN [q EXCEPT !.options.fromto = <<T[p.at + 1].value, T[p.at + 3].value>>] ELSE q

\* Identifiers with "/" in them, and lists of those.
RECURSIVE ParseIdentifier(_, _)
ParseIdentifier(T, p) ==
    LET q == Match(T, p, "EXPAND_IDENTIFIER") IN
    IF q.ok /\ Next1(T, q) = "SEGMENT_SEPARATOR"
    THEN ParseIdentifier(T, Match(T, q, "SEGMENT_SEPARATOR")) ELSE q

RECURSIVE ParseIdentifierList(_, _)
ParseIdentifierList(T, p) ==
    LET q == ParseIdentifier(T, p) IN
    IF q.ok /\ Next1(T, q) = "VALUE_SEPARATOR"
    THEN ParseIdentifierList(T, Match(T, q, "VALUE_SEPARATOR")) ELSE q

\* The tokens from a position up to where the parser is.
Between(T, i, q) == [k \in 1 .. q.at - i |-> T[i + k - 1].value]

ParseSelect(T, p) ==
    LET q == ParseIdentifierList(T, Match(T, p, "SELECT"))
    IN  IF q.ok THEN [q EXCEPT !.options.select = Between(T, p.at + 1, q)] ELSE q

RECURSIVE ParseOrders(_, _)
ParseOrders(T, p) ==
    LET named == Match(T, p, "EXPAND_IDENTIFIER")
        q == IF Next1(T, named) = "WHITESPACE"
             THEN Match(T, Match(T, named, "WHITESPACE"), "ORDER") ELSE named
    IN  IF q.ok /\ Next1(T, q) = "VALUE_SEPARATOR"
        THEN ParseOrders(T, Match(T, q, "VALUE_SEPARATOR")) ELSE q

ParseOrderBy(T, p) ==
    LET q == ParseOrders(T, Match(T, p, "ORDERBY"))
    IN  IF q.ok THEN [q EXCEPT !.options.orderby = Between(T, p.at + 1, q)] ELSE q

Count(T, i, j, type) == Cardinality({k \in i .. j : T[k].type = type})

\* A filter is taken as it is, up to the next option; in a subquery the parenthesis
\* that closes the subquery ends it too.
EndsFilter(T, i, j, nested) ==
    \/ TypeAt(T, j) \in {"OPTIONS_SEPARATOR", "SUBQUERY_SEPARATOR", "end"}
    \/ /\ nested /\ TypeAt(T, j) = "RIGHT_PAREN"
       /\ Count(T, i, j - 1, "LEFT_PAREN") = Count(T, i, j - 1, "RIGHT_PAREN")

ParseFilter(T, p, nested) ==
    LET i == p.at + 1
        end == CHOOSE j \in i .. Len(T) + 1 :
                   EndsFilter(T, i, j, nested) /\ \A k \in i .. j - 1 : ~EndsFilter(T, i, k, nested)
        read == SelectSeq(SubSeq(T, i, end - 1), LAMBDA t : t.type \notin {"LEFT_PAREN", "RIGHT_PAREN"})
    IN  [Match(T, p, "FILTER") EXCEPT
            !.at = end, !.options.filter = [k \in DOMAIN read |-> read[k].value]]

\* What an expanded entity makes of the options of its subquery.
Expanded(rel, options) ==
    [rel |-> rel, filter |-> options.filter, top |-> options.top, expand |-> options.expand]

RECURSIVE ParseSubquery(_, _), ParseItems(_, _, _), ParseOption(_, _, _)

\* An entity that is expanded: with a subquery, in parentheses or behind a "/".
ParseItem(T, p, rel) ==
    IF Next1(T, p) \in {"LEFT_PAREN", "SEGMENT_SEPARATOR"}
    THEN ParseSubquery(T, [p EXCEPT !.options = NoOptions,
             !.met = IF Next1(T, p) = "SEGMENT_SEPARATOR" THEN @ \union {rel} ELSE @])
    ELSE [p EXCEPT !.options = NoOptions]

WithItem(p, rel, sub) ==
    [sub EXCEPT !.options = [p.options EXCEPT !.expand = Append(@, Expanded(rel, sub.options))]]

\* Behind a "/" a list goes on only with entities that are met again: "A/B,A/C" is
\* "A($expand=B,C)".
AfterItem(T, p, dollar) ==
    IF ~p.ok \/ Next1(T, p) # "VALUE_SEPARATOR" THEN p
    ELSE IF dollar \/ T[p.at + 1].value \in p.met
    THEN ParseItems(T, IF dollar THEN Match(T, p, "VALUE_SEPARATOR")
                       ELSE Match(T, Match(T, Match(T, p, "VALUE_SEPARATOR"), "EXPAND_IDENTIFIER"),
                                  "SEGMENT_SEPARATOR"), dollar)
    ELSE [p EXCEPT !.met = {}]

\* The list of parse_expand: after "$expand=", or after the "/" behind an entity.
ParseItems(T, p, dollar) ==
    IF Next1(T, p) = "OPTIONS_SEPARATOR" THEN p
    ELSE IF Next1(T, p) # "EXPAND_IDENTIFIER" THEN [p EXCEPT !.ok = FALSE]
    ELSE AfterItem(T, WithItem(p, T[p.at].value,
                               ParseItem(T, Match(T, p, "EXPAND_IDENTIFIER"), T[p.at].value)), dollar)

ParseExpand(T, p) ==
    ParseItems(T, [Skip1(T, Skip1(T, p, "EXPAND"), "SEGMENT_SEPARATOR") EXCEPT !.options.expand = <<>>],
               Next1(T, p) = "EXPAND")

\* Only a subquery starts with "/", and only a query has $resultFormat.
ParseOption(T, p, nested) ==
    CASE Next1(T, p) = "SELECT"  -> ParseSelect(T, p)
      [] Next1(T, p) = "FILTER"  -> ParseFilter(T, p, nested)
      [] Next1(T, p) = "EXPAND" \/ (nested /\ Next1(T, p) = "SEGMENT_SEPARATOR") -> ParseExpand(T, p)
      [] Next1(T, p) = "ORDERBY" -> ParseOrderBy(T, p)
      [] Next1(T, p) = "SKIP"    -> ParseSkip(T, p)
      [] Next1(T, p) = "TOP"     -> ParseTop(T, p)
      [] Next1(T, p) = "COUNT"   -> ParseCount(T, p)
      [] Next1(T, p) = "ASOF"    -> ParseAsOf(T, p)
      [] Next1(T, p) = "FROMTO"  -> ParseFromTo(T, p)
      [] Next1(T, p) = "RESULT_FORMAT" /\ ~nested -> ParseResultFormat(T, p)
      [] OTHER -> [p EXCEPT !.ok = FALSE]

RECURSIVE ParseOptions(_, _)
AfterOption(T, p) ==
    IF p.ok /\ Next1(T, p) = "SUBQUERY_SEPARATOR"
    THEN ParseOptions(T, Match(T, p, "SUBQUERY_SEPARATOR")) ELSE p
ParseOptions(T, p) == AfterOption(T, ParseOption(T, p, TRUE))

\* Its parentheses are optional, one by one.
ParseSubquery(T, p) ==
    Skip1(T, ParseOptions(T, Skip1(T, p, "LEFT_PAREN")), "RIGHT_PAREN")

RECURSIVE ParseQuery(_, _)
ToNextOption(T, p) ==
    IF p.ok /\ Next1(T, p) # "end" THEN Match(T, p, "OPTIONS_SEPARATOR") ELSE p
ParseQuery(T, p) ==
    IF ~p.ok \/ Next1(T, p) = "end" THEN p
    ELSE ParseQuery(T, ToNextOption(T, ParseOption(T, p, FALSE)))

ParseText(T) == ParseQuery(T, Parser)

-----------------------------------------------------------------------------
(* How a client writes a request: the tokens of its text.                  *)

Separator(sep) == <<Token(sep, "")>>

Joining(parts, sep) ==
    FoldLeft(LAMBDA text, part : IF text = <<>> THEN part ELSE text \o Separator(sep) \o part,
             <<>>, SelectSeq(parts, LAMBDA part : part # <<>>))

Option(type, valueType, value) == <<Token(type, ""), Token(valueType, value)>>
Opt(given, text) == IF given THEN text ELSE <<>>

\* A comparison over a path is put in parentheses, connectives are not.
WrittenFilter(f) ==
    FlattenSeq([k \in DOMAIN f |->
        IF f[k].nav = <<>> THEN <<Token("STRING", f[k])>>
        ELSE <<Token("LEFT_PAREN", "("), Token("STRING", f[k]), Token("RIGHT_PAREN", ")")>>])

\* With slashes, "A/B,A/C" for an entity whose only option is the entities expanded in it.
RECURSIVE WrittenItem(_, _), WrittenExpand(_, _)
WrittenItem(item, slashes) ==
    LET options == Joining(<<
            Opt(item.filter # <<>>, <<Token("FILTER", "")>> \o WrittenFilter(item.filter)),
            Opt(item.expand # <<>>, <<Token("EXPAND", "")>> \o WrittenExpand(item.expand, FALSE)),
            Opt(item.top # DefaultTop, Option("TOP", "INTEGER", item.top))>>, "SUBQUERY_SEPARATOR")
        name == <<Token("EXPAND_IDENTIFIER", item.rel)>>
    IN  IF options = <<>> THEN name
        ELSE IF slashes /\ item.filter = <<>> /\ item.top = DefaultTop
        THEN Joining([k \in DOMAIN item.expand |->
                        name \o Separator("SEGMENT_SEPARATOR") \o WrittenItem(item.expand[k], FALSE)],
                     "VALUE_SEPARATOR")
        ELSE name \o Separator("LEFT_PAREN") \o options \o Separator("RIGHT_PAREN")

WrittenExpand(items, slashes) ==
    Joining([k \in DOMAIN items |-> WrittenItem(items[k], slashes)], "VALUE_SEPARATOR")

\* With slashes also $select, $orderby and $count, whose effect is not in the model.
Written(r) == Joining(<<
    Opt(r.slashes, <<Token("SELECT", ""), Token("EXPAND_IDENTIFIER", "id"),
                     Token("VALUE_SEPARATOR", ","), Token("EXPAND_IDENTIFIER", "name")>>),
    Opt(r.filter # <<>>, <<Token("FILTER", "")>> \o WrittenFilter(r.filter)),
    Opt(r.expand # <<>>, <<Token("EXPAND", "")>> \o WrittenExpand(r.expand, r.slashes)),
    Opt(r.slashes, Option("ORDERBY", "EXPAND_IDENTIFIER", "id") \o Option("WHITESPACE", "ORDER", "asc")),
    Opt(r.top # DefaultTop, Option("TOP", "INTEGER", r.top)),
    Opt(r.skip # 0, Option("SKIP", "INTEGER", r.skip)),
    Opt(r.slashes, Option("COUNT", "BOOL", TRUE)),
    Opt(r.asof # 0, Option("ASOF", "DATETIME", r.asof)),
    Opt(r.fromto # <<>>, Option("FROMTO", "DATETIME", r.fromto[1])
                         \o Option("SEGMENT_SEPARATOR", "DATETIME", r.fromto[2])),
    Opt(r.dataArray, Option("RESULT_FORMAT", "RESULT_FORMAT_VALUE", TRUE))>>, "OPTIONS_SEPARATOR")
=============================================================================
