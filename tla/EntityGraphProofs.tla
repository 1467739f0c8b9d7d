------------------------- MODULE EntityGraphProofs --------------------------
(***************************************************************************)
(* Theorems about EntityGraph: the types, that no foreign key is left      *)
(* without its row, and that every new place of a Thing is recorded.       *)
(*                                                                         *)
(* Nothing is concurrent here: what is hard is that one request goes       *)
(* through many statements, deep inserts nested in each other, lists of    *)
(* links and cascades, and fails in the middle of them.  The invariant of  *)
(* a request under way is From(g0, open): the rows have the keys of their  *)
(* table and ids that were drawn; unless a statement failed (which rolls   *)
(* everything back) every key names a row, and every place that is new     *)
(* since the graph g0 of the beginning is said by a HistoricalLocation     *)
(* inserted since, except for those in open, which the next statement      *)
(* records.  Each statement, then each list of statements, leads from one  *)
(* such set to another; GraphInv, between requests, is From(graph, {}).    *)
(*                                                                         *)
(* The lists are folds.  A fold is a recursive function on the sets of     *)
(* positions; FoldExists says that there is such a function (functions of  *)
(* the first n positions are put together, by the least n that would have  *)
(* none) and FoldStays that it does not leave a set its step does not      *)
(* leave (by the least number of positions that would).                    *)
(***************************************************************************)
EXTENDS EntityGraph, FiniteSetTheorems, WellFoundedInduction, TLAPS

-----------------------------------------------------------------------------
(* Folds.  FoldLeft is a recursive function on the sets of positions: that  *)
(* it exists, and that it stays in a set its step does not leave.          *)

\* A set of numbers that is not empty has a smallest one: < is well-founded.
LEMMA LeastNatural ==
    ASSUME NEW S \in SUBSET Nat, S # {}
    PROVE  \E x \in S : \A y \in S : x <= y
  <1> DEFINE R == {ss \in Nat \X Nat : ss[1] < ss[2]}
  <1>1. IsWellFoundedOn(R, Nat)
    BY NatLessThanWellFounded DEF OpToRel
  <1> HIDE DEF R
  <1>2. PICK x \in S : \A y \in S : ~(<<y, x>> \in R)
    BY <1>1, WFMin
  <1>3. \A y \in S : ~(y < x)
    BY <1>2 DEF R
  <1> QED BY <1>3

\* Positions have a last one.
LEMMA LastPosition ==
    ASSUME NEW N \in Nat, NEW s \in SUBSET (1 .. N), s # {}
    PROVE  Max(s) \in s /\ \A y \in s : y <= Max(s)
  <1> DEFINE above == {u \in Nat : \A y \in s : y <= u}
  <1>1. N \in above
    OBVIOUS
  <1>2. PICK u \in above : \A v \in above : u <= v
    BY <1>1, LeastNatural
  <1>3. u \in s
    <2> SUFFICES ASSUME u \notin s PROVE FALSE
      OBVIOUS
    <2>1. \A y \in s : y < u
      BY <1>2
    <2>2. u > 0
      <3>1. PICK y \in s : TRUE
        OBVIOUS
      <3>2. y \in Nat /\ y < u /\ u \in Nat
        BY <2>1, <3>1
      <3> QED BY <3>2
    <2>3. u - 1 \in above
      BY <2>1, <2>2
    <2> QED BY <1>2, <2>3
  <1>4. \E x \in s : \A y \in s : x >= y
    BY <1>2, <1>3
  <1> QED BY <1>4 DEF Max

\* What holds of 0, and of a number when it holds of the one before, holds up to N.
LEMMA Stepwise ==
    ASSUME NEW N \in Nat, NEW P, 0 \in P, \A n \in 0 .. N - 1 : n \in P => n + 1 \in P
    PROVE  N \in P
  <1> DEFINE bad == {n \in 0 .. N : n \notin P}
  <1> SUFFICES ASSUME bad # {} PROVE FALSE
    BY N \in 0 .. N
  <1>1. PICK n \in bad : \A m \in bad : n <= m
    BY bad \in SUBSET Nat, LeastNatural
  <1>2. n \in 0 .. N /\ n # 0
    OBVIOUS
  <1>3. n - 1 \in 0 .. N - 1 /\ n - 1 \in 0 .. N /\ (n - 1) + 1 = n /\ ~(n <= n - 1)
    BY <1>2
  <1>4. n - 1 \in P
    BY <1>1, <1>3
  <1>5. n \in P
    BY <1>3, <1>4
  <1> QED BY <1>5

\* The fold of a function that stays in T.
IsFold(it, N, base, F) ==
    \A s \in SUBSET (1 .. N) :
        it[s] = IF s = {} THEN base ELSE F[<<it[s \ {Max(s)}], Max(s)>>]

LEMMA FoldExists ==
    ASSUME NEW N \in Nat, NEW T, NEW base \in T, NEW F \in [T \X (1 .. N) -> T]
    PROVE  \E it \in [SUBSET (1 .. N) -> T] : IsFold(it, N, base, F)
  <1> DEFINE Good(n) == \E it \in [SUBSET (1 .. n) -> T] : IsFold(it, n, base, F)
             P == {n \in 0 .. N : Good(n)}
  <1>1. Good(0)
    <2> DEFINE it == [s \in SUBSET (1 .. 0) |-> base]
    <2>1. it \in [SUBSET (1 .. 0) -> T] /\ IsFold(it, 0, base, F)
      BY DEF IsFold
    <2> QED BY <2>1
  <1>2. ASSUME NEW n \in 0 .. N - 1, Good(n)
        PROVE  Good(n + 1)
    <2>1. PICK old \in [SUBSET (1 .. n) -> T] : IsFold(old, n, base, F)
      BY <1>2
    <2> DEFINE it == [s \in SUBSET (1 .. n + 1) |->
                        IF n + 1 \in s THEN F[<<old[s \ {n + 1}], n + 1>>] ELSE old[s]]
    <2>2. ASSUME NEW s \in SUBSET (1 .. n + 1)
          PROVE  /\ it[s] \in T
                 /\ it[s] = IF s = {} THEN base ELSE F[<<it[s \ {Max(s)}], Max(s)>>]
      <3>1. CASE n + 1 \in s
        <4>1. Max(s) = n + 1
          <5>1. n + 1 \in Nat /\ s # {}
            BY <3>1
          <5>2. Max(s) \in s /\ n + 1 <= Max(s)
            BY <3>1, <5>1, LastPosition
          <5>3. Max(s) \in 1 .. n + 1
            BY <5>2
          <5> QED BY <5>2, <5>3
        <4>2. s \ {n + 1} \in SUBSET (1 .. n)
          OBVIOUS
        <4>3. it[s \ {n + 1}] = old[s \ {n + 1}]
          BY <4>2
        <4>4. old[s \ {n + 1}] \in T
          BY <4>2, <2>1
        <4> QED BY <3>1, <4>1, <4>3, <4>4
      <3>2. CASE n + 1 \notin s
        <4>1. s \in SUBSET (1 .. n)
          BY <3>2
        <4>2. it[s] = old[s] /\ old[s] \in T
          BY <3>2, <4>1, <2>1
        <4>3. CASE s = {}
          BY <4>1, <4>2, <4>3, <2>1 DEF IsFold
        <4>4. CASE s # {}
          <5>1. Max(s) \in s
            BY <4>1, <4>4, LastPosition, n \in Nat
          <5>2. s \ {Max(s)} \in SUBSET (1 .. n) /\ n + 1 \notin s \ {Max(s)}
            BY <4>1, <3>2
          <5>3. it[s \ {Max(s)}] = old[s \ {Max(s)}]
            BY <5>2
          <5>4. old[s] = F[<<old[s \ {Max(s)}], Max(s)>>]
            BY <4>1, <4>4, <2>1 DEF IsFold
          <5> QED BY <4>2, <4>4, <5>3, <5>4
        <4> QED BY <4>3, <4>4
      <3> QED BY <3>1, <3>2
    <2>3. it \in [SUBSET (1 .. n + 1) -> T]
      BY <2>2
    <2>4. IsFold(it, n + 1, base, F)
      BY <2>2 DEF IsFold
    <2> QED BY <2>3, <2>4
  <1> HIDE DEF Good
  <1>3. 0 \in P
    BY <1>1
  <1>4. \A n \in 0 .. N - 1 : n \in P => n + 1 \in P
    BY <1>2
  <1> HIDE DEF P
  <1>5. N \in P
    BY <1>3, <1>4, Stepwise
  <1> QED BY <1>5 DEF P, Good

\* Whatever it does elsewhere, a fold whose step stays in T does.
LEMMA FoldStays ==
    ASSUME NEW N \in Nat, NEW T, NEW it, it[{}] \in T,
           \A s \in SUBSET (1 .. N) : s # {} /\ it[s \ {Max(s)}] \in T => it[s] \in T
    PROVE  it[1 .. N] \in T
  <1> DEFINE P == {n \in 0 .. N : it[1 .. n] \in T}
  <1>1. 0 \in P
    BY 1 .. 0 = {}
  <1>2. ASSUME NEW n \in 0 .. N - 1, it[1 .. n] \in T
        PROVE  it[1 .. n + 1] \in T
    <2>1. n + 1 \in 1 .. n + 1 /\ n + 1 \in Nat /\ 1 .. n + 1 \in SUBSET (1 .. N)
      OBVIOUS
    <2>2. Max(1 .. n + 1) \in 1 .. n + 1 /\ n + 1 <= Max(1 .. n + 1)
      BY <2>1, LastPosition
    <2>3. Max(1 .. n + 1) = n + 1
      BY <2>2
    <2>4. (1 .. n + 1) \ {n + 1} = 1 .. n
      OBVIOUS
    <2> QED BY <1>2, <2>1, <2>3, <2>4
  <1>3. ASSUME NEW n \in 0 .. N - 1, n \in P PROVE n + 1 \in P
    <2>1. n + 1 \in 0 .. N
      OBVIOUS
    <2>2. it[1 .. n] \in T
      BY <1>3
    <2>3. it[1 .. n + 1] \in T
      BY <1>2, <2>2
    <2> QED BY <2>1, <2>3
  <1> HIDE DEF P
  <1>4. N \in P
    BY <1>1, <1>3, Stepwise
  <1> QED BY <1>4 DEF P

-----------------------------------------------------------------------------
(* Graphs.                                                                 *)

Keys(type) == [Refs(type) -> Nat]
PartKeys(type) == UNION {[K -> Nat] : K \in SUBSET Refs(type)}
Entity == Type \X (Nat \ {0})
Graphs ==
    [rows : UNION {[D -> UNION {Keys(type) : type \in Type}] : D \in SUBSET Entity},
     at : SUBSET (Nat \X Nat), seen : SUBSET (Nat \X Nat),
     next : [Type -> Nat \ {0}], ok : BOOLEAN]

\* Rows have their foreign keys, and ids that have been drawn.
Complete(g) == \A e \in DOMAIN g.rows : g.rows[e] \in Keys(e[1]) /\ e[2] < g.next[e[1]]

\* The foreign keys name rows.
Sound(g) ==
    /\ \A e \in DOMAIN g.rows : \A key \in Refs(e[1]) : Exists(g, key, g.rows[e][key])
    /\ \A x \in g.at : Exists(g, "Thing", x[1]) /\ Exists(g, "Location", x[2])
    /\ \A x \in g.seen :
          Exists(g, "Location", x[1]) /\ Exists(g, "HistoricalLocation", x[2])

\* A HistoricalLocation made since g0 says that the Thing was at the Location.
Says(g0, g, x) ==
    \E h \in Nat : /\ Exists(g, "HistoricalLocation", h) /\ h >= g0.next["HistoricalLocation"]
                   /\ g.rows[<<"HistoricalLocation", h>>]["Thing"] = x[1]
                   /\ <<x[2], h>> \in g.seen

\* What a transaction makes of g0, while it has yet to record the places in open.
From(g0, open) ==
    {g \in Graphs :
        /\ Complete(g) /\ g.next["HistoricalLocation"] >= g0.next["HistoricalLocation"]
        /\ g.ok => Sound(g) /\ \A x \in g.at \ (g0.at \union open) : Says(g0, g, x)}

LEMMA RefTypes ==
    /\ \A type \in Type : Refs(type) \subseteq Type
    /\ Refs("Datastream") = {"Thing", "Sensor", "ObservedProperty", "Network"}
    /\ Refs("Observation") = {"Datastream", "FeatureOfInterest"}
    /\ Refs("HistoricalLocation") = {"Thing"}
    /\ \A type \in Type \ {"Datastream", "Observation", "HistoricalLocation"} : Refs(type) = {}
  BY DEF Refs, Type

LEMMA GraphFields ==
    ASSUME NEW g \in Graphs
    PROVE  /\ DOMAIN g.rows \in SUBSET Entity
           /\ g.rows \in [DOMAIN g.rows -> UNION {Keys(type) : type \in Type}]
           /\ g.at \in SUBSET (Nat \X Nat) /\ g.seen \in SUBSET (Nat \X Nat)
           /\ g.next \in [Type -> Nat \ {0}] /\ g.ok \in BOOLEAN
           /\ g = [rows |-> g.rows, at |-> g.at, seen |-> g.seen, next |-> g.next, ok |-> g.ok]
  BY DEF Graphs

LEMMA GraphOf ==
    ASSUME NEW rows, NEW at \in SUBSET (Nat \X Nat), NEW seen \in SUBSET (Nat \X Nat),
           NEW next \in [Type -> Nat \ {0}], NEW ok \in BOOLEAN, NEW D \in SUBSET Entity,
           rows = [e \in D |-> rows[e]], \A e \in D : rows[e] \in Keys(e[1])
    PROVE  [rows |-> rows, at |-> at, seen |-> seen, next |-> next, ok |-> ok] \in Graphs
  <1>1. \A e \in D : rows[e] \in UNION {Keys(type) : type \in Type}
    BY DEF Entity
  <1>2. rows \in [D -> UNION {Keys(type) : type \in Type}]
    BY <1>1
  <1> QED BY <1>2 DEF Graphs

-----------------------------------------------------------------------------
(* Statements.                                                             *)

LEMMA FailFields ==
    ASSUME NEW g \in Graphs, NEW c \in BOOLEAN
    PROVE  /\ Fail(g, c).rows = g.rows /\ Fail(g, c).at = g.at /\ Fail(g, c).seen = g.seen
           /\ Fail(g, c).next = g.next /\ Fail(g, c).ok = (g.ok /\ c) /\ Fail(g, c) \in Graphs
  <1> DEFINE ok == g.ok /\ c
  <1>1. Fail(g, c) = [rows |-> g.rows, at |-> g.at, seen |-> g.seen, next |-> g.next, ok |-> ok]
    BY GraphFields DEF Fail
  <1>2. ok \in BOOLEAN
    BY GraphFields
  <1> HIDE DEF ok
  <1>3. Fail(g, c) \in Graphs
    BY <1>1, <1>2 DEF Graphs
  <1> QED BY <1>1, <1>3 DEF ok

LEMMA FailStays ==
    ASSUME NEW g0 \in Graphs, NEW open, NEW g \in From(g0, open), NEW c \in BOOLEAN
    PROVE  /\ Fail(g, c) \in From(g0, open)
           /\ Fail(g, c).rows = g.rows /\ Fail(g, c).at = g.at /\ Fail(g, c).seen = g.seen
           /\ Fail(g, c).next = g.next /\ Fail(g, c).ok = (g.ok /\ c)
  <1>1. g \in Graphs
    BY DEF From
  <1>2. Fail(g, c) = [rows |-> g.rows, at |-> g.at, seen |-> g.seen, next |-> g.next,
                      ok |-> g.ok /\ c]
    BY <1>1, GraphFields DEF Fail
  <1>3. Fail(g, c) \in Graphs
    BY <1>1, <1>2 DEF Graphs
  <1> DEFINE r == Fail(g, c)
  <1>4. /\ r \in Graphs /\ r.rows = g.rows /\ r.at = g.at /\ r.seen = g.seen /\ r.next = g.next
        /\ r.ok = (g.ok /\ c)
    BY <1>2, <1>3
  <1> HIDE DEF r
  <1>5. \A t, i : Exists(r, t, i) <=> Exists(g, t, i)
    BY <1>4 DEF Exists
  <1>6. Complete(r)
    BY <1>4 DEF From, Complete
  <1>7. Sound(g) => Sound(r)
    BY <1>4, <1>5 DEF Sound
  <1>8. \A x : Says(g0, g, x) => Says(g0, r, x)
    BY <1>4, <1>5 DEF Says
  <1>9. r \in From(g0, open)
    BY <1>4, <1>6, <1>7, <1>8 DEF From
  <1> QED BY <1>4, <1>9 DEF r

\* INSERT: the new row is there, the others are as they were.
Inserted(g0, open, g, type, refs, r) ==
    /\ r \in From(g0, open)
    /\ DOMAIN r.rows = DOMAIN g.rows \union {<<type, g.next[type]>>}
    /\ \A e \in DOMAIN g.rows : r.rows[e] = g.rows[e]
    /\ r.rows[<<type, g.next[type]>>] = refs
    /\ r.at = g.at /\ r.seen = g.seen
    /\ r.next = [g.next EXCEPT ![type] = @ + 1]
    /\ r.ok = (g.ok /\ \A key \in Refs(type) : Exists(g, key, refs[key]))

LEMMA InsertStays ==
    ASSUME NEW g0 \in Graphs, NEW open, NEW g \in From(g0, open),
           NEW type \in Type, NEW refs \in Keys(type)
    PROVE  Inserted(g0, open, g, type, refs, InsertEntity(g, type, refs))
  <1> DEFINE ok == g.ok /\ \A key \in Refs(type) : Exists(g, key, refs[key])
             new == <<type, g.next[type]>>
             rows == Over(Ref(new, refs), g.rows)
             next == [g.next EXCEPT ![type] = @ + 1]
             r == [rows |-> rows, at |-> g.at, seen |-> g.seen, next |-> next, ok |-> ok]
  <1>1. g \in Graphs
    BY DEF From
  <1>2. InsertEntity(g, type, refs) = r
    <2> DEFINE cond == \A key \in Refs(type) : Exists(g, key, refs[key])
               f == Fail(g, cond)
    <2>1. InsertEntity(g, type, refs) =
            [f EXCEPT !.rows = Over(Ref(new, refs), @), !.next[type] = @ + 1]
      BY DEF InsertEntity
    <2>2. cond \in BOOLEAN
      OBVIOUS
    <2>3. ok = (g.ok /\ cond)
      OBVIOUS
    <2> HIDE DEF cond, ok
    <2>4. /\ f \in Graphs /\ f.rows = g.rows /\ f.at = g.at /\ f.seen = g.seen /\ f.next = g.next
          /\ f.ok = ok
      BY <1>1, <2>2, <2>3, FailFields
    <2> HIDE DEF f
    <2>5. f = [rows |-> g.rows, at |-> g.at, seen |-> g.seen, next |-> g.next, ok |-> ok]
      BY <2>4, GraphFields
    <2> QED BY <2>1, <2>5
  <1>3. /\ rows = [e \in DOMAIN g.rows \union {new} |-> rows[e]]
        /\ rows[new] = refs
        /\ \A e \in DOMAIN g.rows : e # new => rows[e] = g.rows[e]
    BY DEF Over, Ref
  <1>4. new \in Entity /\ DOMAIN g.rows \in SUBSET Entity
    BY <1>1, GraphFields DEF Entity
  <1>5. new \notin DOMAIN g.rows
    BY <1>1, GraphFields DEF From, Complete
  <1>6. next \in [Type -> Nat \ {0}] /\ next[type] = g.next[type] + 1
        /\ \A t \in Type : t # type => next[t] = g.next[t]
    BY <1>1, GraphFields
  <1> HIDE DEF rows, next, new
  <1>7. \A e \in DOMAIN g.rows \union {new} : rows[e] \in Keys(e[1]) /\ e[2] < next[e[1]]
    <2>1. ASSUME NEW e \in DOMAIN g.rows PROVE rows[e] \in Keys(e[1]) /\ e[2] < next[e[1]]
      <3>1. rows[e] = g.rows[e] /\ g.rows[e] \in Keys(e[1]) /\ e[2] < g.next[e[1]]
        BY <1>3, <1>5 DEF From, Complete
      <3>2. e[1] \in Type /\ e[2] \in Nat /\ g.next[e[1]] \in Nat
        BY <1>1, <1>4, GraphFields DEF Entity
      <3> QED BY <3>1, <3>2, <1>6
    <2>2. rows[new] \in Keys(new[1]) /\ new[2] < next[new[1]]
      BY <1>1, <1>3, <1>6, GraphFields DEF new
    <2> QED BY <2>1, <2>2
  <1>8. r \in Graphs /\ r.rows = rows /\ r.next = next /\ r.at = g.at /\ r.seen = g.seen /\ r.ok = ok
    <2>1. ok \in BOOLEAN
      BY <1>1, GraphFields
    <2> HIDE DEF ok
    <2>2. r \in Graphs
      <3> DEFINE D == DOMAIN g.rows \union {new}
      <3>1. D \in SUBSET Entity /\ rows = [e \in D |-> rows[e]] /\ \A e \in D : rows[e] \in Keys(e[1])
        BY <1>3, <1>4, <1>7
      <3>2. g.at \in SUBSET (Nat \X Nat) /\ g.seen \in SUBSET (Nat \X Nat)
        BY <1>1, GraphFields
      <3>3. next \in [Type -> Nat \ {0}]
        BY <1>6
      <3> HIDE DEF D
      <3> QED BY <2>1, <3>1, <3>2, <3>3, GraphOf
    <2> QED BY <2>2
  <1>9. DOMAIN r.rows = DOMAIN g.rows \union {new}
    BY <1>3
  <1>10. \A t, i : Exists(g, t, i) => Exists(r, t, i)
    BY <1>3 DEF Exists
  <1> HIDE DEF r
  <1>11. Complete(r)
    BY <1>7, <1>8, <1>9 DEF Complete
  <1>12. ASSUME r.ok PROVE Sound(r)
    <2>1. Sound(g) /\ \A key \in Refs(type) : Exists(g, key, refs[key])
      BY <1>8, <1>12 DEF From
    <2>2. ASSUME NEW e \in DOMAIN r.rows, NEW key \in Refs(e[1])
          PROVE  Exists(r, key, r.rows[e][key])
      <3>1. CASE e = new
        <4>1. e[1] = type /\ r.rows[e] = refs
          BY <3>1, <1>3, <1>8 DEF new
        <4> QED BY <4>1, <2>1, <1>10
      <3>2. CASE e # new
        <4>1. e \in DOMAIN g.rows /\ r.rows[e] = g.rows[e]
          BY <3>2, <1>3, <1>8, <1>9
        <4> QED BY <4>1, <2>1, <1>10 DEF Sound
      <3> QED BY <3>1, <3>2
    <2> QED BY <2>1, <2>2, <1>8, <1>10 DEF Sound
  <1>13. ASSUME r.ok, NEW x \in r.at \ (g0.at \union open) PROVE Says(g0, r, x)
    <2>1. Says(g0, g, x)
      BY <1>8, <1>13 DEF From
    <2>2. PICK h \in Nat : /\ Exists(g, "HistoricalLocation", h) /\ h >= g0.next["HistoricalLocation"]
                   /\ g.rows[<<"HistoricalLocation", h>>]["Thing"] = x[1]
                   /\ <<x[2], h>> \in g.seen
      BY <2>1 DEF Says
    <2>3. r.rows[<<"HistoricalLocation", h>>] = g.rows[<<"HistoricalLocation", h>>]
      BY <2>2, <1>3, <1>5, <1>8 DEF Exists
    <2> QED BY <2>2, <2>3, <1>8, <1>10 DEF Says
  <1>14. r.next["HistoricalLocation"] >= g0.next["HistoricalLocation"]
    <2>1. /\ g.next["HistoricalLocation"] \in Nat /\ g0.next["HistoricalLocation"] \in Nat
          /\ "HistoricalLocation" \in Type
      BY <1>1, GraphFields DEF Type
    <2>2. g.next["HistoricalLocation"] >= g0.next["HistoricalLocation"]
      BY DEF From
    <2>3. next["HistoricalLocation"] \in {g.next["HistoricalLocation"], g.next["HistoricalLocation"] + 1}
      BY <1>6, <2>1
    <2> QED BY <2>1, <2>2, <2>3, <1>8
  <1>15. r \in From(g0, open)
    BY <1>8, <1>11, <1>12, <1>13, <1>14 DEF From
  <1> QED BY <1>2, <1>3, <1>5, <1>8, <1>9, <1>15 DEF new, next, Inserted

\* UPDATE of foreign keys.
LEMMA LinkStays ==
    ASSUME NEW g0 \in Graphs, NEW open, NEW g \in From(g0, open),
           NEW type \in Type, NEW id, NEW refs \in PartKeys(type),
           type # "HistoricalLocation" \/ g.at \subseteq g0.at
    PROVE  /\ Link(g, type, id, refs) \in From(g0, open)
           /\ Link(g, type, id, refs).at = g.at
  <1> SUFFICES ASSUME Exists(g, type, id)
               PROVE  /\ Link(g, type, id, refs) \in From(g0, open)
                      /\ Link(g, type, id, refs).at = g.at
    BY DEF Link
  <1> DEFINE cond == \A key \in DOMAIN refs : Exists(g, key, refs[key])
             f == Fail(g, cond)
             e0 == <<type, id>>
             rows == [g.rows EXCEPT ![e0] = Over(refs, @)]
             r == [f EXCEPT !.rows = rows]
  <1>1. g \in Graphs /\ Complete(g)
    BY DEF From
  <1>2. cond \in BOOLEAN
    OBVIOUS
  <1>3. Link(g, type, id, refs) = [f EXCEPT !.rows[e0] = Over(refs, @)]
    BY DEF Link
  <1>4. PICK K \in SUBSET Refs(type) : refs \in [K -> Nat]
    BY DEF PartKeys
  <1>5. \A key \in K : cond => Exists(g, key, refs[key])
    BY <1>4
  <1> HIDE DEF cond
  <1>a. /\ f \in From(g0, open)
        /\ f.rows = g.rows /\ f.at = g.at /\ f.seen = g.seen /\ f.next = g.next
        /\ f.ok = (g.ok /\ cond)
    BY <1>2, FailStays
  <1> HIDE DEF f
  <1>b. f \in Graphs
    BY <1>a DEF From
  <1>c. f.ok \in BOOLEAN
    BY <1>b, GraphFields
  <1>6. /\ f \in Graphs /\ f.rows = g.rows /\ f.at = g.at /\ f.seen = g.seen /\ f.next = g.next
        /\ f.ok = (g.ok /\ cond) /\ f.ok \in BOOLEAN
    BY <1>a, <1>b, <1>c
  <1>7. Link(g, type, id, refs) = r
    BY <1>3, <1>6, GraphFields
  <1>8. f = [rows |-> g.rows, at |-> g.at, seen |-> g.seen, next |-> g.next, ok |-> f.ok]
    BY <1>6, GraphFields
  <1>9. e0 \in DOMAIN g.rows /\ e0[1] = type
    BY DEF Exists
  <1>10. Over(refs, g.rows[e0]) \in Keys(type)
         /\ \A key \in Refs(type) : Over(refs, g.rows[e0])[key] =
                IF key \in K THEN refs[key] ELSE g.rows[e0][key]
    BY <1>1, <1>4, <1>9 DEF Over, Keys, Complete
  <1>11. /\ DOMAIN rows = DOMAIN g.rows /\ rows = [e \in DOMAIN g.rows |-> rows[e]]
         /\ rows[e0] = Over(refs, g.rows[e0])
         /\ \A e \in DOMAIN g.rows : e # e0 => rows[e] = g.rows[e]
    BY <1>1, <1>9, GraphFields
  <1> HIDE DEF rows, e0
  <1>12. \A e \in DOMAIN rows : rows[e] \in Keys(e[1])
    BY <1>1, <1>9, <1>10, <1>11 DEF Complete
  <1>13. /\ r.rows = rows /\ r.at = g.at /\ r.seen = g.seen /\ r.next = g.next /\ r.ok = f.ok
         /\ r = [rows |-> rows, at |-> g.at, seen |-> g.seen, next |-> g.next, ok |-> f.ok]
    BY <1>8
  <1>14. r \in Graphs
    <2>1. DOMAIN g.rows \in SUBSET Entity /\ g.at \in SUBSET (Nat \X Nat)
          /\ g.seen \in SUBSET (Nat \X Nat) /\ g.next \in [Type -> Nat \ {0}]
      BY <1>1, GraphFields
    <2> DEFINE D == DOMAIN g.rows
    <2>2. rows = [e \in D |-> rows[e]] /\ \A e \in D : rows[e] \in Keys(e[1])
      BY <1>11, <1>12
    <2> HIDE DEF D
    <2>3. D \in SUBSET Entity
      BY <2>1 DEF D
    <2>4. r = [rows |-> rows, at |-> g.at, seen |-> g.seen, next |-> g.next, ok |-> f.ok]
      BY <1>13
    <2> DEFINE ok == f.ok
    <2>5. ok \in BOOLEAN
      BY <1>6
    <2>6. r = [rows |-> rows, at |-> g.at, seen |-> g.seen, next |-> g.next, ok |-> ok]
      BY <2>4
    <2> HIDE DEF ok, r
    <2>7. [rows |-> rows, at |-> g.at, seen |-> g.seen, next |-> g.next, ok |-> ok] \in Graphs
      BY <2>1, <2>2, <2>3, <2>5, GraphOf
    <2> QED BY <2>6, <2>7
  <1> HIDE DEF r
  <1>15. \A t, i : Exists(r, t, i) <=> Exists(g, t, i)
    BY <1>11, <1>13 DEF Exists
  <1>16. Complete(r)
    BY <1>1, <1>11, <1>12, <1>13 DEF Complete
  <1>17. ASSUME r.ok PROVE Sound(r)
    <2>1. Sound(g) /\ cond
      BY <1>6, <1>13, <1>17 DEF From
    <2>2. ASSUME NEW e \in DOMAIN r.rows, NEW key \in Refs(e[1])
          PROVE  Exists(r, key, r.rows[e][key])
      <3>1. e \in DOMAIN g.rows /\ Exists(g, key, g.rows[e][key])
        BY <2>1, <1>11, <1>13 DEF Sound
      <3>2. CASE e = e0
        BY <3>1, <3>2, <1>5, <1>9, <1>10, <1>11, <1>13, <1>15, <2>1
      <3>3. CASE e # e0
        BY <3>1, <3>3, <1>11, <1>13, <1>15
      <3> QED BY <3>2, <3>3
    <2> QED BY <2>1, <2>2, <1>13, <1>15 DEF Sound
  <1>18. ASSUME r.ok, NEW x \in r.at \ (g0.at \union open) PROVE Says(g0, r, x)
    <2>1. Says(g0, g, x)
      BY <1>6, <1>13, <1>18 DEF From
    <2>2. type # "HistoricalLocation"
      BY <1>13, <1>18
    <2>3. \A h : <<"HistoricalLocation", h>> # e0
      BY <2>2 DEF e0
    <2>4. \A h : Exists(g, "HistoricalLocation", h) =>
            r.rows[<<"HistoricalLocation", h>>] = g.rows[<<"HistoricalLocation", h>>]
      BY <2>3, <1>11, <1>13 DEF Exists
    <2> QED BY <2>1, <2>4, <1>13, <1>15 DEF Says
  <1>19. r \in From(g0, open)
    BY <1>13, <1>14, <1>16, <1>17, <1>18 DEF From
  <1> QED BY <1>7, <1>13, <1>19

\* Thing_Location changes: what comes in is open until it is recorded.
SetAt(g, c, at) == [Fail(g, c) EXCEPT !.at = at]
Rest(g, r) == r.rows = g.rows /\ r.next = g.next

LEMMA PlacesStay ==
    ASSUME NEW g0 \in Graphs, NEW open, NEW g \in From(g0, open), NEW c \in BOOLEAN,
           NEW at \in SUBSET (Nat \X Nat), NEW new, at \subseteq g.at \union new,
           g.ok /\ c => \A x \in at : Exists(g, "Thing", x[1]) /\ Exists(g, "Location", x[2])
    PROVE  Rest(g, SetAt(g, c, at)) /\ SetAt(g, c, at) \in From(g0, open \union new)
  <1> DEFINE f == Fail(g, c)
             r == [f EXCEPT !.at = at]
  <1>1. g \in Graphs
    BY DEF From
  <1>2. /\ f \in From(g0, open) /\ f \in Graphs
        /\ f.rows = g.rows /\ f.at = g.at /\ f.seen = g.seen /\ f.next = g.next /\ f.ok = (g.ok /\ c)
    BY FailStays DEF From
  <1> HIDE DEF f
  <1>3. /\ r.rows = g.rows /\ r.at = at /\ r.seen = g.seen /\ r.next = g.next /\ r.ok = f.ok
        /\ r = [rows |-> g.rows, at |-> at, seen |-> g.seen, next |-> g.next, ok |-> f.ok]
    BY <1>2, GraphFields
  <1>4. r \in Graphs
    BY <1>2, <1>3 DEF Graphs
  <1> HIDE DEF r
  <1>5. \A t, i : Exists(r, t, i) <=> Exists(g, t, i)
    BY <1>3 DEF Exists
  <1>6. Complete(r) /\ (r.ok => Sound(g))
    BY <1>2, <1>3 DEF From, Complete
  <1>7. ASSUME r.ok PROVE Sound(r)
    BY <1>2, <1>3, <1>5, <1>6, <1>7 DEF Sound
  <1>8. ASSUME r.ok, NEW x \in r.at \ (g0.at \union (open \union new)) PROVE Says(g0, r, x)
    <2>1. Says(g0, g, x)
      BY <1>2, <1>3, <1>8 DEF From
    <2> QED BY <2>1, <1>3, <1>5 DEF Says
  <1>9. r \in From(g0, open \union new)
    BY <1>3, <1>4, <1>6, <1>7, <1>8 DEF From
  <1> QED BY <1>2, <1>3, <1>9 DEF f, r, SetAt, Rest

\* Location_HistoricalLocation changes.
SetSeen(g, c, seen) == [Fail(g, c) EXCEPT !.seen = seen]

LEMMA SightsStay ==
    ASSUME NEW g0 \in Graphs, NEW open, NEW g \in From(g0, open), NEW c \in BOOLEAN,
           NEW seen \in SUBSET (Nat \X Nat), g.seen \subseteq seen \/ g.at \subseteq g0.at,
           g.ok /\ c => \A x \in seen : /\ Exists(g, "Location", x[1])
                                        /\ Exists(g, "HistoricalLocation", x[2])
    PROVE  /\ SetSeen(g, c, seen) \in From(g0, open) /\ SetSeen(g, c, seen).rows = g.rows
           /\ SetSeen(g, c, seen).seen = seen /\ SetSeen(g, c, seen).next = g.next
           /\ SetSeen(g, c, seen).at = g.at
  <1> DEFINE f == Fail(g, c)
             r == [f EXCEPT !.seen = seen]
  <1>1. g \in Graphs
    BY DEF From
  <1>2. /\ f \in From(g0, open) /\ f \in Graphs
        /\ f.rows = g.rows /\ f.at = g.at /\ f.seen = g.seen /\ f.next = g.next /\ f.ok = (g.ok /\ c)
    BY FailStays DEF From
  <1> HIDE DEF f
  <1>3. /\ r.rows = g.rows /\ r.at = g.at /\ r.seen = seen /\ r.next = g.next /\ r.ok = f.ok
        /\ r = [rows |-> g.rows, at |-> g.at, seen |-> seen, next |-> g.next, ok |-> f.ok]
    BY <1>2, GraphFields
  <1>4. r \in Graphs
    BY <1>2, <1>3 DEF Graphs
  <1> HIDE DEF r
  <1>5. \A t, i : Exists(r, t, i) <=> Exists(g, t, i)
    BY <1>3 DEF Exists
  <1>6. Complete(r) /\ (r.ok => Sound(g))
    BY <1>2, <1>3 DEF From, Complete
  <1>7. ASSUME r.ok PROVE Sound(r)
    BY <1>2, <1>3, <1>5, <1>6, <1>7 DEF Sound
  <1>8. ASSUME r.ok, NEW x \in r.at \ (g0.at \union open) PROVE Says(g0, r, x)
    <2>1. Says(g0, g, x) /\ g.seen \subseteq seen
      BY <1>2, <1>3, <1>8 DEF From
    <2> QED BY <2>1, <1>3, <1>5 DEF Says
  <1>9. r \in From(g0, open)
    BY <1>3, <1>4, <1>6, <1>7, <1>8 DEF From
  <1> QED BY <1>2, <1>3, <1>9 DEF f, r, SetSeen

LEMMA OpenMore ==
    ASSUME NEW g0 \in Graphs, NEW open, NEW more, NEW g \in From(g0, open)
    PROVE  g \in From(g0, open \union more)
  BY DEF From

\* What has been recorded is open no more.
LEMMA Closed ==
    ASSUME NEW g0 \in Graphs, NEW open, NEW g \in From(g0, open),
           g.ok => \A x \in open : Says(g0, g, x)
    PROVE  g \in From(g0, {})
  BY DEF From

\* A Thing comes to a Location.
Places(g0, g, t, l, r) ==
    /\ r \in From(g0, {<<t, l>>})
    /\ r.rows = g.rows /\ r.next = g.next

LEMMA PlaceStays ==
    ASSUME NEW g0 \in Graphs, NEW t \in Nat, NEW l \in Nat, NEW g \in From(g0, {<<t, l>>})
    PROVE  Places(g0, g, t, l, Place(g, t, l))
  <1> DEFINE c == <<t, l>> \notin g.at /\ Exists(g, "Thing", t) /\ Exists(g, "Location", l)
             at == g.at \union {<<t, l>>}
             f == Fail(g, c)
  <1>1. c \in BOOLEAN /\ (c => Exists(g, "Thing", t) /\ Exists(g, "Location", l))
    OBVIOUS
  <1>2. Place(g, t, l) = [f EXCEPT !.at = @ \union {<<t, l>>}]
    BY DEF Place
  <1> HIDE DEF c
  <1>a. g \in Graphs
    BY DEF From
  <1>3. f.at = g.at /\ f \in Graphs
    BY <1>1, <1>a, FailFields
  <1> HIDE DEF f
  <1>4. Place(g, t, l) = [f EXCEPT !.at = at]
    BY <1>2, <1>3
  <1>5. at \in SUBSET (Nat \X Nat)
    BY GraphFields DEF From
  <1>6. g.ok /\ c => \A x \in at : Exists(g, "Thing", x[1]) /\ Exists(g, "Location", x[2])
    BY <1>1 DEF From, Sound
  <1>7. at \subseteq g.at \union {<<t, l>>}
    OBVIOUS
  <1> HIDE DEF at
  <1>8. g.ok /\ c => \A x \in at : Exists(g, "Thing", x[1]) /\ Exists(g, "Location", x[2])
    BY <1>6
  <1> DEFINE here == {<<t, l>>}
             r == SetAt(g, c, at)
  <1>9. g \in From(g0, here) /\ at \subseteq g.at \union here /\ here \union here = here
    BY <1>7
  <1> HIDE DEF here
  <1> HIDE DEF r
  <1>10. Rest(g, SetAt(g, c, at)) /\ SetAt(g, c, at) \in From(g0, here \union here)
    BY <1>1, <1>5, <1>8, <1>9, PlacesStay, ZenonT(60)
  <1> QED BY <1>4, <1>9, <1>10 DEF Places, f, here, SetAt, Rest, r

LEMMA MoveAllStays ==
    ASSUME NEW g0 \in Graphs, NEW t \in Nat, NEW l \in Nat, NEW g \in From(g0, {<<t, l>>}),
           At(g, t) # {}
    PROVE  Places(g0, g, t, l, MoveAll(g, t, l))
  <1> DEFINE c == Cardinality(At(g, t)) <= 1 /\ Exists(g, "Location", l)
             at == {x \in g.at : x[1] # t} \union {<<t, l>>}
             f == Fail(g, c)
  <1>1. c \in BOOLEAN /\ (c => Exists(g, "Location", l))
    OBVIOUS
  <1>2. MoveAll(g, t, l) = [f EXCEPT !.at = {x \in @ : x[1] # t} \union {<<t, l>>}]
    BY DEF MoveAll
  <1> HIDE DEF c
  <1>a. g \in Graphs
    BY DEF From
  <1>3. f.at = g.at /\ f \in Graphs
    BY <1>1, <1>a, FailFields
  <1> HIDE DEF f
  <1>4. MoveAll(g, t, l) = [f EXCEPT !.at = at]
    BY <1>2, <1>3
  <1>5. at \in SUBSET (Nat \X Nat)
    BY GraphFields DEF From
  <1>6. ASSUME g.ok, c, NEW x \in at
        PROVE  Exists(g, "Thing", x[1]) /\ Exists(g, "Location", x[2])
    <2>1. Sound(g)
      BY <1>6 DEF From
    <2>2. PICK m : <<t, m>> \in g.at
      BY DEF At
    <2>3. Exists(g, "Thing", t)
      BY <2>1, <2>2 DEF Sound
    <2> QED BY <2>1, <2>3, <1>1, <1>6 DEF Sound
  <1>7. at \subseteq g.at \union {<<t, l>>}
    OBVIOUS
  <1> HIDE DEF at
  <1>8. g.ok /\ c => \A x \in at : Exists(g, "Thing", x[1]) /\ Exists(g, "Location", x[2])
    BY <1>6
  <1> DEFINE here == {<<t, l>>}
             r == SetAt(g, c, at)
  <1>9. g \in From(g0, here) /\ at \subseteq g.at \union here /\ here \union here = here
    BY <1>7
  <1> HIDE DEF here
  <1> HIDE DEF r
  <1>10. Rest(g, SetAt(g, c, at)) /\ SetAt(g, c, at) \in From(g0, here \union here)
    BY <1>1, <1>5, <1>8, <1>9, PlacesStay, ZenonT(60)
  <1> QED BY <1>4, <1>9, <1>10 DEF Places, f, here, SetAt, Rest, r

LEMMA TakeOverStays ==
    ASSUME NEW g0 \in Graphs, NEW t \in Nat, NEW l \in Nat, NEW g \in From(g0, {<<t, l>>}),
           \E x \in g.at : x[2] = l
    PROVE  Places(g0, g, t, l, TakeOver(g, t, l))
  <1> DEFINE c == Cardinality({x \in g.at : x[2] = l}) <= 1 /\ Exists(g, "Thing", t)
             at == {x \in g.at : x[2] # l} \union {<<t, l>>}
             f == Fail(g, c)
  <1>1. c \in BOOLEAN /\ (c => Exists(g, "Thing", t))
    OBVIOUS
  <1>2. TakeOver(g, t, l) = [f EXCEPT !.at = {x \in @ : x[2] # l} \union {<<t, l>>}]
    BY DEF TakeOver
  <1> HIDE DEF c
  <1>a. g \in Graphs
    BY DEF From
  <1>3. f.at = g.at /\ f \in Graphs
    BY <1>1, <1>a, FailFields
  <1> HIDE DEF f
  <1>4. TakeOver(g, t, l) = [f EXCEPT !.at = at]
    BY <1>2, <1>3
  <1>5. at \in SUBSET (Nat \X Nat)
    BY GraphFields DEF From
  <1>6. ASSUME g.ok, c, NEW x \in at
        PROVE  Exists(g, "Thing", x[1]) /\ Exists(g, "Location", x[2])
    <2>1. Sound(g)
      BY <1>6 DEF From
    <2>2. Exists(g, "Location", l)
      BY <2>1 DEF Sound
    <2> QED BY <2>1, <2>2, <1>1, <1>6 DEF Sound
  <1>7. at \subseteq g.at \union {<<t, l>>}
    OBVIOUS
  <1> HIDE DEF at
  <1>8. g.ok /\ c => \A x \in at : Exists(g, "Thing", x[1]) /\ Exists(g, "Location", x[2])
    BY <1>6
  <1> DEFINE here == {<<t, l>>}
             r == SetAt(g, c, at)
  <1>9. g \in From(g0, here) /\ at \subseteq g.at \union here /\ here \union here = here
    BY <1>7
  <1> HIDE DEF here
  <1> HIDE DEF r
  <1>10. Rest(g, SetAt(g, c, at)) /\ SetAt(g, c, at) \in From(g0, here \union here)
    BY <1>1, <1>5, <1>8, <1>9, PlacesStay, ZenonT(60)
  <1> QED BY <1>4, <1>9, <1>10 DEF Places, f, here, SetAt, Rest, r

\* The ways the endpoints put a Thing at a Location.
LEMMA ManageStays ==
    ASSUME NEW g0 \in Graphs, NEW t \in Nat, NEW l \in Nat, NEW g \in From(g0, {}),
           NEW newRecord
    PROVE  Places(g0, g, t, l, Manage(g, t, l, newRecord))
  <1>1. g \in From(g0, {<<t, l>>})
    <2>1. {} \union {<<t, l>>} = {<<t, l>>}
      OBVIOUS
    <2>2. g \in From(g0, {} \union {<<t, l>>})
      BY OpenMore
    <2> QED BY <2>1, <2>2
  <1>2. CASE newRecord \/ At(g, t) = {}
    BY <1>1, <1>2, PlaceStays DEF Manage
  <1>3. CASE ~(newRecord \/ At(g, t) = {})
    BY <1>1, <1>3, MoveAllStays DEF Manage, Move
  <1> QED BY <1>2, <1>3

LEMMA PlaceAnywayStays ==
    ASSUME NEW g0 \in Graphs, NEW t \in Nat, NEW l \in Nat, NEW g \in From(g0, {<<t, l>>})
    PROVE  Places(g0, g, t, l, PlaceAnyway(g, t, l))
  BY PlaceStays DEF PlaceAnyway, Places

\* Location_HistoricalLocation takes one row.
LEMMA SeeStays ==
    ASSUME NEW g0 \in Graphs, NEW open, NEW g \in From(g0, open), NEW l \in Nat, NEW h \in Nat,
           Exists(g, "HistoricalLocation", h)
    PROVE  LET r == See(g, l, h)
           IN  /\ r \in From(g0, open) /\ (r.ok => <<l, h>> \in r.seen)
               /\ r.rows = g.rows /\ r.next = g.next /\ r.at = g.at
  <1> DEFINE c == <<l, h>> \notin g.seen /\ Exists(g, "Location", l)
             seen == g.seen \union {<<l, h>>}
             f == Fail(g, c)
  <1>1. c \in BOOLEAN /\ (c => Exists(g, "Location", l))
    OBVIOUS
  <1>2. See(g, l, h) = [f EXCEPT !.seen = @ \union {<<l, h>>}]
    BY DEF See
  <1> HIDE DEF c
  <1>a. g \in Graphs
    BY DEF From
  <1>3. f.seen = g.seen /\ f \in Graphs
    BY <1>1, <1>a, FailFields
  <1> HIDE DEF f
  <1>4. See(g, l, h) = [f EXCEPT !.seen = seen]
    BY <1>2, <1>3
  <1>5. seen \in SUBSET (Nat \X Nat)
    BY GraphFields DEF From
  <1>6. g.ok /\ c => \A x \in seen : /\ Exists(g, "Location", x[1])
                                     /\ Exists(g, "HistoricalLocation", x[2])
    BY <1>1 DEF From, Sound
  <1>7. g.seen \subseteq seen /\ <<l, h>> \in seen
    OBVIOUS
  <1> HIDE DEF seen
  <1> DEFINE r == SetSeen(g, c, seen)
  <1>8. /\ r \in From(g0, open) /\ r.rows = g.rows /\ r.seen = seen /\ r.next = g.next
        /\ r.at = g.at
    BY <1>1, <1>5, <1>6, <1>7, SightsStay
  <1>9. See(g, l, h) = r
    BY <1>4 DEF f, SetSeen
  <1> QED BY <1>7, <1>8, <1>9

\* The place it was made for is recorded.
Closes(g0, g, r) == r \in From(g0, {}) /\ r.rows = g.rows /\ r.next = g.next

LEMMA SeeCloses ==
    ASSUME NEW g0 \in Graphs, NEW t \in Nat, NEW l \in Nat, NEW h \in Nat,
           NEW g \in From(g0, {<<t, l>>}), Exists(g, "HistoricalLocation", h),
           h >= g0.next["HistoricalLocation"],
           g.rows[<<"HistoricalLocation", h>>]["Thing"] = t
    PROVE  Closes(g0, g, See(g, l, h))
  <1> DEFINE r == See(g, l, h)
  <1>1. /\ r \in From(g0, {<<t, l>>}) /\ (r.ok => <<l, h>> \in r.seen)
        /\ r.rows = g.rows /\ r.next = g.next
    BY SeeStays
  <1> HIDE DEF r
  <1>2. r.ok => Says(g0, r, <<t, l>>)
    BY <1>1 DEF Says, Exists
  <1>3. r \in From(g0, {})
    BY <1>1, <1>2, Closed
  <1> QED BY <1>1, <1>3 DEF r, Closes

LEMMA RefKeys ==
    ASSUME NEW t \in Nat
    PROVE  Ref("Thing", t) \in Keys("HistoricalLocation") /\ Ref("Thing", t)["Thing"] = t
  BY RefTypes DEF Ref, Keys

LEMMA RecordStays ==
    ASSUME NEW g0 \in Graphs, NEW t \in Nat, NEW l \in Nat, NEW g \in From(g0, {<<t, l>>})
    PROVE  LET r == Record(g, t, l)
           IN  r \in From(g0, {}) /\ \A e \in DOMAIN g.rows : e \in DOMAIN r.rows /\ r.rows[e] = g.rows[e]
  <1> DEFINE h == g.next["HistoricalLocation"]
             m == InsertEntity(g, "HistoricalLocation", Ref("Thing", t))
             r == See(m, l, h)
  <1>1. "HistoricalLocation" \in Type
    BY DEF Type
  <1>2. h \in Nat /\ h >= g0.next["HistoricalLocation"]
    BY <1>1, GraphFields DEF From
  <1> DEFINE refs == Ref("Thing", t)
             open == {<<t, l>>}
  <1>a. refs \in Keys("HistoricalLocation") /\ refs["Thing"] = t /\ g \in From(g0, open)
    BY RefKeys
  <1> HIDE DEF refs, open
  <1>b. Inserted(g0, open, g, "HistoricalLocation", refs, InsertEntity(g, "HistoricalLocation", refs))
    BY <1>1, <1>a, InsertStays
  <1>3. /\ m \in From(g0, {<<t, l>>})
        /\ DOMAIN m.rows = DOMAIN g.rows \union {<<"HistoricalLocation", h>>}
        /\ \A e \in DOMAIN g.rows : m.rows[e] = g.rows[e]
        /\ m.rows[<<"HistoricalLocation", h>>] = refs
    BY <1>b DEF refs, open, Inserted
  <1>4. Record(g, t, l) = r
    BY DEF Record
  <1> HIDE DEF m, h
  <1>5. Exists(m, "HistoricalLocation", h) /\ m.rows[<<"HistoricalLocation", h>>]["Thing"] = t
    BY <1>3, <1>a DEF Exists
  <1>6. r \in From(g0, {}) /\ r.rows = m.rows
    BY <1>2, <1>3, <1>5, SeeCloses DEF Closes
  <1> QED BY <1>3, <1>4, <1>6

-----------------------------------------------------------------------------
(* Deletes.                                                                *)

\* ON DELETE CASCADE is two levels deep: what refers to what refers to a row is an
\* Observation, and nothing refers to those.
LEMMA RemoveStays ==
    ASSUME NEW g \in Graphs, g \in From(g, {}), NEW rows
    PROVE  /\ RemoveRows(g, rows) \in From(g, {})
           /\ RemoveRows(g, rows).next = g.next
           /\ RemoveRows(g, rows).ok = g.ok
  <1> DEFINE once == rows \union Referring(g, rows)
             gone == once \union Referring(g, once)
             left == [e \in DOMAIN g.rows \ gone |-> g.rows[e]]
             at == {x \in g.at : <<"Thing", x[1]>> \notin gone /\ <<"Location", x[2]>> \notin gone}
             seen == {x \in g.seen : /\ <<"Location", x[1]>> \notin gone
                                     /\ <<"HistoricalLocation", x[2]>> \notin gone}
             ok == g.ok
             r == [rows |-> left, at |-> at, seen |-> seen, next |-> g.next, ok |-> ok]
  <1>1. RemoveRows(g, rows) = r
    <2>1. RemoveRows(g, rows) = [g EXCEPT !.rows = left, !.at = at, !.seen = seen]
      BY DEF RemoveRows
    <2> HIDE DEF left, at, seen, gone
    <2> QED BY <2>1, GraphFields
  <1>2. ASSUME NEW e \in DOMAIN g.rows \ gone, NEW key \in Refs(e[1])
        PROVE  <<key, g.rows[e][key]>> \notin gone
    <2>1. <<key, g.rows[e][key]>> \notin once
      BY <1>2 DEF Referring
    <2>2. ASSUME <<key, g.rows[e][key]>> \in Referring(g, once) PROVE FALSE
      <3> DEFINE f == <<key, g.rows[e][key]>>
      <3>1. PICK up \in Refs(key) : <<up, g.rows[f][up]>> \in once
        BY <2>2 DEF Referring
      <3>2. Refs(up) = {} /\ f \in DOMAIN g.rows
        <4>1. e[1] \in Type
          BY GraphFields DEF Entity
        <4>2. key = "Datastream"
          BY <3>1, <4>1 DEF Refs, Type
        <4>3. up \in {"Thing", "Sensor", "ObservedProperty", "Network"}
          BY <3>1, <4>2, RefTypes
        <4>4. Refs(up) = {}
          BY <4>3, RefTypes DEF Type
        <4> QED BY <2>2, <4>4 DEF Referring
      <3>3. <<up, g.rows[f][up]>> \notin Referring(g, rows)
        BY <3>2 DEF Referring
      <3>4. f \in Referring(g, rows)
        BY <3>1, <3>2, <3>3 DEF Referring
      <3> QED BY <2>1, <3>4
    <2> QED BY <2>1, <2>2
  <1>3. r \in Graphs
    <2>1. ok \in BOOLEAN /\ at \in SUBSET (Nat \X Nat) /\ seen \in SUBSET (Nat \X Nat)
          /\ g.next \in [Type -> Nat \ {0}]
      BY GraphFields
    <2> DEFINE D == DOMAIN g.rows \ gone
    <2>2. D \in SUBSET Entity
      BY GraphFields
    <2>3. left = [e \in D |-> left[e]] /\ \A e \in D : left[e] \in Keys(e[1])
      BY DEF From, Complete
    <2> HIDE DEF ok, at, seen, left, D
    <2> QED BY <2>1, <2>2, <2>3, GraphOf
  <1>4. \A t, i : Exists(r, t, i) <=> (Exists(g, t, i) /\ <<t, i>> \notin gone)
    BY DEF Exists
  <1>5. /\ r.at = at /\ r.seen = seen /\ r.next = g.next /\ r.ok = g.ok
        /\ DOMAIN r.rows = DOMAIN g.rows \ gone
        /\ \A e \in DOMAIN r.rows : r.rows[e] = g.rows[e]
    OBVIOUS
  <1> HIDE DEF gone, r
  <1>6. Complete(r)
    BY <1>5 DEF From, Complete
  <1>7. ASSUME r.ok PROVE Sound(r)
    <2>1. Sound(g)
      BY <1>5, <1>7 DEF From
    <2> QED BY <2>1, <1>2, <1>4, <1>5 DEF Sound
  <1>8. r.at \ (g.at \union {}) = {}
    BY <1>5
  <1>9. r.next["HistoricalLocation"] >= g.next["HistoricalLocation"]
    BY <1>5, GraphFields DEF Type
  <1> QED BY <1>1, <1>3, <1>5, <1>6, <1>7, <1>8, <1>9 DEF From

-----------------------------------------------------------------------------
(* Deep inserts and nested links, each of them a fold.                     *)

\* The function that FoldLeft chooses ends in T, if it satisfies its own equation when
\* a function that stays in T does.
LEMMA FoldEnds ==
    ASSUME NEW N \in Nat, NEW T, NEW base \in T, NEW F \in [T \X (1 .. N) -> T], NEW it,
           (\E f \in [SUBSET (1 .. N) -> T] : IsFold(f, N, base, F)) =>
               /\ it[{}] \in T
               /\ \A s \in SUBSET (1 .. N) : s # {} /\ it[s \ {Max(s)}] \in T => it[s] \in T
    PROVE  it[1 .. N] \in T
  BY FoldExists, FoldStays

LEMMA Unlinked ==
    \A type \in {"Thing", "Location", "Sensor", "ObservedProperty", "Network", "FeatureOfInterest"} :
        type \in Type /\ NoRefs \in Keys(type)
  BY DEF Keys, Refs, NoRefs, Type

LEMMA MakeStays ==
    ASSUME NEW g0 \in Graphs, NEW g \in From(g0, {}),
           NEW type \in {"Thing", "Location", "Sensor", "ObservedProperty", "Network", "FeatureOfInterest"}
    PROVE  Inserted(g0, {}, g, type, NoRefs, InsertEntity(g, type, NoRefs))
  <1>1. type \in Type /\ NoRefs \in Keys(type)
    BY Unlinked
  <1> DEFINE open == {}
  <1>2. g \in From(g0, open)
    OBVIOUS
  <1> HIDE DEF open
  <1>3. Inserted(g0, open, g, type, NoRefs, InsertEntity(g, type, NoRefs))
    BY <1>1, <1>2, InsertStays
  <1> QED BY <1>3 DEF open

\* handle_nested_entities
LEMMA LinkNestedStays ==
    ASSUME NEW g0 \in Graphs, NEW g \in From(g0, {}), NEW type, NEW id,
           NEW table \in Type, table # "HistoricalLocation", Ref(type, id) \in PartKeys(table),
           NEW nested \in Seq(Nat)
    PROVE  LinkNested(g, type, id, table, nested) \in From(g0, {})
  <1> DEFINE seq == nested
             N == Len(seq)
             T == From(g0, {})
             base == g
             Step(acc, n) == Link(acc, table, n, Ref(type, id))
             F == [p \in T \X (1 .. N) |-> Step(p[1], seq[p[2]])]
             fold == CHOOSE it : it = [s \in SUBSET DOMAIN seq |->
                        IF s = {} THEN base
                        ELSE LET x == Max(s) IN Step(it[s \ {x}], seq[x])]
  <1>1. LinkNested(g, type, id, table, nested) = fold[DOMAIN seq]
    BY DEF LinkNested, FoldLeft, MapThenFoldSet
  <1>2. N \in Nat /\ DOMAIN seq = 1 .. N /\ base \in T
    OBVIOUS
  <1>3. ASSUME NEW acc \in T, NEW i \in 1 .. N PROVE Step(acc, seq[i]) \in T
    BY <1>3, LinkStays
  <1> HIDE DEF Step, T, seq, base
  <1>4. F \in [T \X (1 .. N) -> T]
    BY <1>3
  <1>5. ASSUME NEW f \in [SUBSET (1 .. N) -> T], IsFold(f, N, base, F)
        PROVE  f = [s \in SUBSET DOMAIN seq |->
                        IF s = {} THEN base
                        ELSE LET x == Max(s) IN Step(f[s \ {x}], seq[x])]
    <2>1. ASSUME NEW s \in SUBSET (1 .. N), s # {}
          PROVE  f[s] = Step(f[s \ {Max(s)}], seq[Max(s)])
      <3>1. Max(s) \in 1 .. N /\ s \ {Max(s)} \in SUBSET (1 .. N)
        BY <1>2, <2>1, LastPosition
      <3>2. f[s] = F[<<f[s \ {Max(s)}], Max(s)>>]
        BY <2>1, <1>5 DEF IsFold
      <3> QED BY <3>1, <3>2
    <2>2. f[{}] = base
      BY <1>5 DEF IsFold
    <2> QED BY <1>2, <2>1, <2>2
  <1>6. ASSUME \E f \in [SUBSET (1 .. N) -> T] : IsFold(f, N, base, F)
        PROVE  /\ fold[{}] = base
               /\ \A s \in SUBSET (1 .. N) : s # {} => fold[s] = Step(fold[s \ {Max(s)}], seq[Max(s)])
    <2>1. fold = [s \in SUBSET DOMAIN seq |->
                        IF s = {} THEN base
                        ELSE LET x == Max(s) IN Step(fold[s \ {x}], seq[x])]
      BY <1>5, <1>6
    <2> HIDE DEF fold
    <2> QED BY <2>1, <1>2
  <1> HIDE DEF fold, F
  <1>7. /\ fold[{}] = base
        /\ \A s \in SUBSET (1 .. N) : s # {} => fold[s] = Step(fold[s \ {Max(s)}], seq[Max(s)])
    BY <1>2, <1>4, <1>6, FoldExists
  <1> HIDE DEF N
  <1>8. \A s \in SUBSET (1 .. N) : s # {} => Max(s) \in 1 .. N
    BY <1>2, LastPosition
  <1>9. fold[1 .. N] \in T
    <2>1. \A s \in SUBSET (1 .. N) : s # {} /\ fold[s \ {Max(s)}] \in T => fold[s] \in T
      BY <1>3, <1>7, <1>8
    <2> QED BY <1>2, <1>7, <2>1, FoldStays
  <1> QED BY <1>1, <1>2, <1>9 DEF T

\* insert_location_entity, its two loops.
ThingOf(g, things, i) ==
    IF things[i] # New THEN things[i]
    ELSE g.next["Thing"] + Cardinality({j \in 1 .. i - 1 : things[j] = New})

MadeThings(g, things) ==
    FoldLeft(LAMBDA acc, t : IF t = New THEN InsertEntity(acc, "Thing", NoRefs) ELSE acc, g, things)

PutThings(g, things, base) ==
    FoldLeft(LAMBDA acc, i : Record(Manage(acc, ThingOf(g, things, i), g.next["Location"], things[i] = New),
                                    ThingOf(g, things, i), g.next["Location"]),
             base, [i \in DOMAIN things |-> i])

LEMMA InsertLocationAs ==
    ASSUME NEW g, NEW things
    PROVE  InsertLocation(g, things)
             = PutThings(g, things, InsertEntity(MadeThings(g, things), "Location", NoRefs))
  BY Zenon DEF InsertLocation, PutThings, MadeThings, ThingOf

\* A number of rows that come before, and the id of a row that is given or new.
LEMMA CountIsNat ==
    ASSUME NEW n \in Nat, NEW S \in SUBSET (1 .. n)
    PROVE  Cardinality(S) \in Nat
  <1>1. IsFiniteSet(1 .. n)
    BY FS_Interval, n \in Int, 1 \in Int
  <1>2. IsFiniteSet(S)
    BY <1>1, FS_Subset
  <1> QED BY <1>2, FS_CardinalityType

LEMMA ThingOfIsId ==
    ASSUME NEW g \in Graphs, NEW things \in Seq(Nat), NEW i \in 1 .. Len(things)
    PROVE  ThingOf(g, things, i) \in Nat
  <1> DEFINE S == {j \in 1 .. i - 1 : things[j] = New}
             n == Cardinality(S)
  <1>1. n \in Nat
    BY i - 1 \in Nat, S \in SUBSET (1 .. i - 1), CountIsNat
  <1>2. g.next["Thing"] \in Nat
    BY GraphFields DEF Type
  <1> HIDE DEF n
  <1>3. g.next["Thing"] + n \in Nat
    BY <1>1, <1>2
  <1>4. things[i] \in Nat
    OBVIOUS
  <1> QED BY <1>3, <1>4 DEF ThingOf, n

\* The new Things of a Location are inserted, one after the other.
LEMMA MadeThingsStays ==
    ASSUME NEW g0 \in Graphs, NEW g \in From(g0, {}), NEW things \in Seq(Nat)
    PROVE  /\ MadeThings(g, things) \in From(g0, {})
           /\ (things = <<>> => MadeThings(g, things) = g)
  <1> DEFINE seq == things
             N == Len(seq)
             T == From(g0, {})
             base == g
             Step(acc, n) == (IF n = New THEN InsertEntity(acc, "Thing", NoRefs) ELSE acc)
             F == [p \in T \X (1 .. N) |-> Step(p[1], seq[p[2]])]
             fold == CHOOSE it : it = [s \in SUBSET DOMAIN seq |->
                        IF s = {} THEN base
                        ELSE LET x == Max(s) IN Step(it[s \ {x}], seq[x])]
  <1>1. MadeThings(g, things) = fold[DOMAIN seq]
    BY DEF MadeThings, FoldLeft, MapThenFoldSet
  <1>2. N \in Nat /\ DOMAIN seq = 1 .. N /\ base \in T
    OBVIOUS
  <1>3. ASSUME NEW acc \in T, NEW i \in 1 .. N PROVE Step(acc, seq[i]) \in T
    BY <1>3, MakeStays DEF Inserted
  <1> HIDE DEF Step, T, seq, base
  <1>4. F \in [T \X (1 .. N) -> T]
    BY <1>3
  <1>5. ASSUME NEW f \in [SUBSET (1 .. N) -> T], IsFold(f, N, base, F)
        PROVE  f = [s \in SUBSET DOMAIN seq |->
                        IF s = {} THEN base
                        ELSE LET x == Max(s) IN Step(f[s \ {x}], seq[x])]
    <2>1. ASSUME NEW s \in SUBSET (1 .. N), s # {}
          PROVE  f[s] = Step(f[s \ {Max(s)}], seq[Max(s)])
      <3>1. Max(s) \in 1 .. N /\ s \ {Max(s)} \in SUBSET (1 .. N)
        BY <1>2, <2>1, LastPosition
      <3>2. f[s] = F[<<f[s \ {Max(s)}], Max(s)>>]
        BY <2>1, <1>5 DEF IsFold
      <3> QED BY <3>1, <3>2
    <2>2. f[{}] = base
      BY <1>5 DEF IsFold
    <2> QED BY <1>2, <2>1, <2>2
  <1>6. ASSUME \E f \in [SUBSET (1 .. N) -> T] : IsFold(f, N, base, F)
        PROVE  /\ fold[{}] = base
               /\ \A s \in SUBSET (1 .. N) : s # {} => fold[s] = Step(fold[s \ {Max(s)}], seq[Max(s)])
    <2>1. fold = [s \in SUBSET DOMAIN seq |->
                        IF s = {} THEN base
                        ELSE LET x == Max(s) IN Step(fold[s \ {x}], seq[x])]
      BY <1>5, <1>6
    <2> HIDE DEF fold
    <2> QED BY <2>1, <1>2
  <1> HIDE DEF fold, F
  <1>7. /\ fold[{}] = base
        /\ \A s \in SUBSET (1 .. N) : s # {} => fold[s] = Step(fold[s \ {Max(s)}], seq[Max(s)])
    BY <1>2, <1>4, <1>6, FoldExists
  <1> HIDE DEF N
  <1>8. \A s \in SUBSET (1 .. N) : s # {} => Max(s) \in 1 .. N
    BY <1>2, LastPosition
  <1>9. fold[1 .. N] \in T
    <2>1. \A s \in SUBSET (1 .. N) : s # {} /\ fold[s \ {Max(s)}] \in T => fold[s] \in T
      BY <1>3, <1>7, <1>8
    <2> QED BY <1>2, <1>7, <2>1, FoldStays
  <1>10. ASSUME things = <<>> PROVE fold[1 .. N] = base
    BY <1>7, <1>10 DEF N, seq
  <1> QED BY <1>1, <1>2, <1>9, <1>10 DEF T, base

\* The Location comes to each of them, and each is recorded.
LEMMA PutThingsStay ==
    ASSUME NEW g0 \in Graphs, NEW g \in Graphs, NEW put \in From(g0, {}), NEW things \in Seq(Nat)
    PROVE  /\ PutThings(g, things, put) \in From(g0, {})
           /\ (things = <<>> => PutThings(g, things, put) = put)
  <1> DEFINE seq == [i \in DOMAIN things |-> i]
             N == Len(seq)
             T == From(g0, {})
             base == put
             Step(acc, n) == Record(Manage(acc, ThingOf(g, things, n), g.next["Location"], things[n] = New), ThingOf(g, things, n), g.next["Location"])
             F == [p \in T \X (1 .. N) |-> Step(p[1], seq[p[2]])]
             fold == CHOOSE it : it = [s \in SUBSET DOMAIN seq |->
                        IF s = {} THEN base
                        ELSE LET x == Max(s) IN Step(it[s \ {x}], seq[x])]
  <1>1. PutThings(g, things, put) = fold[DOMAIN seq]
    BY DEF PutThings, FoldLeft, MapThenFoldSet
  <1>2. N \in Nat /\ DOMAIN seq = 1 .. N /\ base \in T
    OBVIOUS
  <1>3. ASSUME NEW acc \in T, NEW i \in 1 .. N PROVE Step(acc, seq[i]) \in T
    <2>1. i \in 1 .. Len(things) /\ seq[i] = i
      BY <1>2, <1>3
    <2> DEFINE t == ThingOf(g, things, i)
               l == g.next["Location"]
               new == things[i] = New
    <2>2. t \in Nat /\ l \in Nat
      BY <2>1, ThingOfIsId, GraphFields DEF Type
    <2>3. Step(acc, seq[i]) = Record(Manage(acc, t, l, new), t, l)
      BY <2>1
    <2> HIDE DEF t, l, new, Step
    <2>4. Places(g0, acc, t, l, Manage(acc, t, l, new))
      BY <2>2, <1>3, ManageStays
    <2>5. Record(Manage(acc, t, l, new), t, l) \in From(g0, {})
      BY <2>2, <2>4, RecordStays DEF Places
    <2> QED BY <2>3, <2>5
  <1> HIDE DEF Step, T, seq, base
  <1>4. F \in [T \X (1 .. N) -> T]
    BY <1>3
  <1>5. ASSUME NEW f \in [SUBSET (1 .. N) -> T], IsFold(f, N, base, F)
        PROVE  f = [s \in SUBSET DOMAIN seq |->
                        IF s = {} THEN base
                        ELSE LET x == Max(s) IN Step(f[s \ {x}], seq[x])]
    <2>1. ASSUME NEW s \in SUBSET (1 .. N), s # {}
          PROVE  f[s] = Step(f[s \ {Max(s)}], seq[Max(s)])
      <3>1. Max(s) \in 1 .. N /\ s \ {Max(s)} \in SUBSET (1 .. N)
        BY <1>2, <2>1, LastPosition
      <3>2. f[s] = F[<<f[s \ {Max(s)}], Max(s)>>]
        BY <2>1, <1>5 DEF IsFold
      <3> QED BY <3>1, <3>2
    <2>2. f[{}] = base
      BY <1>5 DEF IsFold
    <2> QED BY <1>2, <2>1, <2>2
  <1>6. ASSUME \E f \in [SUBSET (1 .. N) -> T] : IsFold(f, N, base, F)
        PROVE  /\ fold[{}] = base
               /\ \A s \in SUBSET (1 .. N) : s # {} => fold[s] = Step(fold[s \ {Max(s)}], seq[Max(s)])
    <2>1. fold = [s \in SUBSET DOMAIN seq |->
                        IF s = {} THEN base
                        ELSE LET x == Max(s) IN Step(fold[s \ {x}], seq[x])]
      BY <1>5, <1>6
    <2> HIDE DEF fold
    <2> QED BY <2>1, <1>2
  <1> HIDE DEF fold, F
  <1>7. /\ fold[{}] = base
        /\ \A s \in SUBSET (1 .. N) : s # {} => fold[s] = Step(fold[s \ {Max(s)}], seq[Max(s)])
    BY <1>2, <1>4, <1>6, FoldExists
  <1> HIDE DEF N
  <1>8. \A s \in SUBSET (1 .. N) : s # {} => Max(s) \in 1 .. N
    BY <1>2, LastPosition
  <1>9. fold[1 .. N] \in T
    <2>1. \A s \in SUBSET (1 .. N) : s # {} /\ fold[s \ {Max(s)}] \in T => fold[s] \in T
      BY <1>3, <1>7, <1>8
    <2> QED BY <1>2, <1>7, <2>1, FoldStays
  <1>10. ASSUME things = <<>> PROVE fold[1 .. N] = base
    BY <1>7, <1>10 DEF N, seq
  <1> QED BY <1>1, <1>2, <1>9, <1>10 DEF T, base

LEMMA InsertLocationStays ==
    ASSUME NEW g0 \in Graphs, NEW g \in From(g0, {}), NEW things \in Seq(Nat)
    PROVE  /\ InsertLocation(g, things) \in From(g0, {})
           /\ things = <<>> => InsertLocation(g, things) = InsertEntity(g, "Location", NoRefs)
  <1> DEFINE made == MadeThings(g, things)
             put == InsertEntity(made, "Location", NoRefs)
  <1>1. made \in From(g0, {}) /\ (things = <<>> => made = g)
    BY MadeThingsStays
  <1> HIDE DEF made
  <1>2. put \in From(g0, {})
    BY <1>1, MakeStays DEF Inserted
  <1> HIDE DEF put
  <1>3. g \in Graphs
    BY DEF From
  <1>4. PutThings(g, things, put) \in From(g0, {}) /\ (things = <<>> => PutThings(g, things, put) = put)
    BY <1>2, <1>3, PutThingsStay
  <1>5. InsertLocation(g, things) = PutThings(g, things, put)
    BY InsertLocationAs DEF put, made
  <1> QED BY <1>1, <1>4, <1>5 DEF put

\* handle_associations: its five tables one after the other.
Linked(acc, refs, key) ==
    IF key \in DOMAIN refs /\ refs[key] = New THEN InsertEntity(acc, key, NoRefs) ELSE acc

Chain(a, g, refs, r) ==
    /\ a[0] = g /\ a[5] = r
    /\ \A i \in 1 .. 5 :
          a[i] = Linked(a[i - 1], refs,
                   <<"Thing", "Sensor", "ObservedProperty", "Network", "FeatureOfInterest">>[i])

LEMMA AssociateStays ==
    ASSUME NEW g0 \in Graphs, NEW g \in From(g0, {}), NEW refs
    PROVE  /\ Associate(g, refs) \in From(g0, {})
           /\ \E a \in [0 .. 5 -> From(g0, {})] : Chain(a, g, refs, Associate(g, refs))
  <1> DEFINE seq == <<"Thing", "Sensor", "ObservedProperty", "Network", "FeatureOfInterest">>
             N == Len(seq)
             T == From(g0, {})
             base == g
             Step(acc, n) == (IF n \in DOMAIN refs /\ refs[n] = New THEN InsertEntity(acc, n, NoRefs) ELSE acc)
             F == [p \in T \X (1 .. N) |-> Step(p[1], seq[p[2]])]
             fold == CHOOSE it : it = [s \in SUBSET DOMAIN seq |->
                        IF s = {} THEN base
                        ELSE LET x == Max(s) IN Step(it[s \ {x}], seq[x])]
  <1>1. Associate(g, refs) = fold[DOMAIN seq]
    BY DEF Associate, FoldLeft, MapThenFoldSet
  <1>2. N \in Nat /\ DOMAIN seq = 1 .. N /\ base \in T
    OBVIOUS
  <1>3. ASSUME NEW acc \in T, NEW i \in 1 .. N PROVE Step(acc, seq[i]) \in T
    <2>1. seq[i] \in {"Thing", "Location", "Sensor", "ObservedProperty", "Network", "FeatureOfInterest"}
      BY <1>2, <1>3
    <2> HIDE DEF seq
    <2>2. Inserted(g0, {}, acc, seq[i], NoRefs, InsertEntity(acc, seq[i], NoRefs))
      BY <1>3, <2>1, MakeStays
    <2> QED BY <1>3, <2>2 DEF Inserted
  <1> HIDE DEF Step, T, seq, base
  <1>4. F \in [T \X (1 .. N) -> T]
    BY <1>3
  <1>5. ASSUME NEW f \in [SUBSET (1 .. N) -> T], IsFold(f, N, base, F)
        PROVE  f = [s \in SUBSET DOMAIN seq |->
                        IF s = {} THEN base
                        ELSE LET x == Max(s) IN Step(f[s \ {x}], seq[x])]
    <2>1. ASSUME NEW s \in SUBSET (1 .. N), s # {}
          PROVE  f[s] = Step(f[s \ {Max(s)}], seq[Max(s)])
      <3>1. Max(s) \in 1 .. N /\ s \ {Max(s)} \in SUBSET (1 .. N)
        BY <1>2, <2>1, LastPosition
      <3>2. f[s] = F[<<f[s \ {Max(s)}], Max(s)>>]
        BY <2>1, <1>5 DEF IsFold
      <3> QED BY <3>1, <3>2
    <2>2. f[{}] = base
      BY <1>5 DEF IsFold
    <2> QED BY <1>2, <2>1, <2>2
  <1>6. ASSUME \E f \in [SUBSET (1 .. N) -> T] : IsFold(f, N, base, F)
        PROVE  /\ fold[{}] = base
               /\ \A s \in SUBSET (1 .. N) : s # {} => fold[s] = Step(fold[s \ {Max(s)}], seq[Max(s)])
    <2>1. fold = [s \in SUBSET DOMAIN seq |->
                        IF s = {} THEN base
                        ELSE LET x == Max(s) IN Step(fold[s \ {x}], seq[x])]
      BY <1>5, <1>6
    <2> HIDE DEF fold
    <2> QED BY <2>1, <1>2
  <1> HIDE DEF fold, F
  <1>7. /\ fold[{}] = base
        /\ \A s \in SUBSET (1 .. N) : s # {} => fold[s] = Step(fold[s \ {Max(s)}], seq[Max(s)])
    BY <1>2, <1>4, <1>6, FoldExists
  <1> HIDE DEF N
  <1>8. \A s \in SUBSET (1 .. N) : s # {} => Max(s) \in 1 .. N
    BY <1>2, LastPosition
  <1>9. fold[1 .. N] \in T
    <2>1. \A s \in SUBSET (1 .. N) : s # {} /\ fold[s \ {Max(s)}] \in T => fold[s] \in T
      BY <1>3, <1>7, <1>8
    <2> QED BY <1>2, <1>7, <2>1, FoldStays
  <1>10. N = 5
    BY DEF N, seq
  <1>11. ASSUME NEW i \in 1 .. 5 PROVE fold[1 .. i] = Step(fold[1 .. i - 1], seq[i])
    <2>1. i \in Nat /\ i \in 1 .. i /\ 1 .. i \in SUBSET (1 .. N) /\ (1 .. i) \ {i} = 1 .. i - 1
      BY <1>10
    <2>2. Max(1 .. i) \in 1 .. i /\ i <= Max(1 .. i)
      BY <2>1, LastPosition
    <2>3. Max(1 .. i) = i
      BY <2>1, <2>2
    <2>4. fold[1 .. i] = Step(fold[(1 .. i) \ {i}], seq[i])
      BY <1>7, <2>1, <2>3
    <2> QED BY <2>1, <2>4
  <1> DEFINE a == [i \in 0 .. 5 |-> fold[1 .. i]]
  <1>12. ASSUME NEW i \in 0 .. 5 PROVE fold[1 .. i] \in T
    <2>1. i \in Nat /\ SUBSET (1 .. i) \subseteq SUBSET (1 .. N)
      BY <1>10
    <2>2. \A s \in SUBSET (1 .. i) : s # {} /\ fold[s \ {Max(s)}] \in T => fold[s] \in T
      BY <2>1, <1>3, <1>7, <1>8
    <2> QED BY <1>2, <1>7, <2>1, <2>2, FoldStays
  <1>13. /\ a \in [0 .. 5 -> T] /\ a[0] = base /\ a[5] = fold[1 .. N]
        /\ \A i \in 1 .. 5 : a[i] = Step(a[i - 1], seq[i])
    <2>1. 1 .. 0 = {} /\ \A i \in 1 .. 5 : i \in 0 .. 5 /\ i - 1 \in 0 .. 5
      OBVIOUS
    <2> QED BY <1>7, <1>10, <1>11, <1>12, <2>1
  <1> HIDE DEF a
  <1>14. \A acc, key : Step(acc, key) = Linked(acc, refs, key)
    BY DEF Step, Linked
  <1> HIDE DEF Step
  <1>15. Associate(g, refs) \in From(g0, {}) /\ a \in [0 .. 5 -> From(g0, {})]
         /\ a[0] = g /\ a[5] = Associate(g, refs)
    BY <1>1, <1>2, <1>9, <1>13 DEF T, base
  <1>16. \A i \in 1 .. 5 : a[i] = Linked(a[i - 1], refs, seq[i])
    BY <1>13, <1>14
  <1> QED BY <1>15, <1>16 DEF Chain, seq

LEMMA ResolvedKeys ==
    ASSUME NEW g \in Graphs, NEW type \in Type, NEW refs \in Keys(type)
    PROVE  Resolved(g, refs) \in Keys(type)
  <1>1. Refs(type) \subseteq Type
    BY RefTypes
  <1>2. \A key \in Refs(type) : g.next[key] \in Nat
    BY <1>1, GraphFields
  <1> QED BY <1>2 DEF Keys, Resolved

\* An INSERT whose links are made or given.
LEMMA AssociatedStays ==
    ASSUME NEW g0 \in Graphs, NEW g \in From(g0, {}), NEW type \in Type, NEW refs \in Keys(type)
    PROVE  InsertEntity(Associate(g, refs), type, Resolved(g, refs)) \in From(g0, {})
  <1> DEFINE made == Associate(g, refs)
             all == Resolved(g, refs)
             open == {}
  <1>1. made \in From(g0, open)
    BY AssociateStays
  <1>2. all \in Keys(type)
    BY ResolvedKeys DEF From
  <1> HIDE DEF made, all, open
  <1>3. Inserted(g0, open, made, type, all, InsertEntity(made, type, all))
    BY <1>1, <1>2, InsertStays
  <1> QED BY <1>3 DEF Inserted, made, all, open

LEMMA InsertDatastreamStays ==
    ASSUME NEW g0 \in Graphs, NEW g \in From(g0, {}), NEW id, NEW refs \in PartKeys("Datastream")
    PROVE  InsertDatastream(g, id, refs) \in From(g0, {})
  <1>1. "Datastream" \in Type /\ "Datastream" # "HistoricalLocation"
    BY DEF Type
  <1>2. CASE id # New
    BY <1>1, <1>2, LinkStays DEF InsertDatastream
  <1>3. CASE id = New /\ DOMAIN refs # Refs("Datastream")
    BY <1>3, FailStays DEF InsertDatastream
  <1>4. CASE id = New /\ DOMAIN refs = Refs("Datastream")
    <2>1. refs \in Keys("Datastream")
      BY <1>4 DEF Keys, PartKeys
    <2>2. InsertDatastream(g, id, refs)
            = InsertEntity(Associate(g, refs), "Datastream", Resolved(g, refs))
      BY <1>4 DEF InsertDatastream
    <2> QED BY <1>1, <2>1, <2>2, AssociatedStays
  <1> QED BY <1>2, <1>3, <1>4

\* insert_observation_entity, with a FeatureOfInterest or with the one of the Location.
LEMMA InsertObservationStays ==
    ASSUME NEW g0 \in Graphs, NEW g \in From(g0, {}), NEW refs \in PartKeys("Observation"),
           "Datastream" \in DOMAIN refs
    PROVE  InsertObservation(g, refs) \in From(g0, {})
  <1>1. "Observation" \in Type /\ Refs("Observation") = {"Datastream", "FeatureOfInterest"}
    BY DEF Type, Refs
  <1>2. CASE "FeatureOfInterest" \in DOMAIN refs
    <2>1. refs \in Keys("Observation")
      BY <1>1, <1>2 DEF Keys, PartKeys
    <2> QED BY <1>1, <1>2, <2>1, AssociatedStays DEF InsertObservation
  <1>3. CASE "FeatureOfInterest" \notin DOMAIN refs
    <2> DEFINE thing == g.rows[<<"Datastream", refs["Datastream"]>>]["Thing"]
               made == InsertEntity(g, "FeatureOfInterest", NoRefs)
               c == At(g, thing) # {}
               placed == Fail(made, c)
               f == g.next["FeatureOfInterest"]
               all == Over(Ref("FeatureOfInterest", f), refs)
               open == {}
    <2>1. InsertObservation(g, refs) = InsertEntity(placed, "Observation", all)
      BY <1>3 DEF InsertObservation
    <2>2. made \in From(g0, open)
      BY MakeStays DEF Inserted
    <2>3. c \in BOOLEAN
      OBVIOUS
    <2>4. f \in Nat
      BY GraphFields DEF From, Type
    <2> HIDE DEF made, c, f
    <2>5. placed \in From(g0, open)
      BY <2>2, <2>3, FailStays
    <2>6. all \in Keys("Observation")
      BY <1>1, <1>3, <2>4 DEF Keys, PartKeys, Over, Ref
    <2> HIDE DEF placed, all, open
    <2>7. Inserted(g0, open, placed, "Observation", all, InsertEntity(placed, "Observation", all))
      BY <1>1, <2>5, <2>6, InsertStays
    <2> QED BY <2>1, <2>7 DEF Inserted, open
  <1> QED BY <1>2, <1>3

\* Datastreams in the payload of their owner.
Owner == {"Thing", "Sensor", "ObservedProperty", "Network"}
Nests == [id : Nat, refs : PartKeys("Datastream")]

LEMMA OwnedKeys ==
    ASSUME NEW type \in Owner, NEW id \in Nat, NEW refs \in PartKeys("Datastream")
    PROVE  /\ Ref(type, id) \in PartKeys("Datastream")
           /\ Over(Ref(type, id), refs) \in PartKeys("Datastream")
  <1>1. Refs("Datastream") = Owner
    BY DEF Refs, Owner
  <1>2. PICK K \in SUBSET Owner : refs \in [K -> Nat]
    BY <1>1 DEF PartKeys
  <1>3. Ref(type, id) \in [{type} -> Nat]
    BY DEF Ref
  <1>4. Over(Ref(type, id), refs) \in [{type} \union K -> Nat]
    BY <1>2, <1>3 DEF Over
  <1>5. {type} \in SUBSET Owner /\ {type} \union K \in SUBSET Owner
    BY <1>2
  <1> QED BY <1>1, <1>3, <1>4, <1>5 DEF PartKeys

\* The Datastreams nested in a Thing, a Sensor or an ObservedProperty.
LEMMA InsertDatastreamsStays ==
    ASSUME NEW g0 \in Graphs, NEW g \in From(g0, {}), NEW type \in Owner, NEW id \in Nat,
           NEW datastreams \in Seq(Nests)
    PROVE  /\ InsertDatastreams(g, type, id, datastreams) \in From(g0, {})
           /\ (datastreams = <<>> => InsertDatastreams(g, type, id, datastreams) = g)
  <1> DEFINE seq == datastreams
             N == Len(seq)
             T == From(g0, {})
             base == g
             Step(acc, n) == InsertDatastream(acc, n.id, Over(Ref(type, id), n.refs))
             F == [p \in T \X (1 .. N) |-> Step(p[1], seq[p[2]])]
             fold == CHOOSE it : it = [s \in SUBSET DOMAIN seq |->
                        IF s = {} THEN base
                        ELSE LET x == Max(s) IN Step(it[s \ {x}], seq[x])]
  <1>1. InsertDatastreams(g, type, id, datastreams) = fold[DOMAIN seq]
    BY DEF InsertDatastreams, FoldLeft, MapThenFoldSet
  <1>2. N \in Nat /\ DOMAIN seq = 1 .. N /\ base \in T
    OBVIOUS
  <1>3. ASSUME NEW acc \in T, NEW i \in 1 .. N PROVE Step(acc, seq[i]) \in T
    <2>1. seq[i] \in Nests
      BY <1>2, <1>3
    <2>2. Over(Ref(type, id), seq[i].refs) \in PartKeys("Datastream")
      BY <2>1, OwnedKeys DEF Nests
    <2> HIDE DEF seq
    <2> QED BY <1>3, <2>2, InsertDatastreamStays
  <1> HIDE DEF Step, T, seq, base
  <1>4. F \in [T \X (1 .. N) -> T]
    BY <1>3
  <1>5. ASSUME NEW f \in [SUBSET (1 .. N) -> T], IsFold(f, N, base, F)
        PROVE  f = [s \in SUBSET DOMAIN seq |->
                        IF s = {} THEN base
                        ELSE LET x == Max(s) IN Step(f[s \ {x}], seq[x])]
    <2>1. ASSUME NEW s \in SUBSET (1 .. N), s # {}
          PROVE  f[s] = Step(f[s \ {Max(s)}], seq[Max(s)])
      <3>1. Max(s) \in 1 .. N /\ s \ {Max(s)} \in SUBSET (1 .. N)
        BY <1>2, <2>1, LastPosition
      <3>2. f[s] = F[<<f[s \ {Max(s)}], Max(s)>>]
        BY <2>1, <1>5 DEF IsFold
      <3> QED BY <3>1, <3>2
    <2>2. f[{}] = base
      BY <1>5 DEF IsFold
    <2> QED BY <1>2, <2>1, <2>2
  <1>6. ASSUME \E f \in [SUBSET (1 .. N) -> T] : IsFold(f, N, base, F)
        PROVE  /\ fold[{}] = base
               /\ \A s \in SUBSET (1 .. N) : s # {} => fold[s] = Step(fold[s \ {Max(s)}], seq[Max(s)])
    <2>1. fold = [s \in SUBSET DOMAIN seq |->
                        IF s = {} THEN base
                        ELSE LET x == Max(s) IN Step(fold[s \ {x}], seq[x])]
      BY <1>5, <1>6
    <2> HIDE DEF fold
    <2> QED BY <2>1, <1>2
  <1> HIDE DEF fold, F
  <1>7. /\ fold[{}] = base
        /\ \A s \in SUBSET (1 .. N) : s # {} => fold[s] = Step(fold[s \ {Max(s)}], seq[Max(s)])
    BY <1>2, <1>4, <1>6, FoldExists
  <1> HIDE DEF N
  <1>8. \A s \in SUBSET (1 .. N) : s # {} => Max(s) \in 1 .. N
    BY <1>2, LastPosition
  <1>9. fold[1 .. N] \in T
    <2>1. \A s \in SUBSET (1 .. N) : s # {} /\ fold[s \ {Max(s)}] \in T => fold[s] \in T
      BY <1>3, <1>7, <1>8
    <2> QED BY <1>2, <1>7, <2>1, FoldStays
  <1>10. ASSUME datastreams = <<>> PROVE fold[1 .. N] = base
    BY <1>7, <1>10 DEF N, seq
  <1> QED BY <1>1, <1>2, <1>9, <1>10 DEF T, base

LEMMA InsertOwnerStays ==
    ASSUME NEW g0 \in Graphs, NEW g \in From(g0, {}),
           NEW type \in {"Sensor", "ObservedProperty", "Network"}, NEW datastreams \in Seq(Nests)
    PROVE  InsertOwner(g, type, datastreams) \in From(g0, {})
  <1> DEFINE made == InsertEntity(g, type, NoRefs)
             id == g.next[type]
  <1>1. made \in From(g0, {})
    BY MakeStays DEF Inserted
  <1>2. id \in Nat /\ type \in Owner
    BY GraphFields DEF From, Type, Owner
  <1> HIDE DEF made, id
  <1>3. InsertDatastreams(made, type, id, datastreams) \in From(g0, {})
    BY <1>1, <1>2, InsertDatastreamsStays
  <1> QED BY <1>3 DEF InsertOwner, made, id

\* insert_thing_entity, its loops over the Locations.
LocationOf(g, locations, i) ==
    IF locations[i] # New THEN locations[i]
    ELSE g.next["Location"] + Cardinality({j \in 1 .. i - 1 : locations[j] = New})

MadeLocations(g, locations) ==
    FoldLeft(LAMBDA acc, l : IF l = New THEN InsertLocation(acc, <<>>) ELSE acc, g, locations)

PutLocations(g, locations, t, base) ==
    FoldLeft(LAMBDA acc, i : Record(Manage(acc, t, LocationOf(g, locations, i), TRUE),
                                    t, LocationOf(g, locations, i)),
             base, [i \in DOMAIN locations |-> i])

LEMMA InsertThingAs ==
    ASSUME NEW g, NEW locations, NEW datastreams
    PROVE  InsertThing(g, locations, datastreams)
             = InsertDatastreams(
                 PutLocations(g, locations, g.next["Thing"],
                   InsertEntity(MadeLocations(g, locations), "Thing", NoRefs)),
                 "Thing", g.next["Thing"], datastreams)
  BY Zenon DEF InsertThing, PutLocations, MadeLocations, LocationOf

LEMMA LocationOfIsId ==
    ASSUME NEW g \in Graphs, NEW locations \in Seq(Nat), NEW i \in 1 .. Len(locations)
    PROVE  LocationOf(g, locations, i) \in Nat
  <1> DEFINE S == {j \in 1 .. i - 1 : locations[j] = New}
             n == Cardinality(S)
  <1>1. n \in Nat
    BY i - 1 \in Nat, S \in SUBSET (1 .. i - 1), CountIsNat
  <1>2. g.next["Location"] \in Nat
    BY GraphFields DEF Type
  <1> HIDE DEF n
  <1>3. g.next["Location"] + n \in Nat
    BY <1>1, <1>2
  <1>4. locations[i] \in Nat
    OBVIOUS
  <1> QED BY <1>3, <1>4 DEF LocationOf, n

\* The new Locations of a Thing are inserted, one after the other.
LEMMA MadeLocationsStay ==
    ASSUME NEW g0 \in Graphs, NEW g \in From(g0, {}), NEW locations \in Seq(Nat)
    PROVE  /\ MadeLocations(g, locations) \in From(g0, {})
           /\ (Len(locations) = 1 => MadeLocations(g, locations) = (IF locations[1] = New THEN InsertLocation(g, <<>>) ELSE g))
  <1> DEFINE seq == locations
             N == Len(seq)
             T == From(g0, {})
             base == g
             Step(acc, n) == (IF n = New THEN InsertLocation(acc, <<>>) ELSE acc)
             F == [p \in T \X (1 .. N) |-> Step(p[1], seq[p[2]])]
             fold == CHOOSE it : it = [s \in SUBSET DOMAIN seq |->
                        IF s = {} THEN base
                        ELSE LET x == Max(s) IN Step(it[s \ {x}], seq[x])]
  <1>1. MadeLocations(g, locations) = fold[DOMAIN seq]
    BY DEF MadeLocations, FoldLeft, MapThenFoldSet
  <1>2. N \in Nat /\ DOMAIN seq = 1 .. N /\ base \in T
    OBVIOUS
  <1>3. ASSUME NEW acc \in T, NEW i \in 1 .. N PROVE Step(acc, seq[i]) \in T
    <2>1. <<>> \in Seq(Nat)
      OBVIOUS
    <2> QED BY <1>3, <2>1, InsertLocationStays
  <1> HIDE DEF Step, T, seq, base
  <1>4. F \in [T \X (1 .. N) -> T]
    BY <1>3
  <1>5. ASSUME NEW f \in [SUBSET (1 .. N) -> T], IsFold(f, N, base, F)
        PROVE  f = [s \in SUBSET DOMAIN seq |->
                        IF s = {} THEN base
                        ELSE LET x == Max(s) IN Step(f[s \ {x}], seq[x])]
    <2>1. ASSUME NEW s \in SUBSET (1 .. N), s # {}
          PROVE  f[s] = Step(f[s \ {Max(s)}], seq[Max(s)])
      <3>1. Max(s) \in 1 .. N /\ s \ {Max(s)} \in SUBSET (1 .. N)
        BY <1>2, <2>1, LastPosition
      <3>2. f[s] = F[<<f[s \ {Max(s)}], Max(s)>>]
        BY <2>1, <1>5 DEF IsFold
      <3> QED BY <3>1, <3>2
    <2>2. f[{}] = base
      BY <1>5 DEF IsFold
    <2> QED BY <1>2, <2>1, <2>2
  <1>6. ASSUME \E f \in [SUBSET (1 .. N) -> T] : IsFold(f, N, base, F)
        PROVE  /\ fold[{}] = base
               /\ \A s \in SUBSET (1 .. N) : s # {} => fold[s] = Step(fold[s \ {Max(s)}], seq[Max(s)])
    <2>1. fold = [s \in SUBSET DOMAIN seq |->
                        IF s = {} THEN base
                        ELSE LET x == Max(s) IN Step(fold[s \ {x}], seq[x])]
      BY <1>5, <1>6
    <2> HIDE DEF fold
    <2> QED BY <2>1, <1>2
  <1> HIDE DEF fold, F
  <1>7. /\ fold[{}] = base
        /\ \A s \in SUBSET (1 .. N) : s # {} => fold[s] = Step(fold[s \ {Max(s)}], seq[Max(s)])
    BY <1>2, <1>4, <1>6, FoldExists
  <1> HIDE DEF N
  <1>8. \A s \in SUBSET (1 .. N) : s # {} => Max(s) \in 1 .. N
    BY <1>2, LastPosition
  <1>9. fold[1 .. N] \in T
    <2>1. \A s \in SUBSET (1 .. N) : s # {} /\ fold[s \ {Max(s)}] \in T => fold[s] \in T
      BY <1>3, <1>7, <1>8
    <2> QED BY <1>2, <1>7, <2>1, FoldStays
  <1>10. ASSUME Len(locations) = 1 PROVE fold[1 .. N] = Step(base, seq[1])
    <2>1. 1 .. N = {1}
      BY <1>10 DEF N, seq
    <2>2. Max({1}) = 1
      BY <1>8, <2>1
    <2> QED BY <1>7, <2>1, <2>2, {1} \ {1} = {}
  <1>11. ASSUME Len(locations) = 1 PROVE seq[1] = locations[1]
    BY <1>11 DEF seq
  <1>12. ASSUME Len(locations) = 1 PROVE MadeLocations(g, locations) = Step(base, locations[1])
    BY <1>1, <1>2, <1>10, <1>11, <1>12
  <1> QED BY <1>1, <1>2, <1>9, <1>12 DEF T, base, Step

\* The Thing comes to each of them.
LEMMA PutLocationsStay ==
    ASSUME NEW g0 \in Graphs, NEW g \in Graphs, NEW t \in Nat, NEW put \in From(g0, {}),
           NEW locations \in Seq(Nat)
    PROVE  /\ PutLocations(g, locations, t, put) \in From(g0, {})
           /\ (Len(locations) = 1 => PutLocations(g, locations, t, put) = Record(Manage(put, t, LocationOf(g, locations, 1), TRUE), t, LocationOf(g, locations, 1)))
  <1> DEFINE seq == [i \in DOMAIN locations |-> i]
             N == Len(seq)
             T == From(g0, {})
             base == put
             Step(acc, n) == Record(Manage(acc, t, LocationOf(g, locations, n), TRUE), t, LocationOf(g, locations, n))
             F == [p \in T \X (1 .. N) |-> Step(p[1], seq[p[2]])]
             fold == CHOOSE it : it = [s \in SUBSET DOMAIN seq |->
                        IF s = {} THEN base
                        ELSE LET x == Max(s) IN Step(it[s \ {x}], seq[x])]
  <1>1. PutLocations(g, locations, t, put) = fold[DOMAIN seq]
    BY DEF PutLocations, FoldLeft, MapThenFoldSet
  <1>2. N \in Nat /\ DOMAIN seq = 1 .. N /\ base \in T
    OBVIOUS
  <1>3. ASSUME NEW acc \in T, NEW i \in 1 .. N PROVE Step(acc, seq[i]) \in T
    <2>1. i \in 1 .. Len(locations) /\ seq[i] = i
      BY <1>2, <1>3
    <2> DEFINE l == LocationOf(g, locations, i)
    <2>2. l \in Nat
      BY <2>1, LocationOfIsId
    <2>3. Step(acc, seq[i]) = Record(Manage(acc, t, l, TRUE), t, l)
      BY <2>1
    <2> HIDE DEF l, Step
    <2>4. Places(g0, acc, t, l, Manage(acc, t, l, TRUE))
      BY <2>2, <1>3, ManageStays
    <2>5. Record(Manage(acc, t, l, TRUE), t, l) \in From(g0, {})
      BY <2>2, <2>4, RecordStays DEF Places
    <2> QED BY <2>3, <2>5
  <1> HIDE DEF Step, T, seq, base
  <1>4. F \in [T \X (1 .. N) -> T]
    BY <1>3
  <1>5. ASSUME NEW f \in [SUBSET (1 .. N) -> T], IsFold(f, N, base, F)
        PROVE  f = [s \in SUBSET DOMAIN seq |->
                        IF s = {} THEN base
                        ELSE LET x == Max(s) IN Step(f[s \ {x}], seq[x])]
    <2>1. ASSUME NEW s \in SUBSET (1 .. N), s # {}
          PROVE  f[s] = Step(f[s \ {Max(s)}], seq[Max(s)])
      <3>1. Max(s) \in 1 .. N /\ s \ {Max(s)} \in SUBSET (1 .. N)
        BY <1>2, <2>1, LastPosition
      <3>2. f[s] = F[<<f[s \ {Max(s)}], Max(s)>>]
        BY <2>1, <1>5 DEF IsFold
      <3> QED BY <3>1, <3>2
    <2>2. f[{}] = base
      BY <1>5 DEF IsFold
    <2> QED BY <1>2, <2>1, <2>2
  <1>6. ASSUME \E f \in [SUBSET (1 .. N) -> T] : IsFold(f, N, base, F)
        PROVE  /\ fold[{}] = base
               /\ \A s \in SUBSET (1 .. N) : s # {} => fold[s] = Step(fold[s \ {Max(s)}], seq[Max(s)])
    <2>1. fold = [s \in SUBSET DOMAIN seq |->
                        IF s = {} THEN base
                        ELSE LET x == Max(s) IN Step(fold[s \ {x}], seq[x])]
      BY <1>5, <1>6
    <2> HIDE DEF fold
    <2> QED BY <2>1, <1>2
  <1> HIDE DEF fold, F
  <1>7. /\ fold[{}] = base
        /\ \A s \in SUBSET (1 .. N) : s # {} => fold[s] = Step(fold[s \ {Max(s)}], seq[Max(s)])
    BY <1>2, <1>4, <1>6, FoldExists
  <1> HIDE DEF N
  <1>8. \A s \in SUBSET (1 .. N) : s # {} => Max(s) \in 1 .. N
    BY <1>2, LastPosition
  <1>9. fold[1 .. N] \in T
    <2>1. \A s \in SUBSET (1 .. N) : s # {} /\ fold[s \ {Max(s)}] \in T => fold[s] \in T
      BY <1>3, <1>7, <1>8
    <2> QED BY <1>2, <1>7, <2>1, FoldStays
  <1>10. ASSUME Len(locations) = 1 PROVE fold[1 .. N] = Step(base, seq[1])
    <2>1. 1 .. N = {1}
      BY <1>10 DEF N, seq
    <2>2. Max({1}) = 1
      BY <1>8, <2>1
    <2> QED BY <1>7, <2>1, <2>2, {1} \ {1} = {}
  <1>11. ASSUME Len(locations) = 1 PROVE seq[1] = 1
    BY <1>11 DEF seq
  <1>12. ASSUME Len(locations) = 1 PROVE PutLocations(g, locations, t, put) = Step(base, 1)
    BY <1>1, <1>2, <1>10, <1>11, <1>12
  <1> QED BY <1>1, <1>2, <1>9, <1>12 DEF T, base, Step

LEMMA InsertThingStays ==
    ASSUME NEW g0 \in Graphs, NEW g \in From(g0, {}), NEW locations \in Seq(Nat),
           NEW datastreams \in Seq(Nests)
    PROVE  InsertThing(g, locations, datastreams) \in From(g0, {})
  <1> DEFINE made == MadeLocations(g, locations)
             put == InsertEntity(made, "Thing", NoRefs)
             t == g.next["Thing"]
             placed == PutLocations(g, locations, t, put)
  <1>1. made \in From(g0, {})
    BY MadeLocationsStay
  <1> HIDE DEF made
  <1>2. put \in From(g0, {})
    BY <1>1, MakeStays DEF Inserted
  <1>3. g \in Graphs /\ t \in Nat /\ "Thing" \in Owner
    BY GraphFields DEF From, Type, Owner
  <1> HIDE DEF put, t
  <1>4. placed \in From(g0, {})
    BY <1>2, <1>3, PutLocationsStay
  <1> HIDE DEF placed
  <1>5. InsertDatastreams(placed, "Thing", t, datastreams) \in From(g0, {})
    BY <1>3, <1>4, InsertDatastreamsStays
  <1> QED BY <1>5, InsertThingAs DEF placed, put, made, t

\* insert_historical_location_entity: its row, which is there from the start, says
\* where the Thing came to be.
Telling(g0, t, h) ==
    {g \in From(g0, {}) : /\ Exists(g, "HistoricalLocation", h)
                          /\ g.rows[<<"HistoricalLocation", h>>]["Thing"] = t}

PutSeen(t, h, newRecord, base, locations) ==
    FoldLeft(LAMBDA acc, l : See(Manage(acc, t, l, newRecord), l, h), base, locations)

LEMMA InsertHistoricalLocationAs ==
    ASSUME NEW g, NEW thing, NEW locations
    PROVE  InsertHistoricalLocation(g, thing, locations)
             = LET t == IF thing = New THEN g.next["Thing"] ELSE thing
                   made == IF thing = New THEN InsertEntity(g, "Thing", NoRefs) ELSE g
               IN  PutSeen(t, g.next["HistoricalLocation"], thing = New,
                     InsertEntity(made, "HistoricalLocation", Ref("Thing", t)), locations)
  BY Zenon DEF InsertHistoricalLocation, PutSeen

\* The Locations of a HistoricalLocation, none of which puts a Thing anywhere.
LEMMA PutSeenStays ==
    ASSUME NEW g0 \in Graphs, NEW t \in Nat, NEW h \in Nat, h >= g0.next["HistoricalLocation"],
           NEW newRecord, NEW put \in Telling(g0, t, h), NEW locations \in Seq(Nat)
    PROVE  PutSeen(t, h, newRecord, put, locations) \in Telling(g0, t, h)
  <1> DEFINE seq == locations
             N == Len(seq)
             T == Telling(g0, t, h)
             base == put
             Step(acc, n) == See(Manage(acc, t, n, newRecord), n, h)
             F == [p \in T \X (1 .. N) |-> Step(p[1], seq[p[2]])]
             fold == CHOOSE it : it = [s \in SUBSET DOMAIN seq |->
                        IF s = {} THEN base
                        ELSE LET x == Max(s) IN Step(it[s \ {x}], seq[x])]
  <1>1. PutSeen(t, h, newRecord, put, locations) = fold[DOMAIN seq]
    BY DEF PutSeen, FoldLeft, MapThenFoldSet
  <1>2. N \in Nat /\ DOMAIN seq = 1 .. N /\ base \in T
    OBVIOUS
  <1>3. ASSUME NEW acc \in T, NEW i \in 1 .. N PROVE Step(acc, seq[i]) \in T
    <2> DEFINE l == seq[i]
               m == Manage(acc, t, l, newRecord)
    <2>1. l \in Nat /\ acc \in From(g0, {})
      BY <1>2, <1>3 DEF Telling
    <2>2. Step(acc, seq[i]) = See(m, l, h)
      OBVIOUS
    <2> HIDE DEF l, Step
    <2>3. Places(g0, acc, t, l, m)
      BY <2>1, ManageStays
    <2> HIDE DEF m
    <2>4. /\ m \in From(g0, {<<t, l>>}) /\ Exists(m, "HistoricalLocation", h)
          /\ m.rows[<<"HistoricalLocation", h>>]["Thing"] = t
      BY <1>3, <2>3 DEF Places, Telling, Exists
    <2> HIDE DEF F, fold, T, N
    <2>a. h \in Nat /\ h >= g0.next["HistoricalLocation"] /\ m \in From(g0, {<<t, l>>})
      BY <2>4
    <2>b. Closes(g0, m, See(m, l, h))
      BY <2>1, <2>4, <2>a, SeeCloses, Zenon
    <2>5. See(m, l, h) \in From(g0, {}) /\ See(m, l, h).rows = m.rows
      BY <2>b DEF Closes
    <2> QED BY <2>2, <2>4, <2>5 DEF Telling, Exists, T
  <1> HIDE DEF Step, T, seq, base
  <1>4. F \in [T \X (1 .. N) -> T]
    BY <1>3
  <1>5. ASSUME NEW f \in [SUBSET (1 .. N) -> T], IsFold(f, N, base, F)
        PROVE  f = [s \in SUBSET DOMAIN seq |->
                        IF s = {} THEN base
                        ELSE LET x == Max(s) IN Step(f[s \ {x}], seq[x])]
    <2>1. ASSUME NEW s \in SUBSET (1 .. N), s # {}
          PROVE  f[s] = Step(f[s \ {Max(s)}], seq[Max(s)])
      <3>1. Max(s) \in 1 .. N /\ s \ {Max(s)} \in SUBSET (1 .. N)
        BY <1>2, <2>1, LastPosition
      <3>2. f[s] = F[<<f[s \ {Max(s)}], Max(s)>>]
        BY <2>1, <1>5 DEF IsFold
      <3> QED BY <3>1, <3>2
    <2>2. f[{}] = base
      BY <1>5 DEF IsFold
    <2> QED BY <1>2, <2>1, <2>2
  <1>6. ASSUME \E f \in [SUBSET (1 .. N) -> T] : IsFold(f, N, base, F)
        PROVE  /\ fold[{}] = base
               /\ \A s \in SUBSET (1 .. N) : s # {} => fold[s] = Step(fold[s \ {Max(s)}], seq[Max(s)])
    <2>1. fold = [s \in SUBSET DOMAIN seq |->
                        IF s = {} THEN base
                        ELSE LET x == Max(s) IN Step(fold[s \ {x}], seq[x])]
      BY <1>5, <1>6
    <2> HIDE DEF fold
    <2> QED BY <2>1, <1>2
  <1> HIDE DEF fold, F
  <1>7. /\ fold[{}] = base
        /\ \A s \in SUBSET (1 .. N) : s # {} => fold[s] = Step(fold[s \ {Max(s)}], seq[Max(s)])
    BY <1>2, <1>4, <1>6, FoldExists
  <1> HIDE DEF N
  <1>8. \A s \in SUBSET (1 .. N) : s # {} => Max(s) \in 1 .. N
    BY <1>2, LastPosition
  <1>9. fold[1 .. N] \in T
    <2>1. \A s \in SUBSET (1 .. N) : s # {} /\ fold[s \ {Max(s)}] \in T => fold[s] \in T
      BY <1>3, <1>7, <1>8
    <2> QED BY <1>2, <1>7, <2>1, FoldStays
  <1> QED BY <1>1, <1>2, <1>9 DEF T

LEMMA InsertHistoricalLocationStays ==
    ASSUME NEW g \in Graphs, g \in From(g, {}), NEW thing \in Nat, NEW locations \in Seq(Nat)
    PROVE  InsertHistoricalLocation(g, thing, locations) \in From(g, {})
  <1> DEFINE t == IF thing = New THEN g.next["Thing"] ELSE thing
             made == IF thing = New THEN InsertEntity(g, "Thing", NoRefs) ELSE g
             h == g.next["HistoricalLocation"]
             refs == Ref("Thing", t)
             put == InsertEntity(made, "HistoricalLocation", refs)
             open == {}
             new == thing = New
  <1>1. t \in Nat /\ h \in Nat /\ h >= g.next["HistoricalLocation"]
    BY GraphFields DEF Type
  <1>2. made \in From(g, open) /\ made.next["HistoricalLocation"] = h
    <2>1. CASE thing = New
      <3>1. Inserted(g, {}, g, "Thing", NoRefs, InsertEntity(g, "Thing", NoRefs))
        BY MakeStays
      <3>2. "HistoricalLocation" \in Type /\ g.next \in [Type -> Nat \ {0}]
        BY GraphFields DEF Type
      <3>3. made = InsertEntity(g, "Thing", NoRefs)
        BY <2>1
      <3> HIDE DEF made
      <3> QED BY <3>1, <3>2, <3>3 DEF Inserted
    <2>2. CASE thing # New
      BY <2>2
    <2> QED BY <2>1, <2>2
  <1>3. InsertHistoricalLocation(g, thing, locations) = PutSeen(t, h, new, put, locations)
    BY InsertHistoricalLocationAs
  <1> HIDE DEF t, made, h, open, new
  <1>4. refs \in Keys("HistoricalLocation") /\ refs["Thing"] = t /\ "HistoricalLocation" \in Type
    BY <1>1, RefKeys DEF Type
  <1> HIDE DEF refs
  <1>5. Inserted(g, open, made, "HistoricalLocation", refs, put)
    BY <1>2, <1>4, InsertStays
  <1> HIDE DEF put
  <1>6. put \in Telling(g, t, h)
    BY <1>2, <1>4, <1>5 DEF Inserted, Telling, Exists, open
  <1>7. PutSeen(t, h, new, put, locations) \in Telling(g, t, h)
    BY <1>1, <1>6, PutSeenStays
  <1> QED BY <1>3, <1>7 DEF Telling

\* update_location_entity and update_thing_entity
LEMMA ComesStays ==
    ASSUME NEW g0 \in Graphs, NEW t \in Nat, NEW l \in Nat, NEW g \in From(g0, {})
    PROVE  /\ Record(PlaceAnyway(IF \E x \in g.at : x[2] = l THEN TakeOver(g, t, l) ELSE g, t, l), t, l)
                \in From(g0, {})
           /\ Record(PlaceAnyway(IF At(g, t) # {} THEN MoveAll(g, t, l) ELSE g, t, l), t, l)
                \in From(g0, {})
  <1> DEFINE open == {<<t, l>>}
             some == \E x \in g.at : x[2] = l
             taken == IF some THEN TakeOver(g, t, l) ELSE g
             moved == IF At(g, t) # {} THEN MoveAll(g, t, l) ELSE g
  <1>1. g \in From(g0, open)
    <2> DEFINE none == {}
    <2>1. g \in From(g0, none) /\ none \union open = open
      OBVIOUS
    <2> HIDE DEF none, open
    <2>2. g \in From(g0, none \union open)
      BY <2>1, OpenMore
    <2> QED BY <2>1, <2>2
  <1>2. taken \in From(g0, open)
    BY <1>1, TakeOverStays DEF Places
  <1>3. moved \in From(g0, open)
    BY <1>1, MoveAllStays DEF Places
  <1> HIDE DEF taken, moved
  <1>4. Places(g0, taken, t, l, PlaceAnyway(taken, t, l))
    BY <1>2, PlaceAnywayStays
  <1>5. Places(g0, moved, t, l, PlaceAnyway(moved, t, l))
    BY <1>3, PlaceAnywayStays
  <1>6. PlaceAnyway(taken, t, l) \in From(g0, {<<t, l>>}) /\ PlaceAnyway(moved, t, l) \in From(g0, {<<t, l>>})
    BY <1>4, <1>5 DEF Places
  <1>7. Record(PlaceAnyway(taken, t, l), t, l) \in From(g0, {})
        /\ Record(PlaceAnyway(moved, t, l), t, l) \in From(g0, {})
    BY <1>6, RecordStays
  <1> QED BY <1>7 DEF taken, moved

\* The Things that a PATCH or PUT of a Location names.
LEMMA LinkThingsStays ==
    ASSUME NEW g0 \in Graphs, NEW g \in From(g0, {}), NEW l \in Nat, NEW things \in Seq(Nat)
    PROVE  LinkThings(g, l, things) \in From(g0, {})
  <1> DEFINE seq == things
             N == Len(seq)
             T == From(g0, {})
             base == g
             Step(acc, n) == Record(PlaceAnyway(IF \E x \in acc.at : x[2] = l THEN TakeOver(acc, n, l) ELSE acc, n, l), n, l)
             F == [p \in T \X (1 .. N) |-> Step(p[1], seq[p[2]])]
             fold == CHOOSE it : it = [s \in SUBSET DOMAIN seq |->
                        IF s = {} THEN base
                        ELSE LET x == Max(s) IN Step(it[s \ {x}], seq[x])]
  <1>1. LinkThings(g, l, things) = fold[DOMAIN seq]
    BY DEF LinkThings, FoldLeft, MapThenFoldSet
  <1>2. N \in Nat /\ DOMAIN seq = 1 .. N /\ base \in T
    OBVIOUS
  <1>3. ASSUME NEW acc \in T, NEW i \in 1 .. N PROVE Step(acc, seq[i]) \in T
    <2> DEFINE t == seq[i]
    <2>1. t \in Nat
      BY <1>2, <1>3
    <2> HIDE DEF t
    <2>2. Step(acc, t) \in From(g0, {})
      BY <1>3, <2>1, ComesStays
    <2> QED BY <2>2 DEF t
  <1> HIDE DEF Step, T, seq, base
  <1>4. F \in [T \X (1 .. N) -> T]
    BY <1>3
  <1>5. ASSUME NEW f \in [SUBSET (1 .. N) -> T], IsFold(f, N, base, F)
        PROVE  f = [s \in SUBSET DOMAIN seq |->
                        IF s = {} THEN base
                        ELSE LET x == Max(s) IN Step(f[s \ {x}], seq[x])]
    <2>1. ASSUME NEW s \in SUBSET (1 .. N), s # {}
          PROVE  f[s] = Step(f[s \ {Max(s)}], seq[Max(s)])
      <3>1. Max(s) \in 1 .. N /\ s \ {Max(s)} \in SUBSET (1 .. N)
        BY <1>2, <2>1, LastPosition
      <3>2. f[s] = F[<<f[s \ {Max(s)}], Max(s)>>]
        BY <2>1, <1>5 DEF IsFold
      <3> QED BY <3>1, <3>2
    <2>2. f[{}] = base
      BY <1>5 DEF IsFold
    <2> QED BY <1>2, <2>1, <2>2
  <1>6. ASSUME \E f \in [SUBSET (1 .. N) -> T] : IsFold(f, N, base, F)
        PROVE  /\ fold[{}] = base
               /\ \A s \in SUBSET (1 .. N) : s # {} => fold[s] = Step(fold[s \ {Max(s)}], seq[Max(s)])
    <2>1. fold = [s \in SUBSET DOMAIN seq |->
                        IF s = {} THEN base
                        ELSE LET x == Max(s) IN Step(fold[s \ {x}], seq[x])]
      BY <1>5, <1>6
    <2> HIDE DEF fold
    <2> QED BY <2>1, <1>2
  <1> HIDE DEF fold, F
  <1>7. /\ fold[{}] = base
        /\ \A s \in SUBSET (1 .. N) : s # {} => fold[s] = Step(fold[s \ {Max(s)}], seq[Max(s)])
    BY <1>2, <1>4, <1>6, FoldExists
  <1> HIDE DEF N
  <1>8. \A s \in SUBSET (1 .. N) : s # {} => Max(s) \in 1 .. N
    BY <1>2, LastPosition
  <1>9. fold[1 .. N] \in T
    <2>1. \A s \in SUBSET (1 .. N) : s # {} /\ fold[s \ {Max(s)}] \in T => fold[s] \in T
      BY <1>3, <1>7, <1>8
    <2> QED BY <1>2, <1>7, <2>1, FoldStays
  <1> QED BY <1>1, <1>2, <1>9 DEF T

\* The Locations that a PATCH or PUT of a Thing names.
LEMMA LinkLocationsStays ==
    ASSUME NEW g0 \in Graphs, NEW g \in From(g0, {}), NEW t \in Nat, NEW locations \in Seq(Nat)
    PROVE  LinkLocations(g, t, locations) \in From(g0, {})
  <1> DEFINE seq == locations
             N == Len(seq)
             T == From(g0, {})
             base == g
             Step(acc, n) == Record(PlaceAnyway(IF At(acc, t) # {} THEN MoveAll(acc, t, n) ELSE acc, t, n), t, n)
             F == [p \in T \X (1 .. N) |-> Step(p[1], seq[p[2]])]
             fold == CHOOSE it : it = [s \in SUBSET DOMAIN seq |->
                        IF s = {} THEN base
                        ELSE LET x == Max(s) IN Step(it[s \ {x}], seq[x])]
  <1>1. LinkLocations(g, t, locations) = fold[DOMAIN seq]
    BY DEF LinkLocations, FoldLeft, MapThenFoldSet
  <1>2. N \in Nat /\ DOMAIN seq = 1 .. N /\ base \in T
    OBVIOUS
  <1>3. ASSUME NEW acc \in T, NEW i \in 1 .. N PROVE Step(acc, seq[i]) \in T
    <2> DEFINE l == seq[i]
    <2>1. l \in Nat
      BY <1>2, <1>3
    <2> HIDE DEF l
    <2>2. Step(acc, l) \in From(g0, {})
      BY <1>3, <2>1, ComesStays
    <2> QED BY <2>2 DEF l
  <1> HIDE DEF Step, T, seq, base
  <1>4. F \in [T \X (1 .. N) -> T]
    BY <1>3
  <1>5. ASSUME NEW f \in [SUBSET (1 .. N) -> T], IsFold(f, N, base, F)
        PROVE  f = [s \in SUBSET DOMAIN seq |->
                        IF s = {} THEN base
                        ELSE LET x == Max(s) IN Step(f[s \ {x}], seq[x])]
    <2>1. ASSUME NEW s \in SUBSET (1 .. N), s # {}
          PROVE  f[s] = Step(f[s \ {Max(s)}], seq[Max(s)])
      <3>1. Max(s) \in 1 .. N /\ s \ {Max(s)} \in SUBSET (1 .. N)
        BY <1>2, <2>1, LastPosition
      <3>2. f[s] = F[<<f[s \ {Max(s)}], Max(s)>>]
        BY <2>1, <1>5 DEF IsFold
      <3> QED BY <3>1, <3>2
    <2>2. f[{}] = base
      BY <1>5 DEF IsFold
    <2> QED BY <1>2, <2>1, <2>2
  <1>6. ASSUME \E f \in [SUBSET (1 .. N) -> T] : IsFold(f, N, base, F)
        PROVE  /\ fold[{}] = base
               /\ \A s \in SUBSET (1 .. N) : s # {} => fold[s] = Step(fold[s \ {Max(s)}], seq[Max(s)])
    <2>1. fold = [s \in SUBSET DOMAIN seq |->
                        IF s = {} THEN base
                        ELSE LET x == Max(s) IN Step(fold[s \ {x}], seq[x])]
      BY <1>5, <1>6
    <2> HIDE DEF fold
    <2> QED BY <2>1, <1>2
  <1> HIDE DEF fold, F
  <1>7. /\ fold[{}] = base
        /\ \A s \in SUBSET (1 .. N) : s # {} => fold[s] = Step(fold[s \ {Max(s)}], seq[Max(s)])
    BY <1>2, <1>4, <1>6, FoldExists
  <1> HIDE DEF N
  <1>8. \A s \in SUBSET (1 .. N) : s # {} => Max(s) \in 1 .. N
    BY <1>2, LastPosition
  <1>9. fold[1 .. N] \in T
    <2>1. \A s \in SUBSET (1 .. N) : s # {} /\ fold[s \ {Max(s)}] \in T => fold[s] \in T
      BY <1>3, <1>7, <1>8
    <2> QED BY <1>2, <1>7, <2>1, FoldStays
  <1> QED BY <1>1, <1>2, <1>9 DEF T

\* update_historical_location_entity moves no Thing.
Still(g0, h) == {g \in From(g0, {}) : g.at \subseteq g0.at /\ Exists(g, "HistoricalLocation", h)}

\* The Locations that a PATCH or PUT of a HistoricalLocation names.
LEMMA LinkSeenStays ==
    ASSUME NEW g0 \in Graphs, NEW h \in Nat, NEW g \in Still(g0, h), NEW locations \in Seq(Nat)
    PROVE  LinkSeen(g, h, locations) \in Still(g0, h)
  <1> DEFINE seq == locations
             N == Len(seq)
             T == Still(g0, h)
             base == g
             Step(acc, n) == [Fail(acc, Cardinality({x \in acc.seen : x[2] = h}) <= 1 /\ Exists(acc, "Location", n)) EXCEPT !.seen = {x \in @ : x[2] # h} \union {<<n, h>>}]
             F == [p \in T \X (1 .. N) |-> Step(p[1], seq[p[2]])]
             fold == CHOOSE it : it = [s \in SUBSET DOMAIN seq |->
                        IF s = {} THEN base
                        ELSE LET x == Max(s) IN Step(it[s \ {x}], seq[x])]
  <1>1. LinkSeen(g, h, locations) = fold[DOMAIN seq]
    BY DEF LinkSeen, FoldLeft, MapThenFoldSet
  <1>2. N \in Nat /\ DOMAIN seq = 1 .. N /\ base \in T
    OBVIOUS
  <1>3. ASSUME NEW acc \in T, NEW i \in 1 .. N PROVE Step(acc, seq[i]) \in T
    <2> DEFINE l == seq[i]
               c == Cardinality({x \in acc.seen : x[2] = h}) <= 1 /\ Exists(acc, "Location", l)
               now == {x \in acc.seen : x[2] # h} \union {<<l, h>>}
               open == {}
               m == Fail(acc, c)
    <2>1. l \in Nat /\ acc \in From(g0, open) /\ acc \in Graphs
      BY <1>2, <1>3 DEF Still, From
    <2>2. c \in BOOLEAN /\ (c => Exists(acc, "Location", l))
      OBVIOUS
    <2>3. Step(acc, seq[i]) = [m EXCEPT !.seen = {x \in @ : x[2] # h} \union {<<l, h>>}]
      OBVIOUS
    <2> HIDE DEF c, l, open
    <2>4. m.seen = acc.seen /\ m \in Graphs
      BY <2>1, <2>2, FailFields
    <2> HIDE DEF m, Step
    <2>5. Step(acc, seq[i]) = [m EXCEPT !.seen = now]
      BY <2>3, <2>4
    <2>6. now \in SUBSET (Nat \X Nat)
      BY <2>1, GraphFields
    <2>7. acc.ok /\ c => \A x \in now : /\ Exists(acc, "Location", x[1])
                                        /\ Exists(acc, "HistoricalLocation", x[2])
      BY <1>3, <2>1, <2>2 DEF From, Sound, Still
    <2>8. acc.at \subseteq g0.at
      BY <1>3 DEF Still
    <2> HIDE DEF now
    <2>9. SetSeen(acc, c, now) \in From(g0, open) /\ SetSeen(acc, c, now).rows = acc.rows
          /\ SetSeen(acc, c, now).at = acc.at
      BY <2>1, <2>2, <2>6, <2>7, <2>8, SightsStay
    <2>10. Step(acc, seq[i]) = SetSeen(acc, c, now)
      BY <2>5 DEF SetSeen, m
    <2> QED BY <1>3, <2>8, <2>9, <2>10 DEF Still, Exists, open
  <1> HIDE DEF Step, T, seq, base
  <1>4. F \in [T \X (1 .. N) -> T]
    BY <1>3
  <1>5. ASSUME NEW f \in [SUBSET (1 .. N) -> T], IsFold(f, N, base, F)
        PROVE  f = [s \in SUBSET DOMAIN seq |->
                        IF s = {} THEN base
                        ELSE LET x == Max(s) IN Step(f[s \ {x}], seq[x])]
    <2>1. ASSUME NEW s \in SUBSET (1 .. N), s # {}
          PROVE  f[s] = Step(f[s \ {Max(s)}], seq[Max(s)])
      <3>1. Max(s) \in 1 .. N /\ s \ {Max(s)} \in SUBSET (1 .. N)
        BY <1>2, <2>1, LastPosition
      <3>2. f[s] = F[<<f[s \ {Max(s)}], Max(s)>>]
        BY <2>1, <1>5 DEF IsFold
      <3> QED BY <3>1, <3>2
    <2>2. f[{}] = base
      BY <1>5 DEF IsFold
    <2> QED BY <1>2, <2>1, <2>2
  <1>6. ASSUME \E f \in [SUBSET (1 .. N) -> T] : IsFold(f, N, base, F)
        PROVE  /\ fold[{}] = base
               /\ \A s \in SUBSET (1 .. N) : s # {} => fold[s] = Step(fold[s \ {Max(s)}], seq[Max(s)])
    <2>1. fold = [s \in SUBSET DOMAIN seq |->
                        IF s = {} THEN base
                        ELSE LET x == Max(s) IN Step(fold[s \ {x}], seq[x])]
      BY <1>5, <1>6
    <2> HIDE DEF fold
    <2> QED BY <2>1, <1>2
  <1> HIDE DEF fold, F
  <1>7. /\ fold[{}] = base
        /\ \A s \in SUBSET (1 .. N) : s # {} => fold[s] = Step(fold[s \ {Max(s)}], seq[Max(s)])
    BY <1>2, <1>4, <1>6, FoldExists
  <1> HIDE DEF N
  <1>8. \A s \in SUBSET (1 .. N) : s # {} => Max(s) \in 1 .. N
    BY <1>2, LastPosition
  <1>9. fold[1 .. N] \in T
    <2>1. \A s \in SUBSET (1 .. N) : s # {} /\ fold[s \ {Max(s)}] \in T => fold[s] \in T
      BY <1>3, <1>7, <1>8
    <2> QED BY <1>2, <1>7, <2>1, FoldStays
  <1> QED BY <1>1, <1>2, <1>9 DEF T

\* create_feature_of_interest, with Observations.
ObservedAt(f, datastreams, base) ==
    FoldLeft(LAMBDA acc, d :
                 InsertObservation(acc, Over(Ref("Datastream", d), Ref("FeatureOfInterest", f))),
             base, datastreams)

LEMMA ObservationKeys ==
    ASSUME NEW d \in Nat, NEW f \in Nat
    PROVE  /\ Ref("Datastream", d) \in PartKeys("Observation")
           /\ Ref("FeatureOfInterest", f) \in PartKeys("Observation")
           /\ Over(Ref("Datastream", d), Ref("FeatureOfInterest", f)) \in PartKeys("Observation")
           /\ "Datastream" \in DOMAIN Ref("Datastream", d)
           /\ "Datastream" \in DOMAIN Over(Ref("Datastream", d), Ref("FeatureOfInterest", f))
  <1>1. Refs("Observation") = {"Datastream", "FeatureOfInterest"}
    BY DEF Refs
  <1>2. /\ Ref("Datastream", d) \in [{"Datastream"} -> Nat]
        /\ Ref("FeatureOfInterest", f) \in [{"FeatureOfInterest"} -> Nat]
    BY DEF Ref
  <1>3. Over(Ref("Datastream", d), Ref("FeatureOfInterest", f))
          \in [{"Datastream", "FeatureOfInterest"} -> Nat]
    BY DEF Ref, Over
  <1>4. /\ {"Datastream"} \in SUBSET Refs("Observation")
        /\ {"FeatureOfInterest"} \in SUBSET Refs("Observation")
        /\ {"Datastream", "FeatureOfInterest"} \in SUBSET Refs("Observation")
    BY <1>1
  <1> QED BY <1>2, <1>3, <1>4 DEF PartKeys

\* The Observations nested in a new FeatureOfInterest.
LEMMA ObservedAtStays ==
    ASSUME NEW g0 \in Graphs, NEW g \in From(g0, {}), NEW f \in Nat, NEW datastreams \in Seq(Nat)
    PROVE  ObservedAt(f, datastreams, g) \in From(g0, {})
  <1> DEFINE seq == datastreams
             N == Len(seq)
             T == From(g0, {})
             base == g
             Step(acc, n) == InsertObservation(acc, Over(Ref("Datastream", n), Ref("FeatureOfInterest", f)))
             F == [p \in T \X (1 .. N) |-> Step(p[1], seq[p[2]])]
             fold == CHOOSE it : it = [s \in SUBSET DOMAIN seq |->
                        IF s = {} THEN base
                        ELSE LET x == Max(s) IN Step(it[s \ {x}], seq[x])]
  <1>1. ObservedAt(f, datastreams, g) = fold[DOMAIN seq]
    BY DEF ObservedAt, FoldLeft, MapThenFoldSet
  <1>2. N \in Nat /\ DOMAIN seq = 1 .. N /\ base \in T
    OBVIOUS
  <1>3. ASSUME NEW acc \in T, NEW i \in 1 .. N PROVE Step(acc, seq[i]) \in T
    <2> DEFINE d == seq[i]
               refs == Over(Ref("Datastream", d), Ref("FeatureOfInterest", f))
    <2>1. d \in Nat
      BY <1>2, <1>3
    <2> HIDE DEF d
    <2>2. refs \in PartKeys("Observation") /\ "Datastream" \in DOMAIN refs
      BY <2>1, ObservationKeys
    <2> HIDE DEF refs
    <2>3. InsertObservation(acc, refs) \in T
      BY <1>3, <2>2, InsertObservationStays
    <2> QED BY <2>3 DEF refs, d
  <1> HIDE DEF Step, T, seq, base
  <1>4. F \in [T \X (1 .. N) -> T]
    BY <1>3
  <1>5. ASSUME NEW q \in [SUBSET (1 .. N) -> T], IsFold(q, N, base, F)
        PROVE  q = [s \in SUBSET DOMAIN seq |->
                        IF s = {} THEN base
                        ELSE LET x == Max(s) IN Step(q[s \ {x}], seq[x])]
    <2>1. ASSUME NEW s \in SUBSET (1 .. N), s # {}
          PROVE  q[s] = Step(q[s \ {Max(s)}], seq[Max(s)])
      <3>1. Max(s) \in 1 .. N /\ s \ {Max(s)} \in SUBSET (1 .. N)
        BY <1>2, <2>1, LastPosition
      <3>2. q[s] = F[<<q[s \ {Max(s)}], Max(s)>>]
        BY <2>1, <1>5 DEF IsFold
      <3> QED BY <3>1, <3>2
    <2>2. q[{}] = base
      BY <1>5 DEF IsFold
    <2> QED BY <1>2, <2>1, <2>2
  <1>6. ASSUME \E q \in [SUBSET (1 .. N) -> T] : IsFold(q, N, base, F)
        PROVE  /\ fold[{}] = base
               /\ \A s \in SUBSET (1 .. N) : s # {} => fold[s] = Step(fold[s \ {Max(s)}], seq[Max(s)])
    <2>1. fold = [s \in SUBSET DOMAIN seq |->
                        IF s = {} THEN base
                        ELSE LET x == Max(s) IN Step(fold[s \ {x}], seq[x])]
      BY <1>5, <1>6
    <2> HIDE DEF fold
    <2> QED BY <2>1, <1>2
  <1> HIDE DEF fold, F
  <1>7. /\ fold[{}] = base
        /\ \A s \in SUBSET (1 .. N) : s # {} => fold[s] = Step(fold[s \ {Max(s)}], seq[Max(s)])
    BY <1>2, <1>4, <1>6, FoldExists
  <1> HIDE DEF N
  <1>8. \A s \in SUBSET (1 .. N) : s # {} => Max(s) \in 1 .. N
    BY <1>2, LastPosition
  <1>9. fold[1 .. N] \in T
    <2>1. \A s \in SUBSET (1 .. N) : s # {} /\ fold[s \ {Max(s)}] \in T => fold[s] \in T
      BY <1>3, <1>7, <1>8
    <2> QED BY <1>2, <1>7, <2>1, FoldStays
  <1> QED BY <1>1, <1>2, <1>9 DEF T

-----------------------------------------------------------------------------
(* Requests.                                                               *)

\* The inductive invariant: between requests the rows have their keys and ids that were
\* drawn, and every key names a row.
GraphInv ==
    graph \in From(graph, {}) /\ graph.ok /\ Within(graph)

Recorded ==
    \A x \in graph'.at \ graph.at :
          \E h \in Ids(graph', "HistoricalLocation") :
              /\ graph'.rows[<<"HistoricalLocation", h>>]["Thing"] = x[1]
              /\ <<x[2], h>> \in graph'.seen \ graph.seen

Kept == GraphInv' /\ Recorded

\* What a transaction makes of the database is kept, or rolled back.
LEMMA RespondKeeps ==
    ASSUME GraphInv, NEW g \in From(graph, {}), Respond(g)
    PROVE  Kept
  <1>1. graph \in Graphs /\ g \in Graphs
    BY DEF GraphInv, From
  <1>2. CASE ~g.ok
    <2>1. graph' = graph
      BY <1>2 DEF Respond, Outcome
    <2> QED BY <1>1, <2>1 DEF Kept, Recorded, GraphInv
  <1>3. CASE g.ok
    <2>1. graph' = g /\ Within(g)
      BY <1>3 DEF Respond, Outcome
    <2>2. g \in From(g, {})
      <3>1. g.next["HistoricalLocation"] \in Nat
        BY <1>1, GraphFields DEF Type
      <3>2. g.next["HistoricalLocation"] >= g.next["HistoricalLocation"]
        BY <3>1
      <3> QED BY <1>1, <3>2 DEF From
    <2>3. ASSUME NEW x \in g.at \ graph.at
          PROVE  \E h \in Ids(g, "HistoricalLocation") :
                    /\ g.rows[<<"HistoricalLocation", h>>]["Thing"] = x[1]
                    /\ <<x[2], h>> \in g.seen \ graph.seen
      <3>1. Says(graph, g, x)
        BY <1>3, <2>3 DEF From
      <3>2. PICK h \in Nat : /\ Exists(g, "HistoricalLocation", h)
                             /\ h >= graph.next["HistoricalLocation"]
                             /\ g.rows[<<"HistoricalLocation", h>>]["Thing"] = x[1]
                             /\ <<x[2], h>> \in g.seen
        BY <3>1 DEF Says
      <3>3. h < g.next["HistoricalLocation"] /\ h # 0
        BY <1>1, <3>2, GraphFields DEF From, Complete, Exists, Entity
      <3>4. g.next["HistoricalLocation"] <= MaxId + 1 /\ g.next["HistoricalLocation"] \in Nat
            /\ graph.next["HistoricalLocation"] \in Nat
        BY <1>1, <2>1, GraphFields DEF Within, Type
      <3>5. h \in 1 .. MaxId
        BY <3>2, <3>3, <3>4, GraphAssumption
      <3>6. <<x[2], h>> \notin graph.seen
        <4> SUFFICES ASSUME <<x[2], h>> \in graph.seen PROVE FALSE
          OBVIOUS
        <4>1. Exists(graph, "HistoricalLocation", h)
          BY DEF GraphInv, From, Sound
        <4>2. h < graph.next["HistoricalLocation"]
          BY <4>1 DEF GraphInv, From, Complete, Exists
        <4> QED BY <3>2, <3>4, <4>2
      <3> QED BY <3>2, <3>5, <3>6 DEF Ids
    <2> QED BY <1>1, <1>3, <2>1, <2>2, <2>3 DEF Kept, Recorded, GraphInv
  <1> QED BY <1>2, <1>3

LEMMA PatchKeeps ==
    ASSUME GraphInv, NEW type, NEW id, NEW g, Exists(graph, type, id) => g \in From(graph, {}),
           PatchOf(type, id, g)
    PROVE  Kept
  <1> DEFINE served == Exists(graph, type, id)
             m == IF served THEN g ELSE graph
  <1>1. served \in BOOLEAN
    BY DEF Exists
  <1>2. m \in From(graph, {}) /\ graph \in Graphs
    BY DEF GraphInv, From
  <1>3. Respond(Fail(m, served))
    BY DEF PatchOf
  <1> HIDE DEF m, served
  <1>4. Fail(m, served) \in From(graph, {})
    BY <1>1, <1>2, FailStays
  <1> QED BY <1>3, <1>4, RespondKeeps

LEMMA PutKeeps ==
    ASSUME GraphInv, NEW type, NEW id, NEW complete \in BOOLEAN, NEW g,
           Exists(graph, type, id) => g \in From(graph, {}), PutOf(type, id, complete, g)
    PROVE  Kept
  <1> DEFINE exists == Exists(graph, type, id)
             served == exists /\ complete
             m == IF exists THEN g ELSE graph
  <1>1. served \in BOOLEAN
    BY DEF Exists
  <1>2. m \in From(graph, {}) /\ graph \in Graphs
    BY DEF GraphInv, From
  <1>3. Respond(Fail(m, served))
    BY DEF PutOf
  <1> HIDE DEF m, served
  <1>4. Fail(m, served) \in From(graph, {})
    BY <1>1, <1>2, FailStays
  <1> QED BY <1>3, <1>4, RespondKeeps

LEMMA DeleteKeeps ==
    ASSUME GraphInv, NEW type, NEW id, NEW rows, DeleteOf(type, id, RemoveRows(graph, rows))
    PROVE  Kept
  <1> DEFINE served == Exists(graph, type, id)
             m == RemoveRows(graph, rows)
  <1>1. served \in BOOLEAN
    BY DEF Exists
  <1>2. m \in From(graph, {}) /\ graph \in Graphs
    BY RemoveStays DEF GraphInv, From
  <1>3. Respond(Fail(m, served))
    BY DEF DeleteOf
  <1> HIDE DEF m, served
  <1>4. Fail(m, served) \in From(graph, {})
    BY <1>1, <1>2, FailStays
  <1> QED BY <1>3, <1>4, RespondKeeps

\* The payloads.
LEMMA Payloads ==
    /\ \A ids \in SUBSET Nat : Lists(ids) \subseteq Seq(Nat)
    /\ \A served, type : ListsIf(served, Ids(graph, type)) \subseteq Seq(Nat)
    /\ \A type : Ids(graph, type) \in SUBSET Nat /\ Some(type) \in SUBSET Nat
    /\ \A type \in Owner : NestedLists(type) \subseteq Seq(Nests)
    /\ \A type \in Owner : OtherRefs(type) \subseteq PartKeys("Datastream")
  <1>1. ASSUME NEW ids \in SUBSET Nat, NEW list \in Lists(ids) PROVE list \in Seq(Nat)
    <2> DEFINE S == Seq(Nat)
    <2>1. <<>> \in S
      OBVIOUS
    <2>2. \A i \in ids : <<i>> \in S
      OBVIOUS
    <2>3. \A i, j \in ids : <<i, j>> \in S
      OBVIOUS
    <2> HIDE DEF S
    <2>4. list \in S
      BY <2>1, <2>2, <2>3 DEF Lists
    <2> QED BY <2>4 DEF S
  <1>2. \A type : Ids(graph, type) \in SUBSET Nat /\ Some(type) \in SUBSET Nat
    BY GraphAssumption DEF Ids, Some, New
  <1>3. \A served, type : ListsIf(served, Ids(graph, type)) \subseteq Seq(Nat)
    <2>1. <<>> \in Seq(Nat)
      OBVIOUS
    <2> QED BY <1>1, <1>2, <2>1 DEF ListsIf
  <1>4. ASSUME NEW type \in Owner PROVE OtherRefs(type) \subseteq PartKeys("Datastream")
    <2>1. Refs("Datastream") \ {type} \in SUBSET Refs("Datastream")
      OBVIOUS
    <2>2. /\ [key \in Refs("Datastream") \ {type} |-> New] \in [Refs("Datastream") \ {type} -> Nat]
          /\ [key \in Refs("Datastream") \ {type} |-> 1] \in [Refs("Datastream") \ {type} -> Nat]
      BY DEF New
    <2>3. OtherRefs(type) \subseteq [Refs("Datastream") \ {type} -> Nat]
      BY <2>2 DEF OtherRefs
    <2> QED BY <2>1, <2>3 DEF PartKeys
  <1>5. ASSUME NEW type \in Owner PROVE NestedLists(type) \subseteq Seq(Nests)
    <2>1. NoRefs \in PartKeys("Datastream")
      BY DEF NoRefs, PartKeys
    <2>2. Nested(type) \subseteq Nests
      BY <1>2, <1>4, <2>1 DEF Nested, Nests, New
    <2>3. \A d \in Nests : <<d>> \in Seq(Nests)
      OBVIOUS
    <2>4. <<>> \in Seq(Nests)
      OBVIOUS
    <2> HIDE DEF Nests
    <2> QED BY <2>2, <2>3, <2>4 DEF NestedLists
  <1> QED BY <1>1, <1>2, <1>3, <1>4, <1>5

\* One request at a time: the operations.
LEMMA CreatesKeep ==
    ASSUME GraphInv, CreateNext
    PROVE  Kept
  <1>1. graph \in Graphs /\ graph \in From(graph, {})
    BY DEF GraphInv, From
  <1>2. ASSUME NEW ls \in Lists(Some("Location")), NEW ds \in NestedLists("Thing"), CreateThing(ls, ds)
        PROVE  Kept
    <2>1. ls \in Seq(Nat) /\ ds \in Seq(Nests)
      BY <1>2, Payloads DEF Owner
    <2>2. InsertThing(graph, ls, ds) \in From(graph, {})
      BY <1>1, <2>1, InsertThingStays
    <2> QED BY <1>2, <2>2, RespondKeeps DEF CreateThing
  <1>3. ASSUME NEW ts \in Lists(Some("Thing")), CreateLocation(ts)
        PROVE  Kept
    <2>1. ts \in Seq(Nat)
      BY <1>3, Payloads
    <2>2. InsertLocation(graph, ts) \in From(graph, {})
      BY <1>1, <2>1, InsertLocationStays
    <2> QED BY <1>3, <2>2, RespondKeeps DEF CreateLocation
  <1>4. ASSUME NEW t \in Some("Thing"), NEW ls \in Lists(Ids(graph, "Location")),
               CreateHistoricalLocation(t, ls)
        PROVE  Kept
    <2>1. t \in Nat /\ ls \in Seq(Nat)
      BY <1>4, Payloads
    <2>2. InsertHistoricalLocation(graph, t, ls) \in From(graph, {})
      BY <1>1, <2>1, InsertHistoricalLocationStays
    <2> QED BY <1>4, <2>2, RespondKeeps DEF CreateHistoricalLocation
  <1>5. ASSUME NEW type \in {"Sensor", "ObservedProperty", "Network"}, NEW ds \in NestedLists(type),
               Respond(InsertOwner(graph, type, ds))
        PROVE  Kept
    <2>1. ds \in Seq(Nests)
      BY <1>5, Payloads DEF Owner
    <2>2. InsertOwner(graph, type, ds) \in From(graph, {})
      BY <1>1, <2>1, InsertOwnerStays
    <2> QED BY <1>5, <2>2, RespondKeeps
  <1>6. ASSUME NEW t \in Some("Thing"), NEW refs \in OtherRefs("Thing"), NEW observed \in BOOLEAN,
               CreateDatastream(Over(Ref("Thing", t), refs), observed)
        PROVE  Kept
    <2> DEFINE all == Over(Ref("Thing", t), refs)
               made == InsertDatastream(graph, New, all)
               d == graph.next["Datastream"]
               seen == InsertObservation(made, Ref("Datastream", d))
               g == IF made.ok /\ observed THEN seen ELSE made
    <2>1. t \in Nat /\ refs \in PartKeys("Datastream")
      BY <1>6, Payloads DEF Owner
    <2>2. all \in PartKeys("Datastream")
      BY <2>1, OwnedKeys DEF Owner
    <2>3. d \in Nat
      BY <1>1, GraphFields DEF Type
    <2>4. Respond(g)
      BY <1>6 DEF CreateDatastream
    <2> HIDE DEF all, d
    <2>5. made \in From(graph, {})
      BY <1>1, <2>2, InsertDatastreamStays
    <2> HIDE DEF made
    <2>6. seen \in From(graph, {})
      BY <1>1, <2>3, <2>5, ObservationKeys, InsertObservationStays
    <2> HIDE DEF seen
    <2>7. g \in From(graph, {})
      BY <2>5, <2>6
    <2> QED BY <2>4, <2>7, RespondKeeps
  <1>7. ASSUME NEW ds \in Lists(Ids(graph, "Datastream")), CreateFeatureOfInterest(ds)
        PROVE  Kept
    <2> DEFINE f == graph.next["FeatureOfInterest"]
               made == InsertEntity(graph, "FeatureOfInterest", NoRefs)
               g == ObservedAt(f, ds, made)
    <2>1. ds \in Seq(Nat) /\ f \in Nat
      BY <1>1, <1>7, Payloads, GraphFields DEF Type
    <2>2. Respond(g)
      BY <1>7, Zenon DEF CreateFeatureOfInterest, ObservedAt
    <2>3. made \in From(graph, {})
      BY <1>1, MakeStays DEF Inserted
    <2> HIDE DEF made, f
    <2>4. g \in From(graph, {})
      BY <1>1, <2>1, <2>3, ObservedAtStays
    <2> QED BY <2>2, <2>4, RespondKeeps
  <1>8. ASSUME NEW refs \in PartKeys("Observation"), "Datastream" \in DOMAIN refs,
               CreateObservation(refs)
        PROVE  Kept
    <2>1. InsertObservation(graph, refs) \in From(graph, {})
      BY <1>1, <1>8, InsertObservationStays
    <2> QED BY <1>8, <2>1, RespondKeeps DEF CreateObservation
  <1>9. ASSUME NEW d \in Ids(graph, "Datastream"), CreateObservation(Ref("Datastream", d))
        PROVE  Kept
    <2>1. d \in Nat
      BY <1>9, Payloads
    <2> DEFINE refs == Ref("Datastream", d)
    <2>2. refs \in PartKeys("Observation") /\ "Datastream" \in DOMAIN refs /\ CreateObservation(refs)
      BY <1>9, <2>1, ObservationKeys
    <2> HIDE DEF refs
    <2> QED BY <2>2, <1>8
  <1>10. ASSUME NEW d \in Ids(graph, "Datastream"), NEW f \in Some("FeatureOfInterest"),
                CreateObservation(Over(Ref("Datastream", d), Ref("FeatureOfInterest", f)))
         PROVE  Kept
    <2>1. d \in Nat /\ f \in Nat
      BY <1>10, Payloads
    <2> DEFINE refs == Over(Ref("Datastream", d), Ref("FeatureOfInterest", f))
    <2>2. refs \in PartKeys("Observation") /\ "Datastream" \in DOMAIN refs /\ CreateObservation(refs)
      BY <1>10, <2>1, ObservationKeys
    <2> HIDE DEF refs
    <2> QED BY <2>2, <1>8
  <1> QED BY <1>2, <1>3, <1>4, <1>5, <1>6, <1>7, <1>9, <1>10
          DEF CreateNext, CreateSensor, CreateObservedProperty, CreateNetwork

\* What handle_nested_entities and handle_associations link.
LEMMA NestedKeys ==
    ASSUME NEW id \in Nat
    PROVE  /\ \A key \in Owner : Ref(key, id) \in PartKeys("Datastream")
           /\ \A key \in Refs("Datastream") : Ref(key, id) \in PartKeys("Datastream")
           /\ \A key \in Refs("Observation") : Ref(key, id) \in PartKeys("Observation")
           /\ Ref("Thing", id) \in PartKeys("HistoricalLocation")
  <1>1. ASSUME NEW type, NEW key \in Refs(type) PROVE Ref(key, id) \in PartKeys(type)
    <2>1. Ref(key, id) \in [{key} -> Nat] /\ {key} \in SUBSET Refs(type)
      BY <1>1 DEF Ref
    <2> QED BY <2>1 DEF PartKeys
  <1>2. Refs("Datastream") = Owner /\ "Thing" \in Refs("HistoricalLocation")
    BY DEF Refs, Owner
  <1> QED BY <1>1, <1>2

\* The links of an update.
LEMMA Links ==
    ASSUME GraphInv, NEW id \in 1 .. MaxId
    PROVE  /\ \A ls \in Seq(Nat), ds \in Seq(Nat) :
                 LinkNested(LinkLocations(graph, id, ls), "Thing", id, "Datastream", ds) \in From(graph, {})
           /\ \A ls \in Seq(Nat) : LinkLocations(graph, id, ls) \in From(graph, {})
           /\ \A ts \in Seq(Nat) : LinkThings(graph, id, ts) \in From(graph, {})
           /\ \A ls \in Seq(Nat), t \in Nat : Exists(graph, "HistoricalLocation", id) =>
                 /\ LinkSeen(graph, id, ls) \in From(graph, {})
                 /\ LinkRefs(LinkSeen(graph, id, ls), "HistoricalLocation", id, Ref("Thing", t))
                      \in From(graph, {})
           /\ \A type \in Owner, ds \in Seq(Nat) :
                 LinkNested(graph, type, id, "Datastream", ds) \in From(graph, {})
           /\ \A type \in Refs("Observation"), os \in Seq(Nat) :
                 LinkNested(graph, type, id, "Observation", os) \in From(graph, {})
           /\ \A key \in Refs("Datastream"), other \in Nat, os \in Seq(Nat) :
                 /\ LinkRefs(LinkNested(graph, "Datastream", id, "Observation", os),
                             "Datastream", id, Ref(key, other)) \in From(graph, {})
                 /\ LinkRefs(graph, "Datastream", id, Ref(key, other)) \in From(graph, {})
           /\ \A key \in Refs("Observation"), other \in Nat :
                 LinkRefs(graph, "Observation", id, Ref(key, other)) \in From(graph, {})
  <1>1. graph \in Graphs /\ graph \in From(graph, {}) /\ id \in Nat
    BY GraphAssumption DEF GraphInv, From
  <1>2. /\ "Datastream" \in Type \ {"HistoricalLocation"} /\ "Observation" \in Type \ {"HistoricalLocation"}
        /\ "HistoricalLocation" \in Type /\ "Thing" \in Owner
    BY DEF Type, Owner
  <1>3. ASSUME NEW g \in From(graph, {}), NEW type \in Owner, NEW ds \in Seq(Nat)
        PROVE  LinkNested(g, type, id, "Datastream", ds) \in From(graph, {})
    BY <1>1, <1>2, <1>3, NestedKeys, LinkNestedStays
  <1>4. ASSUME NEW type \in Refs("Observation"), NEW os \in Seq(Nat)
        PROVE  LinkNested(graph, type, id, "Observation", os) \in From(graph, {})
    BY <1>1, <1>2, <1>4, NestedKeys, LinkNestedStays
  <1>5. ASSUME NEW ls \in Seq(Nat)
        PROVE  /\ LinkLocations(graph, id, ls) \in From(graph, {})
               /\ LinkThings(graph, id, ls) \in From(graph, {})
    BY <1>1, <1>5, LinkLocationsStays, LinkThingsStays
  <1>6. ASSUME NEW ls \in Seq(Nat), NEW t \in Nat, Exists(graph, "HistoricalLocation", id)
        PROVE  /\ LinkSeen(graph, id, ls) \in From(graph, {})
               /\ LinkRefs(LinkSeen(graph, id, ls), "HistoricalLocation", id, Ref("Thing", t))
                    \in From(graph, {})
    <2> DEFINE m == LinkSeen(graph, id, ls)
               refs == Ref("Thing", t)
               open == {}
    <2>1. graph \in Still(graph, id)
      BY <1>1, <1>6 DEF Still
    <2>2. m \in Still(graph, id)
      BY <1>1, <2>1, LinkSeenStays
    <2>3. refs \in PartKeys("HistoricalLocation")
      BY NestedKeys
    <2> HIDE DEF m, refs
    <2>4. m \in From(graph, open) /\ m.at \subseteq graph.at
      BY <2>2 DEF Still
    <2> HIDE DEF open
    <2>5. Link(m, "HistoricalLocation", id, refs) \in From(graph, open)
      BY <1>1, <1>2, <2>3, <2>4, LinkStays
    <2> QED BY <2>4, <2>5 DEF LinkRefs, m, refs, open
  <1>7. ASSUME NEW g \in From(graph, {}), NEW type \in {"Datastream", "Observation"},
               NEW key \in Refs(type), NEW other \in Nat
        PROVE  LinkRefs(g, type, id, Ref(key, other)) \in From(graph, {})
    <2> DEFINE refs == Ref(key, other)
               open == {}
    <2>1. refs \in PartKeys(type) /\ type \in Type /\ type # "HistoricalLocation"
      BY <1>2, NestedKeys
    <2>2. g \in From(graph, open)
      OBVIOUS
    <2> HIDE DEF refs, open
    <2>3. Link(g, type, id, refs) \in From(graph, open)
      BY <1>1, <2>1, <2>2, LinkStays
    <2> QED BY <2>3 DEF LinkRefs, refs, open
  <1>8. "Datastream" \in Refs("Observation")
    BY DEF Refs
  <1> QED BY <1>1, <1>2, <1>3, <1>4, <1>5, <1>6, <1>7, <1>8

LEMMA UpdatesKeep ==
    ASSUME GraphInv, UpdateNext
    PROVE  Kept
  <1>1. PICK id \in 1 .. MaxId :
          LET Linking(type, table) == ListsIf(Exists(graph, type, id), Ids(graph, table)) IN
          \/ \E ls \in Linking("Thing", "Location"), ds \in Linking("Thing", "Datastream") :
                UpdateThing(id, ls, ds)
          \/ \E ts \in Linking("Location", "Thing") : UpdateLocation(id, ts)
          \/ \E ls \in Linking("HistoricalLocation", "Location"), t \in Ids(graph, "Thing") :
                UpdateHistoricalLocation(id, ls, Ref("Thing", t))
          \/ \E ds \in Linking("Sensor", "Datastream") : UpdateSensor(id, ds)
          \/ \E ds \in Linking("ObservedProperty", "Datastream") : UpdateObservedProperty(id, ds)
          \/ \E ds \in Linking("Network", "Datastream") : UpdateNetwork(id, ds)
          \/ \E key \in Refs("Datastream") : \E other \in Ids(graph, key) :
                \E os \in Linking("Datastream", "Observation") : UpdateDatastream(id, Ref(key, other), os)
          \/ \E os \in Linking("FeatureOfInterest", "Observation") : UpdateFeatureOfInterest(id, os)
          \/ \E key \in Refs("Observation") : \E other \in Ids(graph, key) :
                UpdateObservation(id, Ref(key, other))
    BY Zenon DEF UpdateNext
  <1>2. \A served, table : ListsIf(served, Ids(graph, table)) \subseteq Seq(Nat)
    BY Payloads
  <1>3. \A table : Ids(graph, table) \subseteq Nat
    BY Payloads
  <1>4. ASSUME NEW ls \in Seq(Nat), NEW ds \in Seq(Nat), UpdateThing(id, ls, ds) PROVE Kept
    BY <1>4, Links, PatchKeeps DEF UpdateThing
  <1>5. ASSUME NEW ts \in Seq(Nat), UpdateLocation(id, ts) PROVE Kept
    BY <1>5, Links, PatchKeeps DEF UpdateLocation
  <1>6. ASSUME NEW ls \in Seq(Nat), NEW t \in Nat, UpdateHistoricalLocation(id, ls, Ref("Thing", t)) PROVE Kept
    BY <1>6, Links, PatchKeeps DEF UpdateHistoricalLocation
  <1>7. ASSUME NEW ds \in Seq(Nat), UpdateSensor(id, ds) PROVE Kept
    BY <1>7, Links, PatchKeeps DEF UpdateSensor, Owner
  <1>8. ASSUME NEW ds \in Seq(Nat), UpdateObservedProperty(id, ds) PROVE Kept
    BY <1>8, Links, PatchKeeps DEF UpdateObservedProperty, Owner
  <1>9. ASSUME NEW ds \in Seq(Nat), UpdateNetwork(id, ds) PROVE Kept
    BY <1>9, Links, PatchKeeps DEF UpdateNetwork, Owner
  <1>10. ASSUME NEW key \in Refs("Datastream"), NEW other \in Nat, NEW os \in Seq(Nat), UpdateDatastream(id, Ref(key, other), os) PROVE Kept
    BY <1>10, Links, PatchKeeps DEF UpdateDatastream
  <1>11. ASSUME NEW os \in Seq(Nat), UpdateFeatureOfInterest(id, os) PROVE Kept
    BY <1>11, Links, PatchKeeps DEF UpdateFeatureOfInterest, Refs
  <1>12. ASSUME NEW key \in Refs("Observation"), NEW other \in Nat, UpdateObservation(id, Ref(key, other)) PROVE Kept
    BY <1>12, Links, PatchKeeps DEF UpdateObservation
  <1> QED BY <1>1, <1>2, <1>3, <1>4, <1>5, <1>6, <1>7, <1>8, <1>9, <1>10, <1>11, <1>12

LEMMA ReplacesKeep ==
    ASSUME GraphInv, ReplaceNext
    PROVE  Kept
  <1>1. PICK id \in 1 .. MaxId, complete \in BOOLEAN :
          LET Linking(type, table) == ListsIf(complete /\ Exists(graph, type, id), Ids(graph, table)) IN
          \/ \E ls \in Linking("Thing", "Location") : ReplaceThing(id, complete, ls)
          \/ \E ls \in Linking("HistoricalLocation", "Location") :
                ReplaceHistoricalLocation(id, complete, ls)
          \/ \E ts \in Linking("Location", "Thing") : ReplaceLocation(id, complete, ts)
          \/ \E ds \in Linking("Sensor", "Datastream") : ReplaceSensor(id, complete, ds)
          \/ \E ds \in Linking("ObservedProperty", "Datastream") :
                ReplaceObservedProperty(id, complete, ds)
          \/ \E ds \in Linking("Network", "Datastream") : ReplaceNetwork(id, complete, ds)
          \/ \E key \in Refs("Datastream") : \E other \in Ids(graph, key) :
                ReplaceDatastream(id, complete, Ref(key, other))
          \/ \E os \in Linking("FeatureOfInterest", "Observation") :
                ReplaceFeatureOfInterest(id, complete, os)
          \/ \E key \in Refs("Observation") : \E other \in Ids(graph, key) :
                ReplaceObservation(id, complete, Ref(key, other))
    BY Zenon DEF ReplaceNext
  <1>2. \A served, table : ListsIf(served, Ids(graph, table)) \subseteq Seq(Nat)
    BY Payloads
  <1>3. \A table : Ids(graph, table) \subseteq Nat
    BY Payloads
  <1>4. ASSUME NEW ls \in Seq(Nat), ReplaceThing(id, complete, ls) PROVE Kept
    BY <1>4, Links, PutKeeps DEF ReplaceThing
  <1>5. ASSUME NEW ls \in Seq(Nat), ReplaceHistoricalLocation(id, complete, ls) PROVE Kept
    BY <1>5, Links, PutKeeps DEF ReplaceHistoricalLocation
  <1>6. ASSUME NEW ts \in Seq(Nat), ReplaceLocation(id, complete, ts) PROVE Kept
    BY <1>6, Links, PutKeeps DEF ReplaceLocation
  <1>7. ASSUME NEW ds \in Seq(Nat), ReplaceSensor(id, complete, ds) PROVE Kept
    BY <1>7, Links, PutKeeps DEF ReplaceSensor, Owner
  <1>8. ASSUME NEW ds \in Seq(Nat), ReplaceObservedProperty(id, complete, ds) PROVE Kept
    BY <1>8, Links, PutKeeps DEF ReplaceObservedProperty, Owner
  <1>9. ASSUME NEW ds \in Seq(Nat), ReplaceNetwork(id, complete, ds) PROVE Kept
    BY <1>9, Links, PutKeeps DEF ReplaceNetwork, Owner
  <1>10. ASSUME NEW key \in Refs("Datastream"), NEW other \in Nat, ReplaceDatastream(id, complete, Ref(key, other)) PROVE Kept
    <2>1. LinkRefs(graph, "Datastream", id, Ref(key, other)) \in From(graph, {})
      BY <1>10, Links, <<>> \in Seq(Nat)
    <2> QED BY <1>10, <2>1, PutKeeps DEF ReplaceDatastream
  <1>11. ASSUME NEW os \in Seq(Nat), ReplaceFeatureOfInterest(id, complete, os) PROVE Kept
    BY <1>11, Links, PutKeeps DEF ReplaceFeatureOfInterest, Refs
  <1>12. ASSUME NEW key \in Refs("Observation"), NEW other \in Nat, ReplaceObservation(id, complete, Ref(key, other)) PROVE Kept
    BY <1>12, Links, PutKeeps DEF ReplaceObservation
  <1> QED BY <1>1, <1>2, <1>3, <1>4, <1>5, <1>6, <1>7, <1>8, <1>9, <1>10, <1>11, <1>12

LEMMA DeletesKeep ==
    ASSUME GraphInv, DeleteNext
    PROVE  Kept
  BY DeleteKeeps
  DEF DeleteNext, DeleteThing, DeleteLocation, DeleteHistoricalLocation, DeleteSensor,
      DeleteObservedProperty, DeleteNetwork, DeleteDatastream, DeleteFeatureOfInterest,
      DeleteObservation

LEMMA StepKeeps ==
    ASSUME GraphInv, [GraphNext]_graphVars
    PROVE  Kept
  <1>1. CASE UNCHANGED graphVars
    BY <1>1 DEF graphVars, Kept, GraphInv, Recorded
  <1> QED BY <1>1, CreatesKeep, UpdatesKeep, ReplacesKeep, DeletesKeep DEF GraphNext

-----------------------------------------------------------------------------
(* The first request.                                                      *)

LEMMA SetAtFields ==
    ASSUME NEW g \in Graphs, NEW c \in BOOLEAN, NEW at
    PROVE  /\ SetAt(g, c, at).ok = (g.ok /\ c) /\ SetAt(g, c, at).rows = g.rows
           /\ SetAt(g, c, at).next = g.next /\ SetAt(g, c, at).seen = g.seen
  <1> DEFINE ok == g.ok /\ c
  <1>1. Fail(g, c) = [rows |-> g.rows, at |-> g.at, seen |-> g.seen, next |-> g.next, ok |-> ok]
    BY GraphFields DEF Fail
  <1> HIDE DEF ok
  <1>2. SetAt(g, c, at) = [rows |-> g.rows, at |-> at, seen |-> g.seen, next |-> g.next, ok |-> ok]
    BY <1>1 DEF SetAt
  <1> QED BY <1>2 DEF ok

LEMMA SetSeenFields ==
    ASSUME NEW g \in Graphs, NEW c \in BOOLEAN, NEW seen
    PROVE  /\ SetSeen(g, c, seen).ok = (g.ok /\ c) /\ SetSeen(g, c, seen).rows = g.rows
           /\ SetSeen(g, c, seen).next = g.next /\ SetSeen(g, c, seen).at = g.at
  <1> DEFINE ok == g.ok /\ c
  <1>1. Fail(g, c) = [rows |-> g.rows, at |-> g.at, seen |-> g.seen, next |-> g.next, ok |-> ok]
    BY GraphFields DEF Fail
  <1> HIDE DEF ok
  <1>2. SetSeen(g, c, seen) = [rows |-> g.rows, at |-> g.at, seen |-> seen, next |-> g.next, ok |-> ok]
    BY <1>1 DEF SetSeen
  <1> QED BY <1>2 DEF ok

\* A Thing put where it was not, and the record of it.
LEMMA FirstPlace ==
    ASSUME NEW g \in Graphs, g \in From(g, {}), g.ok, g.at = {}, g.seen = {},
           NEW t \in Nat, NEW l \in Nat, Exists(g, "Thing", t), Exists(g, "Location", l)
    PROVE  LET r == Record(Manage(g, t, l, TRUE), t, l)
           IN  /\ r.ok /\ r.next = [g.next EXCEPT !["HistoricalLocation"] = @ + 1]
               /\ \A e \in DOMAIN g.rows : e \in DOMAIN r.rows
  <1> DEFINE c == <<t, l>> \notin g.at /\ Exists(g, "Thing", t) /\ Exists(g, "Location", l)
             p == Manage(g, t, l, TRUE)
             f == Fail(g, c)
             refs == Ref("Thing", t)
             open == {<<t, l>>}
             h == g.next["HistoricalLocation"]
  <1>1. c = TRUE
    OBVIOUS
  <1>2. p = [f EXCEPT !.at = @ \union {<<t, l>>}]
    BY DEF Manage, Place
  <1>3. Places(g, g, t, l, p)
    BY ManageStays
  <1> HIDE DEF c, p
  <1>4. f \in Graphs /\ f.at = g.at /\ c \in BOOLEAN
    BY <1>1, FailStays DEF From
  <1> HIDE DEF f
  <1>5. p = [f EXCEPT !.at = g.at \union {<<t, l>>}]
    BY <1>2, <1>4
  <1>6. p = SetAt(g, c, g.at \union {<<t, l>>})
    BY <1>5 DEF SetAt, f
  <1>7. p.ok /\ p.rows = g.rows /\ p.next = g.next /\ p.seen = g.seen
    <2> DEFINE at == g.at \union {<<t, l>>}
    <2>1. p = SetAt(g, c, at)
      BY <1>6
    <2> HIDE DEF at
    <2> QED BY <1>1, <1>4, <2>1, SetAtFields
  <1>8. p \in From(g, open) /\ refs \in Keys("HistoricalLocation") /\ refs["Thing"] = t
        /\ "HistoricalLocation" \in Type
    BY <1>3, RefKeys DEF Places, Type
  <1> DEFINE m == InsertEntity(p, "HistoricalLocation", refs)
  <1> HIDE DEF refs, open
  <1>9. Inserted(g, open, p, "HistoricalLocation", refs, m)
    BY <1>8, InsertStays
  <1>10. Record(p, t, l) = See(m, l, p.next["HistoricalLocation"])
    BY DEF Record, refs
  <1> HIDE DEF m, h
  <1>11. Refs("HistoricalLocation") = {"Thing"} /\ m \in Graphs
    BY <1>9 DEF Refs, Inserted, From
  <1>12. m.ok /\ m.seen = {} /\ m.next = [g.next EXCEPT !["HistoricalLocation"] = @ + 1]
        /\ \A e \in DOMAIN g.rows : e \in DOMAIN m.rows
    BY <1>7, <1>8, <1>9, <1>11 DEF Inserted, Exists
  <1> DEFINE k == p.next["HistoricalLocation"]
             d == <<l, k>> \notin m.seen /\ Exists(m, "Location", l)
             n == Fail(m, d)
  <1>13. d /\ d \in BOOLEAN
    BY <1>12 DEF Exists
  <1>14. See(m, l, k) = [n EXCEPT !.seen = @ \union {<<l, k>>}]
    BY DEF See
  <1> HIDE DEF d, k
  <1>15. See(m, l, k) = SetSeen(m, d, m.seen \union {<<l, k>>})
    <2>1. n.seen = m.seen /\ d \in BOOLEAN
      BY <1>11, <1>13, FailFields
    <2> HIDE DEF n
    <2>2. See(m, l, k) = [n EXCEPT !.seen = m.seen \union {<<l, k>>}]
      BY <1>14, <2>1
    <2> QED BY <2>2 DEF SetSeen, n
  <1>16. See(m, l, k).ok /\ See(m, l, k).next = m.next /\ See(m, l, k).rows = m.rows
    <2> DEFINE seen == m.seen \union {<<l, k>>}
    <2>1. See(m, l, k) = SetSeen(m, d, seen)
      BY <1>15
    <2> HIDE DEF seen, n
    <2>2. SetSeen(m, d, seen).ok = (m.ok /\ d) /\ SetSeen(m, d, seen).rows = m.rows
          /\ SetSeen(m, d, seen).next = m.next
      BY <1>11, <1>13, SetSeenFields, ZenonT(60)
    <2> QED BY <1>12, <1>13, <2>1, <2>2
  <1> QED BY <1>10, <1>12, <1>16 DEF p, k

Empty == [rows |-> [e \in {} |-> NoRefs], at |-> {}, seen |-> {},
          next |-> [type \in Type |-> 1], ok |-> TRUE]

LEMMA EmptyIsSound == Empty \in Graphs /\ Empty \in From(Empty, {})
  <1> DEFINE rows == [e \in {} |-> NoRefs]
             next == [type \in Type |-> 1]
             none == {}
             ok == TRUE
  <1>1. none \in SUBSET (Nat \X Nat) /\ none \in SUBSET Entity
    OBVIOUS
  <1>2. next \in [Type -> Nat \ {0}] /\ ok \in BOOLEAN
    OBVIOUS
  <1>3. rows = [e \in none |-> rows[e]] /\ \A e \in none : rows[e] \in Keys(e[1])
    OBVIOUS
  <1> HIDE DEF rows, next, none, ok
  <1>4. [rows |-> rows, at |-> none, seen |-> none, next |-> next, ok |-> ok] \in Graphs
    BY <1>1, <1>2, <1>3, GraphOf
  <1>5. Empty \in Graphs
    BY <1>4 DEF Empty, rows, next, none, ok
  <1>6. Complete(Empty) /\ Sound(Empty)
    BY DEF Empty, Complete, Sound
  <1>7. Empty.next["HistoricalLocation"] >= Empty.next["HistoricalLocation"] /\ Empty.at = {}
    BY DEF Empty, Type
  <1> QED BY <1>5, <1>6, <1>7 DEF From

LEMMA SeedFields ==
    /\ Seed \in Graphs /\ Seed \in From(Seed, {}) /\ Seed.ok
    /\ \A type \in Type : Seed.next[type] <= 2
  <1> DEFINE made == MadeLocations(Empty, <<New>>)
             put == InsertEntity(made, "Thing", NoRefs)
             placed == PutLocations(Empty, <<New>>, 1, put)
             refs == Over(Ref("Thing", 1), [key \in {"Sensor", "ObservedProperty", "Network"} |-> New])
             next == Empty.next
  <1>1. /\ Empty \in Graphs /\ Empty \in From(Empty, {})
        /\ next \in [Type -> Nat] /\ \A type \in Type : next[type] = 1
        /\ Empty.ok /\ Empty.at = {} /\ Empty.seen = {} /\ DOMAIN Empty.rows = {}
    BY EmptyIsSound DEF Empty
  <1>2. <<New>> \in Seq(Nat) /\ Len(<<New>>) = 1 /\ <<New>>[1] = New /\ <<>> \in Seq(Nat)
    BY DEF New
  <1>3. "Location" \in Type /\ "Thing" \in Type /\ "HistoricalLocation" \in Type
        /\ "Datastream" \in Type /\ Refs("Location") = {} /\ Refs("Thing") = {}
    BY DEF Type, Refs
  <1> HIDE DEF next
  <1>4. Inserted(Empty, {}, Empty, "Location", NoRefs, made)
    <2> DEFINE locations == <<New>>
               none == <<>>
    <2>1. locations \in Seq(Nat) /\ Len(locations) = 1 /\ locations[1] = New /\ none \in Seq(Nat)
      BY <1>2
    <2> HIDE DEF locations, none
    <2>a. MadeLocations(Empty, locations)
            = (IF locations[1] = New THEN InsertLocation(Empty, <<>>) ELSE Empty)
      BY <1>1, <2>1, MadeLocationsStay
    <2>b. made = InsertLocation(Empty, <<>>)
      BY <2>1, <2>a DEF made, locations
    <2>2. InsertLocation(Empty, <<>>) = InsertEntity(Empty, "Location", NoRefs)
      BY <1>1, <1>2, InsertLocationStays
    <2> QED BY <1>1, <2>b, <2>2, MakeStays
  <1> HIDE DEF made
  <1>5. /\ made \in From(Empty, {}) /\ made.ok /\ made.at = {} /\ made.seen = {}
        /\ made.next = [next EXCEPT !["Location"] = @ + 1]
        /\ <<"Location", 1>> \in DOMAIN made.rows
    BY <1>1, <1>3, <1>4 DEF Inserted, next
  <1>6. Inserted(Empty, {}, made, "Thing", NoRefs, put)
    BY <1>1, <1>5, MakeStays
  <1> HIDE DEF put
  <1>7. made.next["Thing"] = 1
    BY <1>1, <1>3, <1>5
  <1>8. /\ put \in From(Empty, {}) /\ put.ok /\ put.at = {} /\ put.seen = {}
        /\ put.next = [made.next EXCEPT !["Thing"] = @ + 1]
        /\ Exists(put, "Thing", 1) /\ Exists(put, "Location", 1)
    BY <1>3, <1>5, <1>6, <1>7 DEF Inserted, Exists
  <1>9. put \in Graphs /\ put \in From(put, {})
    <2>1. put \in Graphs
      BY <1>8 DEF From
    <2>2. put.next["HistoricalLocation"] \in Nat
      BY <2>1, GraphFields DEF Type
    <2>3. put.next["HistoricalLocation"] >= put.next["HistoricalLocation"]
      BY <2>2
    <2> QED BY <1>8, <2>1, <2>3 DEF From
  <1>10. LocationOf(Empty, <<New>>, 1) = 1
    <2>1. {j \in 1 .. 1 - 1 : <<New>>[j] = New} = {}
      OBVIOUS
    <2>2. Empty.next["Location"] = 1
      BY <1>1, <1>3 DEF next
    <2> QED BY <1>2, <2>1, <2>2, FS_EmptySet DEF LocationOf
  <1>11. placed \in From(Empty, {}) /\ placed = Record(Manage(put, 1, 1, TRUE), 1, 1)
    <2> DEFINE locations == <<New>>
               t == 1
    <2>1. /\ locations \in Seq(Nat) /\ Len(locations) = 1 /\ t \in Nat
          /\ LocationOf(Empty, locations, 1) = 1
      BY <1>2, <1>10
    <2>2. placed = PutLocations(Empty, locations, t, put)
      OBVIOUS
    <2> HIDE DEF locations, t, placed
    <2>3. /\ PutLocations(Empty, locations, t, put) \in From(Empty, {})
          /\ PutLocations(Empty, locations, t, put)
               = Record(Manage(put, t, LocationOf(Empty, locations, 1), TRUE),
                        t, LocationOf(Empty, locations, 1))
      <3>1. Empty \in Graphs /\ put \in From(Empty, {})
        BY <1>1, <1>8
      <3> QED BY <2>1, <3>1, PutLocationsStay
    <2> QED BY <2>1, <2>2, <2>3 DEF t
  <1> HIDE DEF placed
  <1>12. /\ placed.ok /\ placed.next = [put.next EXCEPT !["HistoricalLocation"] = @ + 1]
         /\ Exists(placed, "Thing", 1)
    <2> DEFINE t == 1
               r == Record(Manage(put, t, t, TRUE), t, t)
    <2>1. t \in Nat /\ Exists(put, "Thing", t) /\ Exists(put, "Location", t)
      BY <1>8
    <2> HIDE DEF t
    <2>2. /\ r.ok /\ r.next = [put.next EXCEPT !["HistoricalLocation"] = @ + 1]
          /\ \A e \in DOMAIN put.rows : e \in DOMAIN r.rows
      BY <1>8, <1>9, <2>1, FirstPlace
    <2>3. r = placed
      BY <1>11 DEF t
    <2> HIDE DEF r
    <2> QED BY <1>8, <2>2, <2>3 DEF Exists
  <1>13. InsertThing(Empty, <<New>>, <<>>) = placed
    <2>1. Empty.next["Thing"] = 1 /\ "Thing" \in Owner /\ <<>> \in Seq(Nests)
      BY <1>1, <1>3 DEF next, Owner
    <2>2. InsertDatastreams(placed, "Thing", 1, <<>>) = placed
      <3> DEFINE t == 1
                 type == "Thing"
      <3>1. type \in Owner /\ t \in Nat /\ <<>> \in Seq(Nests)
        BY <2>1
      <3>2. Empty \in Graphs /\ placed \in From(Empty, {})
        BY <1>1, <1>11
      <3> HIDE DEF t, type
      <3>3. InsertDatastreams(placed, type, t, <<>>) = placed
        BY <3>1, <3>2, InsertDatastreamsStays
      <3> QED BY <3>3 DEF t, type
    <2> QED BY <2>1, <2>2, InsertThingAs DEF placed, put, made
  <1>14. placed \in Graphs /\ placed.next \in [Type -> Nat \ {0}]
         /\ \A type \in Type : placed.next[type] =
               IF type \in {"Location", "Thing", "HistoricalLocation"} THEN 2 ELSE 1
    <2>1. placed \in Graphs
      BY <1>11 DEF From
    <2> QED BY <2>1, <1>1, <1>3, <1>5, <1>8, <1>12, GraphFields
  <1>15. /\ DOMAIN refs = Refs("Datastream") /\ refs["Thing"] = 1
         /\ refs["Sensor"] = New /\ refs["ObservedProperty"] = New /\ refs["Network"] = New
         /\ refs \in Keys("Datastream")
    BY DEF Refs, Over, Ref, Keys, New
  <1> HIDE DEF refs
  <1>16. Refs("Datastream") = {"Thing", "Sensor", "ObservedProperty", "Network"} /\ 1 # New
    BY DEF Refs, New
  <1> DEFINE all == Resolved(placed, refs)
             last == Associate(placed, refs)
  <1>17. Seed = InsertEntity(last, "Datastream", all)
    <2>1. Seed = InsertDatastream(InsertThing(Empty, <<New>>, <<>>), New, refs)
      BY DEF Seed, Empty, refs
    <2> QED BY <2>1, <1>13, <1>15 DEF InsertDatastream
  <1>18. PICK a \in [0 .. 5 -> From(Empty, {})] :
           /\ a[0] = placed /\ a[5] = last
           /\ a[1] = a[0]
           /\ a[2] = InsertEntity(a[1], "Sensor", NoRefs)
           /\ a[3] = InsertEntity(a[2], "ObservedProperty", NoRefs)
           /\ a[4] = InsertEntity(a[3], "Network", NoRefs)
           /\ a[5] = a[4]
    <2>1. PICK a \in [0 .. 5 -> From(Empty, {})] : Chain(a, placed, refs, last)
      BY <1>1, <1>11, AssociateStays
    <2>2. a[1] = a[0]
      BY <2>1, <1>15, <1>16 DEF Chain, Linked
    <2>3. a[2] = InsertEntity(a[1], "Sensor", NoRefs)
      BY <2>1, <1>15, <1>16 DEF Chain, Linked
    <2>4. a[3] = InsertEntity(a[2], "ObservedProperty", NoRefs)
      BY <2>1, <1>15, <1>16 DEF Chain, Linked
    <2>5. a[4] = InsertEntity(a[3], "Network", NoRefs)
      BY <2>1, <1>15, <1>16 DEF Chain, Linked
    <2>6. a[5] = a[4]
      BY <2>1, <1>15, <1>16 DEF Chain, Linked
    <2> QED BY <2>1, <2>2, <2>3, <2>4, <2>5, <2>6 DEF Chain
  <1> HIDE DEF last
  <1> DEFINE s1 == a[2]
             s2 == a[3]
  <1>19. s1 \in From(Empty, {}) /\ s2 \in From(Empty, {}) /\ last \in From(Empty, {})
    BY <1>18
  <1>20. /\ Inserted(Empty, {}, placed, "Sensor", NoRefs, s1)
         /\ Inserted(Empty, {}, s1, "ObservedProperty", NoRefs, s2)
         /\ Inserted(Empty, {}, s2, "Network", NoRefs, last)
    <2>1. /\ s1 = InsertEntity(placed, "Sensor", NoRefs)
          /\ s2 = InsertEntity(s1, "ObservedProperty", NoRefs)
          /\ last = InsertEntity(s2, "Network", NoRefs)
      BY <1>18
    <2> HIDE DEF s1, s2
    <2> QED BY <1>1, <1>11, <1>19, <2>1, MakeStays
  <1> HIDE DEF s1, s2
  <1>21. Refs("Sensor") = {} /\ Refs("ObservedProperty") = {} /\ Refs("Network") = {}
         /\ "Sensor" \in Type /\ "ObservedProperty" \in Type /\ "Network" \in Type
    BY DEF Refs, Type
  <1>22. s1.ok /\ s1.next = [placed.next EXCEPT !["Sensor"] = @ + 1]
         /\ DOMAIN s1.rows = DOMAIN placed.rows \union {<<"Sensor", 1>>}
    BY <1>12, <1>14, <1>20, <1>21 DEF Inserted
  <1>a. /\ s1.next \in [Type -> Nat] /\ s1.next["ObservedProperty"] = 1 /\ s1.next["Network"] = 1
        /\ \A type \in Type : s1.next[type] \in {1, 2}
    BY <1>14, <1>21, <1>22
  <1>23. s2.ok /\ s2.next = [s1.next EXCEPT !["ObservedProperty"] = @ + 1]
         /\ DOMAIN s2.rows = DOMAIN s1.rows \union {<<"ObservedProperty", 1>>}
    BY <1>20, <1>21, <1>22, <1>a DEF Inserted
  <1>b. /\ s2.next \in [Type -> Nat] /\ s2.next["Network"] = 1
        /\ \A type \in Type : s2.next[type] \in {1, 2}
    BY <1>21, <1>23, <1>a
  <1>24. last.ok /\ last.next = [s2.next EXCEPT !["Network"] = @ + 1]
         /\ DOMAIN last.rows = DOMAIN s2.rows \union {<<"Network", 1>>}
    BY <1>20, <1>21, <1>23, <1>b DEF Inserted
  <1>c. last.next \in [Type -> Nat] /\ last.next["Datastream"] = 1
        /\ \A type \in Type : last.next[type] \in {1, 2}
    <2>1. s2.next["Datastream"] = 1
      BY <1>3, <1>14, <1>21, <1>22, <1>23
    <2> QED BY <1>3, <1>21, <1>24, <1>b, <2>1
  <1>25. /\ Exists(last, "Thing", 1) /\ Exists(last, "Sensor", 1)
         /\ Exists(last, "ObservedProperty", 1) /\ Exists(last, "Network", 1)
    BY <1>12, <1>22, <1>23, <1>24 DEF Exists
  <1>26. /\ all \in Keys("Datastream") /\ all["Thing"] = 1 /\ all["Sensor"] = 1
         /\ all["ObservedProperty"] = 1 /\ all["Network"] = 1
    <2>1. all \in Keys("Datastream")
      BY <1>3, <1>14, <1>15, ResolvedKeys
    <2> QED BY <2>1, <1>14, <1>15, <1>16, <1>21 DEF Resolved
  <1> HIDE DEF all
  <1>27. Inserted(Empty, {}, last, "Datastream", all, Seed)
    <2> DEFINE open == {}
    <2>1. last \in From(Empty, open)
      BY <1>19
    <2> HIDE DEF open
    <2>2. Inserted(Empty, open, last, "Datastream", all, InsertEntity(last, "Datastream", all))
      BY <1>1, <1>3, <1>26, <2>1, InsertStays
    <2> QED BY <2>2, <1>17 DEF open
  <1>28. \A key \in Refs("Datastream") : Exists(last, key, all[key])
    BY <1>16, <1>25, <1>26
  <1>29. Seed \in From(Empty, {}) /\ Seed.ok /\ Seed.next = [last.next EXCEPT !["Datastream"] = @ + 1]
    BY <1>24, <1>27, <1>28 DEF Inserted
  <1>30. \A type \in Type : Seed.next[type] <= 2
    <2>1. \A type \in Type : Seed.next[type] \in {1, 2}
      BY <1>3, <1>29, <1>c
    <2> QED BY <2>1
  <1>31. Seed \in Graphs
    BY <1>29 DEF From
  <1>32. Seed.next["HistoricalLocation"] >= Seed.next["HistoricalLocation"]
    BY <1>31, GraphFields DEF Type
  <1>33. Seed \in From(Seed, {})
    BY <1>29, <1>31, <1>32 DEF From
  <1> QED BY <1>29, <1>30, <1>31, <1>33

LEMMA InitInv ==
    ASSUME GraphInit
    PROVE  GraphInv
  <1>1. graph = Seed
    BY DEF GraphInit
  <1>2. 2 <= MaxId + 1 /\ MaxId + 1 \in Nat
    BY GraphAssumption
  <1>3. \A type \in Type : Seed.next[type] \in Nat
    BY SeedFields, GraphFields
  <1>4. Within(Seed)
    BY <1>2, <1>3, SeedFields DEF Within
  <1> QED BY <1>1, <1>2, <1>4, SeedFields DEF GraphInv

-----------------------------------------------------------------------------
(* Theorems.                                                               *)

LEMMA InvHolds == GraphSpec => []GraphInv
  <1>1. GraphInit => GraphInv
    BY InitInv
  <1>2. GraphInv /\ [GraphNext]_graphVars => GraphInv'
    BY StepKeeps DEF Kept
  <1> QED BY <1>1, <1>2, PTL DEF GraphSpec

LEMMA RequestsAreCounted == GraphSpec => [](requests \in 0 .. MaxRequests)
  <1>1. GraphInit => requests \in 0 .. MaxRequests
    BY GraphAssumption DEF GraphInit
  <1>2. requests \in 0 .. MaxRequests /\ [GraphNext]_graphVars => (requests \in 0 .. MaxRequests)'
    BY GraphAssumption DEF GraphNext, graphVars
  <1> QED BY <1>1, <1>2, PTL DEF GraphSpec

\* Rows, their foreign keys and the ids of the next ones are what create_entity makes of
\* them, whatever the requests.
THEOREM GraphTypeHolds == GraphSpec => []GraphTypeOK
  <1>1. GraphInv /\ requests \in 0 .. MaxRequests => GraphTypeOK
    <2> SUFFICES ASSUME GraphInv, requests \in 0 .. MaxRequests PROVE GraphTypeOK
      OBVIOUS
    <2>1. graph \in Graphs /\ Complete(graph) /\ graph.ok /\ Sound(graph)
      BY DEF GraphInv, From
    <2>2. ASSUME NEW e \in DOMAIN graph.rows
          PROVE  e \in Type \X (1 .. MaxId) /\ DOMAIN graph.rows[e] = Refs(e[1])
      <3>1. e \in Entity /\ graph.rows[e] \in Keys(e[1]) /\ e[2] < graph.next[e[1]]
        BY <2>1, GraphFields DEF Complete
      <3>2. e[1] \in Type /\ e[2] \in Nat \ {0} /\ graph.next[e[1]] \in Nat
            /\ graph.next[e[1]] <= MaxId + 1
        BY <2>1, <3>1, GraphFields DEF Entity, GraphInv, Within
      <3>3. e[2] \in 1 .. MaxId /\ e = <<e[1], e[2]>>
        BY <3>1, <3>2, GraphAssumption DEF Entity
      <3> QED BY <3>1, <3>2, <3>3 DEF Keys
    <2>3. \A type, id : Exists(graph, type, id) => id \in 1 .. MaxId
      BY <2>2 DEF Exists
    <2>4. graph.at \subseteq (1 .. MaxId) \X (1 .. MaxId)
      BY <2>1, <2>3, GraphFields DEF Sound
    <2>5. graph.seen \subseteq (1 .. MaxId) \X (1 .. MaxId)
      BY <2>1, <2>3, GraphFields DEF Sound
    <2>6. graph.next \in [Type -> 1 .. MaxId + 1]
      <3>1. graph.next \in [Type -> Nat \ {0}] /\ \A type \in Type : graph.next[type] <= MaxId + 1
        BY <2>1, GraphFields DEF GraphInv, Within
      <3>2. \A type \in Type : graph.next[type] \in 1 .. MaxId + 1
        BY <3>1, GraphAssumption
      <3> QED BY <3>1, <3>2
    <2> QED BY <2>1, <2>2, <2>4, <2>5, <2>6 DEF GraphTypeOK, GraphInv
  <1> QED BY <1>1, InvHolds, RequestsAreCounted, PTL

\* No request leaves a key without its row: deep inserts, nested links, moves and the
\* two levels of ON DELETE CASCADE included.
THEOREM NoOrphansHold == GraphSpec => []NoOrphans
  <1>1. GraphInv => NoOrphans
    BY DEF GraphInv, From, Sound, NoOrphans
  <1> QED BY <1>1, InvHolds, PTL

\* Each endpoint that puts a Thing at a Location also inserts the HistoricalLocation
\* that says so.
THEOREM EveryMoveIsRecorded == GraphSpec => EveryMoveRecorded
  <1>1. GraphInv /\ [GraphNext]_graphVars => [Recorded]_graphVars
    BY StepKeeps DEF Kept
  <1>2. GraphSpec => [][Recorded]_graphVars
    BY <1>1, InvHolds, PTL DEF GraphSpec
  <1> QED BY <1>2 DEF EveryMoveRecorded, Recorded
=============================================================================
