------------------------ MODULE DatastreamTimeProofs ------------------------
(***************************************************************************)
(* Theorems about DatastreamTime: the types (no request ever leaves a      *)
(* range whose bounds are in the wrong order), that ranges cover what is   *)
(* inserted and PATCHed, that what is deleted stays deleted, and that      *)
(* ranges are exact when requests come one after the other.                *)
(*                                                                         *)
(* Neither TimesCovered nor TimesTight is inductive: both are about what   *)
(* is committed, and hold because of what open requests have written and   *)
(* still hold.  GInv says of each inserting or patching request which rows *)
(* it holds and when the range it holds covers them.  SInv says of the     *)
(* only open request which ranges, as it sees them, are due, and that it   *)
(* knows how to make them right: for a DELETE of one Observation, that the *)
(* range is the one with the time of that Observation still in it.         *)
(***************************************************************************)
EXTENDS DatastreamTime, FiniteSetTheorems, WellFoundedInduction, TLAPS

-----------------------------------------------------------------------------
(* Bounds of finite sets of instants, and ranges.                          *)

\* A finite set of numbers that is not empty has a smallest and a largest one.  By
\* well-foundedness of strict inclusion: remove an element from a smallest set without.
LEMMA FiniteBounds ==
    ASSUME NEW S \in SUBSET Nat, IsFiniteSet(S), S # {}
    PROVE  /\ \E x \in S : \A y \in S : x <= y
           /\ \E x \in S : \A y \in S : x >= y
  <1> DEFINE Bounded(T) == /\ \E x \in T : \A y \in T : x <= y
                           /\ \E x \in T : \A y \in T : x >= y
             Bad == {T \in FiniteSubsetsOf(S) : T # {} /\ ~Bounded(T)}
  <1>1. ASSUME Bad # {} PROVE FALSE
    <2>1. IsWellFoundedOn(StrictSubsetOrdering(S), FiniteSubsetsOf(S))
      BY FS_StrictSubsetOrderingWellFounded
    <2>2. Bad \subseteq FiniteSubsetsOf(S)
      OBVIOUS
    <2> HIDE DEF Bad
    <2>3. PICK T \in Bad : \A U \in Bad : ~(<<U, T>> \in StrictSubsetOrdering(S))
      BY <1>1, <2>1, <2>2, WFMin
    <2>4. T \in SUBSET S /\ IsFiniteSet(T) /\ T # {} /\ ~Bounded(T)
      BY <2>3 DEF Bad, FiniteSubsetsOf
    <2>5. PICK x \in T : TRUE
      BY <2>4
    <2>6. x \in Nat /\ T \subseteq Nat
      BY <2>4, <2>5
    <2> DEFINE U == T \ {x}
    <2>7. IsFiniteSet(U) /\ U \in SUBSET S
      BY <2>4, FS_RemoveElement
    <2>8. U \notin Bad
      BY <2>3, <2>4, <2>5, <2>7 DEF StrictSubsetOrdering, FiniteSubsetsOf
    <2>9. U # {} => Bounded(U)
      BY <2>7, <2>8 DEF Bad, FiniteSubsetsOf
    <2>10. CASE U = {}
      BY <2>4, <2>5, <2>6, <2>10
    <2>11. CASE U # {}
      <3>1. PICK l \in U : \A y \in U : l <= y
        BY <2>9, <2>11
      <3>2. PICK h \in U : \A y \in U : h >= y
        BY <2>9, <2>11
      <3>3. l \in Nat /\ h \in Nat /\ l \in T /\ h \in T /\ \A y \in T : y = x \/ y \in U
        BY <2>6, <3>1, <3>2
      <3>4. \E z \in T : \A y \in T : z <= y
        <4>1. CASE l <= x
          BY <3>1, <3>3, <4>1
        <4>2. CASE ~(l <= x)
          BY <2>5, <2>6, <3>1, <3>3, <4>2
        <4> QED BY <4>1, <4>2
      <3>5. \E z \in T : \A y \in T : z >= y
        <4>1. CASE h >= x
          BY <3>2, <3>3, <4>1
        <4>2. CASE ~(h >= x)
          BY <2>5, <2>6, <3>2, <3>3, <4>2
        <4> QED BY <4>1, <4>2
      <3> QED BY <2>4, <3>4, <3>5
    <2> QED BY <2>10, <2>11
  <1>2. S \in FiniteSubsetsOf(S) /\ S \notin Bad
    BY <1>1 DEF FiniteSubsetsOf
  <1> QED BY <1>2

\* Min and Max of a finite set of numbers.
LEMMA MinMax ==
    ASSUME NEW S \in SUBSET Nat, IsFiniteSet(S), S # {}
    PROVE  /\ Min(S) \in S /\ \A y \in S : Min(S) <= y
           /\ Max(S) \in S /\ \A y \in S : Max(S) >= y
  BY FiniteBounds DEF Min, Max

\* Widening a range covers what it covered and the time added.
LEMMA WidenCovers ==
    ASSUME NEW g \in Period \union {NoRange}, NEW h \in Period
    PROVE  /\ Widen(g, h) \in Period
           /\ Covers(Widen(g, h), h)
           /\ g # NoRange => Covers(Widen(g, h), g)
  <1>1. CASE g = NoRange
    <2>1. Widen(g, h) = h /\ h # NoRange
      BY <1>1, NoRangeAssumption DEF Widen
    <2>2. h.lo \in Nat /\ h.hi \in Nat
      BY TimeAssumption DEF Period
    <2> QED BY <1>1, <2>1, <2>2 DEF Covers
  <1>2. CASE g # NoRange
    <2>1. /\ g \in Period /\ {g.lo, h.lo} \in SUBSET Nat /\ {g.hi, h.hi} \in SUBSET Nat
          /\ {g.lo, h.lo, g.hi, h.hi} \subseteq Time
      BY <1>2, TimeAssumption DEF Period
    <2>2. IsFiniteSet({g.lo, h.lo}) /\ IsFiniteSet({g.hi, h.hi})
      BY <2>1, TimeAssumption, FS_Subset
    <2> DEFINE l == Min({g.lo, h.lo})
               u == Max({g.hi, h.hi})
    <2>3. /\ l \in {g.lo, h.lo} /\ l <= g.lo /\ l <= h.lo
          /\ u \in {g.hi, h.hi} /\ u >= g.hi /\ u >= h.hi
      BY <2>1, <2>2, MinMax
    <2>4. Widen(g, h) = [lo |-> l, hi |-> u]
      BY <1>2 DEF Widen
    <2> HIDE DEF l, u
    <2>5. [lo |-> l, hi |-> u] \in Period
      BY <2>1, <2>3, TimeAssumption DEF Period
    <2> QED BY <2>1, <2>3, <2>4, <2>5, NoRangeAssumption, TimeAssumption DEF Covers, Period
  <1> QED BY <1>1, <1>2

\* What covers a range covers what that one covers.
LEMMA CoversTransitive ==
    ASSUME NEW f \in Period \union {NoRange}, NEW g \in Period \union {NoRange}, NEW h \in Period,
           Covers(f, g), Covers(g, h)
    PROVE  Covers(f, h)
  <1>1. f \in Period /\ g \in Period /\ f # NoRange
    BY DEF Covers
  <1>2. /\ f.lo \in Nat /\ f.hi \in Nat /\ g.lo \in Nat /\ g.hi \in Nat
        /\ h.lo \in Nat /\ h.hi \in Nat
    BY <1>1, TimeAssumption DEF Period
  <1> QED BY <1>1, <1>2 DEF Covers

\* The range of some times covers each of them, and each of its bounds is one of theirs.
LEMMA HullBounds ==
    ASSUME NEW gs \in SUBSET Period
    PROVE  /\ Hull(gs) \in Period \union {NoRange}
           /\ gs = {} <=> Hull(gs) = NoRange
           /\ gs # {} => /\ Hull(gs) \in Period
                         /\ \A g \in gs : Hull(gs).lo <= g.lo /\ g.hi <= Hull(gs).hi
                         /\ \E g \in gs : Hull(gs).lo = g.lo
                         /\ \E g \in gs : Hull(gs).hi = g.hi
  <1>1. CASE gs = {}
    BY <1>1 DEF Hull
  <1>2. CASE gs # {}
    <2> DEFINE L == {Lower(g) : g \in gs}
               U == {Upper(g) : g \in gs}
    <2>1. L \in SUBSET Time /\ U \in SUBSET Time /\ L # {} /\ U # {}
      BY <1>2 DEF Lower, Upper, Period
    <2>2. L \in SUBSET Nat /\ U \in SUBSET Nat /\ IsFiniteSet(L) /\ IsFiniteSet(U)
      BY <2>1, TimeAssumption, FS_Subset
    <2>3. /\ Min(L) \in L /\ \A y \in L : Min(L) <= y
          /\ Max(U) \in U /\ \A y \in U : Max(U) >= y
      <3> HIDE DEF L, U
      <3> QED BY <2>1, <2>2, MinMax
    <2>4. Hull(gs) = [lo |-> Min(L), hi |-> Max(U)]
      BY <1>2 DEF Hull
    <2> DEFINE l == Min(L)
               u == Max(U)
    <2>5. l \in Time /\ u \in Time
      BY <2>1, <2>3
    <2>6. /\ \E g \in gs : l = g.lo
          /\ \E g \in gs : u = g.hi
          /\ \A g \in gs : l <= g.lo /\ g.hi <= u
      <3>1. \A g \in gs : g.lo \in L /\ g.hi \in U /\ g.hi \in Nat
        BY TimeAssumption DEF Lower, Upper, Period
      <3>2. u \in Nat
        BY <2>5, TimeAssumption
      <3>3. \A g \in gs : u >= g.hi
        BY <2>3, <3>1
      <3> QED BY <2>3, <3>1, <3>2, <3>3 DEF Lower, Upper
    <2> HIDE DEF l, u, L, U
    <2>7. l <= u
      <3>1. PICK g \in gs : TRUE
        BY <1>2
      <3>2. l <= g.lo /\ g.lo <= g.hi /\ g.hi <= u /\ g.lo \in Nat /\ g.hi \in Nat
        BY <2>6, <3>1, TimeAssumption DEF Period
      <3> QED BY <2>5, <3>2, TimeAssumption
    <2>8. [lo |-> l, hi |-> u] \in Period
      BY <2>5, <2>7 DEF Period
    <2>9. Hull(gs) = [lo |-> l, hi |-> u]
      BY <2>4 DEF l, u
    <2> QED BY <1>2, <2>6, <2>8, <2>9, NoRangeAssumption
  <1> QED BY <1>1, <1>2

\* There is one such range.
LEMMA HullUnique ==
    ASSUME NEW gs \in SUBSET Period, NEW h \in Period,
           \A g \in gs : h.lo <= g.lo /\ g.hi <= h.hi,
           NEW a \in gs, h.lo = a.lo, NEW b \in gs, h.hi = b.hi
    PROVE  Hull(gs) = h
  <1> DEFINE k == Hull(gs)
  <1>1. /\ k \in Period /\ \A g \in gs : k.lo <= g.lo /\ g.hi <= k.hi
        /\ \E g \in gs : k.lo = g.lo
        /\ \E g \in gs : k.hi = g.hi
    BY HullBounds
  <1> HIDE DEF k
  <1>2. k.lo <= h.lo /\ h.lo <= k.lo /\ k.hi <= h.hi /\ h.hi <= k.hi
    BY <1>1
  <1>3. /\ k.lo \in Nat /\ k.hi \in Nat /\ h.lo \in Nat /\ h.hi \in Nat
        /\ k \in [lo : Time, hi : Time] /\ h \in [lo : Time, hi : Time]
    BY <1>1, TimeAssumption DEF Period
  <1>4. k.lo = h.lo /\ k.hi = h.hi
    BY <1>2, <1>3
  <1>5. k = [lo |-> k.lo, hi |-> k.hi] /\ h = [lo |-> h.lo, hi |-> h.hi]
    BY <1>3
  <1> QED BY <1>4, <1>5 DEF k

\* Widening the range of some times by another one gives the range of all of them.
LEMMA WidenHull ==
    ASSUME NEW gs \in SUBSET Period, NEW g \in Period
    PROVE  Widen(Hull(gs), g) = Hull(gs \union {g})
  <1>0. g.lo \in Nat /\ g.hi \in Nat /\ g.lo <= g.hi
    BY TimeAssumption DEF Period
  <1>1. CASE gs = {}
    <2>1. Hull({g}) = g
      <3>1. \A x \in {g} : g.lo <= x.lo /\ x.hi <= g.hi
        BY <1>0
      <3> QED BY <3>1, HullUnique
    <2>2. Hull(gs) = NoRange
      BY <1>1, HullBounds
    <2> QED BY <1>1, <2>1, <2>2 DEF Widen
  <1>2. CASE gs # {}
    <2> DEFINE h == Hull(gs)
               w == Widen(h, g)
    <2>1. /\ h \in Period /\ \A x \in gs : h.lo <= x.lo /\ x.hi <= h.hi
          /\ \E x \in gs : h.lo = x.lo
          /\ \E x \in gs : h.hi = x.hi
      BY <1>2, HullBounds
    <2> HIDE DEF h
    <2>2. w \in Period /\ Covers(w, g) /\ Covers(w, h) /\ h # NoRange
      BY <2>1, WidenCovers, NoRangeAssumption
    <2>3. w.lo \in {h.lo, g.lo} /\ w.hi \in {h.hi, g.hi}
      <3>1. /\ {h.lo, g.lo} \in SUBSET Nat /\ {h.hi, g.hi} \in SUBSET Nat
            /\ {h.lo, g.lo, h.hi, g.hi} \subseteq Time
        BY <2>1, TimeAssumption DEF Period
      <3>2. IsFiniteSet({h.lo, g.lo}) /\ IsFiniteSet({h.hi, g.hi})
        BY <3>1, TimeAssumption, FS_Subset
      <3>3. Min({h.lo, g.lo}) \in {h.lo, g.lo} /\ Max({h.hi, g.hi}) \in {h.hi, g.hi}
        BY <3>1, <3>2, MinMax
      <3> QED BY <2>2, <3>3 DEF Widen
    <2> HIDE DEF w
    <2>4. /\ w.lo <= h.lo /\ w.lo <= g.lo /\ h.hi <= w.hi /\ g.hi <= w.hi
          /\ w.lo \in Nat /\ w.hi \in Nat /\ h.lo \in Nat /\ h.hi \in Nat
          /\ \A x \in gs : x.lo \in Nat /\ x.hi \in Nat
      BY <2>1, <2>2, TimeAssumption DEF Covers, Period
    <2>5. \A x \in gs \union {g} : w.lo <= x.lo /\ x.hi <= w.hi
      BY <1>0, <2>1, <2>4
    <2>6. /\ \E x \in gs \union {g} : w.lo = x.lo
          /\ \E x \in gs \union {g} : w.hi = x.hi
      BY <2>1, <2>3
    <2>7. Hull(gs \union {g}) = w
      BY <2>2, <2>5, <2>6, HullUnique
    <2> QED BY <2>7 DEF w, h
  <1> QED BY <1>1, <1>2

\* The bounds looked up again when one of some times is removed are those of the rest.
LEMMA NextBoundsHull ==
    ASSUME NEW gs \in SUBSET Period, NEW old \in Period
    PROVE  NextBounds(Hull(gs \union {old}), old, gs) = Hull(gs)
  <1> DEFINE g == Hull(gs \union {old})
  <1>1. /\ g \in Period /\ g # NoRange
        /\ \A x \in gs \union {old} : g.lo <= x.lo /\ x.hi <= g.hi
        /\ \E x \in gs \union {old} : g.lo = x.lo
        /\ \E x \in gs \union {old} : g.hi = x.hi
    BY HullBounds, NoRangeAssumption
  <1> HIDE DEF g
  <1>2. CASE gs = {}
    <2>1. g.lo = old.lo /\ Hull(gs) = NoRange
      BY <1>1, <1>2, HullBounds
    <2>2. NextBounds(g, old, gs) = NoRange
      BY <1>2, <2>1 DEF NextBounds
    <2> QED BY <2>1, <2>2 DEF g
  <1>3. CASE gs # {}
    <2> DEFINE h == Hull(gs)
    <2>1. /\ h \in Period /\ \A x \in gs : h.lo <= x.lo /\ x.hi <= h.hi
          /\ \E x \in gs : h.lo = x.lo
          /\ \E x \in gs : h.hi = x.hi
      BY <1>3, HullBounds
    <2> HIDE DEF h
    <2>2. /\ \A x \in gs : x.lo \in Nat /\ x.hi \in Nat
          /\ h.lo \in Nat /\ h.hi \in Nat /\ g.lo \in Nat /\ g.hi \in Nat
          /\ h \in [lo : Time, hi : Time]
      BY <1>1, <2>1, TimeAssumption DEF Period
    <2>3. g.lo # old.lo => g.lo = h.lo
      <3> SUFFICES ASSUME g.lo # old.lo PROVE g.lo = h.lo
        OBVIOUS
      <3>1. PICK x \in gs : g.lo = x.lo
        BY <1>1
      <3>2. h.lo <= g.lo
        BY <2>1, <3>1
      <3>3. g.lo <= h.lo
        BY <1>1, <2>1
      <3> QED BY <2>2, <3>2, <3>3
    <2>4. g.hi # old.hi => g.hi = h.hi
      <3> SUFFICES ASSUME g.hi # old.hi PROVE g.hi = h.hi
        OBVIOUS
      <3>1. PICK x \in gs : g.hi = x.hi
        BY <1>1
      <3>2. g.hi <= h.hi
        BY <2>1, <3>1
      <3>3. h.hi <= g.hi
        BY <1>1, <2>1
      <3> QED BY <2>2, <3>2, <3>3
    <2>5. h = [lo |-> h.lo, hi |-> h.hi]
      BY <2>2
    <2>6. NextBounds(g, old, gs) = [lo |-> IF g.lo = old.lo THEN h.lo ELSE g.lo,
                                    hi |-> IF g.hi = old.hi THEN h.hi ELSE g.hi]
      BY <1>1, <1>3 DEF NextBounds, h
    <2>7. NextBounds(g, old, gs) = h
      BY <2>3, <2>4, <2>5, <2>6
    <2> QED BY <2>7 DEF g, h
  <1> QED BY <1>2, <1>3

-----------------------------------------------------------------------------
(* Types.                                                                  *)

\* Where a request of each kind can be.
StepsOf(kind) ==
    CASE kind = "post" -> {"idle", "insert", "widen", "commit"}
      [] kind = "replace" -> {"set", "commit"}
      [] kind = "link" -> {"look", "write", "commit"}
      [] kind = "change" -> {"look", "write", "widen", "commit"}
      [] kind = "delete" -> {"look", "write", "measure", "replace", "commit"}
      [] kind = "filtered" -> {"look", "start", "write", "measure", "replace", "commit"}
      [] OTHER -> {"look", "start", "write", "measure", "replace", "insert", "widen", "commit"}

\* What a request knows at each of its steps: its Datastream and the time at hand.
Knows(q) ==
    /\ q.pc \in StepsOf(q.kind) \union Ended
    /\ q.pc = "idle" => q = Idle
    /\ (q.kind \in {"post", "link", "force", "replace"} /\ q.pc \notin Ended \union {"idle"}) =>
          q.ds \in Datastream
    /\ (q.kind \in {"post", "change", "filtered", "force"} /\ q.pc \notin Ended \union {"idle"}) =>
          q.g \in Period
    /\ q.pc = "widen" => q.ds \in Datastream
    /\ q.kind = "change" /\ q.stale # {} => q.ds \in Datastream
    /\ q.pc = "replace" => q.here \in Datastream

\* Every request knows that, and the variables have their types.
Known == \A r \in Req : Knows(req[r])

TInv == TypeOK /\ Known

\* What a statement sees is typed.
LEMMA SeenTypes ==
    ASSUME TypeOK, NEW r \in Req
    PROVE  /\ \A o \in Req : SeenObs(r, o) \in ObsRow \union {NoRow}
           /\ \A d \in Datastream : SeenTime(r, d) \in Period \union {NoRange}
           /\ \A d \in Datastream : Times(r, d) \in SUBSET Period
  <1>1. \A o \in Req : SeenObs(r, o) \in ObsRow \union {NoRow}
    BY DEF TypeOK, SeenObs
  <1>2. \A d \in Datastream : SeenTime(r, d) \in Period \union {NoRange}
    BY DEF TypeOK, SeenTime
  <1>3. \A d \in Datastream : Times(r, d) \in SUBSET Period
    BY <1>1 DEF Times, ObsRow
  <1> QED BY <1>1, <1>2, <1>3

\* A step of r changes what r is doing and leaves the other requests alone.
LEMMA RequestStep ==
    ASSUME TInv, NEW r \in Req, NEW q, req' = [req EXCEPT ![r] = q], q \in Request, Knows(q)
    PROVE  req' \in [Req -> Request] /\ Known' /\ \A s \in Req : s # r => req'[s] = req[s]
  BY DEF TInv, TypeOK, Known

\* What r does to an Observation it writes.
LEMMA ChangedType ==
    ASSUME TInv, NEW r \in Req, req[r].pc = "write", NEW row \in ObsRow
    PROVE  Changed(r, row) \in ObsRow \union {NoRow}
  <1>1. Knows(req[r])
    BY DEF TInv, Known
  <1>2. CASE req[r].kind = "change"
    <2>1. req[r].g \in Period
      BY <1>1, <1>2 DEF Knows, Ended
    <2> DEFINE new == [row EXCEPT !.g = req[r].g, !.at = row.at + 1]
    <2>2. Changed(r, row) = new
      BY <1>2 DEF Changed
    <2> DEFINE n == row.at + 1
    <2>3. n \in Nat /\ new = [row EXCEPT !.g = req[r].g, !.at = n]
      BY DEF ObsRow
    <2> HIDE DEF n
    <2>4. new \in ObsRow
      BY <2>1, <2>3 DEF ObsRow
    <2> QED BY <2>2, <2>4
  <1>3. CASE req[r].kind = "link"
    <2>1. req[r].ds \in Datastream
      BY <1>1, <1>3 DEF Knows, Ended
    <2> QED BY <1>3, <2>1 DEF Changed, ObsRow
  <1> QED BY <1>2, <1>3 DEF Changed

\* Every step takes its request to one it may be at, knowing what it must.
LEMMA StepKnows ==
    ASSUME TInv, NEW r \in Req, Begin(r) \/ Step(r)
    PROVE  \E q \in Request : req' = [req EXCEPT ![r] = q] /\ Knows(q)
  <1> DEFINE q == req[r]
             Goal == \E p \in Request : req' = [req EXCEPT ![r] = p] /\ Knows(p)
  <1> SUFFICES Goal
    OBVIOUS
  <1>0. /\ q \in Request /\ Knows(q)
        /\ \A o \in Req : SeenObs(r, o) \in ObsRow \union {NoRow}
    BY SeenTypes DEF TInv, TypeOK, Known
  <1>1. CASE Begin(r)
    <2>1. PICK kind \in Kinds,
               d \in Datastream \union {NoRow}, g \in Period \union {NoRange},
               n \in {"insert", "set", "look"} :
            /\ req' = [req EXCEPT ![r] = [Idle EXCEPT !.kind = kind, !.ds = d, !.g = g, !.pc = n]]
            /\ kind \in {"post", "link", "force", "replace"} => d \in Datastream
            /\ kind \notin {"delete", "link", "replace"} => g \in Period
            /\ n = "insert" <=> kind = "post"
            /\ n = "set" <=> kind = "replace"
      BY <1>1, ZenonT(60) DEF Begin
    <2> DEFINE p == [Idle EXCEPT !.kind = kind, !.ds = d, !.g = g, !.pc = n]
    <2>2. kind \in AllKinds
      BY KindsAssumption
    <2>3. p \in Request
      BY <2>1, <2>2 DEF Idle, Request, Steps
    <2>4. Knows(p)
      BY <2>1, <2>2 DEF Idle, Knows, StepsOf, Ended, AllKinds
    <2> QED BY <2>1, <2>3, <2>4
  <1>2. CASE Look(r)
    <2>1. PICK s \in Named(r) :
            req' = [req EXCEPT ![r] =
              [q EXCEPT !.pc = IF q.kind \in {"filtered", "force"} THEN "start" ELSE "write",
                        !.todo = {<<o, obs[o].at>> : o \in s}]]
      BY <1>2 DEF Look
    <2> DEFINE t == {<<o, obs[o].at>> : o \in s}
               p == [q EXCEPT !.pc = IF q.kind \in {"filtered", "force"} THEN "start" ELSE "write",
                              !.todo = t]
    <2>2. q.pc = "look"
      BY <1>2 DEF Look
    <2>3. t \in SUBSET (Req \X Nat)
      BY <2>1 DEF Named, TInv, TypeOK, ObsRow
    <2> HIDE DEF q, t
    <2>4. p \in Request
      BY <1>0, <2>2, <2>3, ZenonT(60) DEF Request, Steps
    <2>5. Knows(p)
      BY <1>0, <2>2, <2>3 DEF Request, Knows, StepsOf, Ended, AllKinds, Idle
    <2> USE DEF q, t
    <2> QED BY <2>1, <2>4, <2>5
  <1>3. CASE Start(r)
    <2> DEFINE t == {<<o, obs[o].at>> : o \in {p[1] : p \in {x \in q.todo : obs[x[1]] # NoRow}}}
               p == [q EXCEPT !.pc = "write", !.todo = t]
    <2>1. req' = [req EXCEPT ![r] = p] /\ q.pc = "start"
      BY <1>3 DEF Start
    <2>2. t \in SUBSET (Req \X Nat)
      <3>1. q.todo \in SUBSET (Req \X Nat)
        BY <1>0 DEF Request
      <3>2. \A x \in q.todo : x[1] \in Req
        BY <3>1
      <3>3. \A o \in Req : obs[o] # NoRow => obs[o].at \in Nat
        BY DEF TInv, TypeOK, ObsRow
      <3> QED BY <3>2, <3>3
    <2> HIDE DEF q, t
    <2>3. p \in Request
      BY <1>0, <2>1, <2>2 DEF Request, Steps
    <2>4. Knows(p)
      BY <1>0, <2>1, <2>2 DEF Request, Knows, StepsOf, Ended, AllKinds, Idle
    <2> QED BY <2>1, <2>3, <2>4
  <1>4. CASE Write(r)
    <2>0. q.pc = "write"
      BY <1>4 DEF Write
    <2>1. PICK x \in q.todo :
            LET row == SeenObs(r, x[1])
                same == row # NoRow /\ row.at = x[2] IN
            req' = [req EXCEPT
              ![r].todo = @ \ {x},
              ![r].old = IF same THEN row.g ELSE @,
              ![r].ds = IF same /\ req[r].kind = "change" THEN row.ds ELSE @,
              ![r].stale = IF same THEN @ \union {row.ds} ELSE @]
      BY <1>4 DEF Write
    <2>2. x[1] \in Req
      BY <1>0, <2>1 DEF Request
    <2> DEFINE row == SeenObs(r, x[1])
    <2>3. row \in ObsRow \union {NoRow}
      BY <1>0, <2>2
    <2>4. CASE row # NoRow /\ row.at = x[2]
      <3> DEFINE p == [q EXCEPT !.todo = q.todo \ {x}, !.old = row.g,
                                !.ds = IF q.kind = "change" THEN row.ds ELSE q.ds,
                                !.stale = q.stale \union {row.ds}]
      <3>1. req' = [req EXCEPT ![r] = p]
        <4>1. req' = [req EXCEPT ![r].todo = @ \ {x}, ![r].old = row.g,
                                 ![r].ds = IF q.kind = "change" THEN row.ds ELSE @,
                                 ![r].stale = @ \union {row.ds}]
          BY <2>1, <2>4
        <4> QED BY <4>1, <1>0 DEF TInv, TypeOK
      <3> HIDE DEF q, row
      <3>2. p \in Request
        BY <1>0, <2>0, <2>3, <2>4 DEF Request, ObsRow
      <3>3. Knows(p)
        BY <1>0, <2>0, <2>3, <2>4 DEF Request, Knows, StepsOf, Ended, ObsRow, AllKinds
      <3> QED BY <3>1, <3>2, <3>3
    <2>5. CASE ~(row # NoRow /\ row.at = x[2])
      <3> DEFINE p == [q EXCEPT !.todo = q.todo \ {x}]
      <3>1. req' = [req EXCEPT ![r] = [q EXCEPT !.todo = q.todo \ {x}, !.old = q.old,
                                                !.ds = q.ds, !.stale = q.stale]]
        <4>1. req' = [req EXCEPT ![r].todo = @ \ {x}, ![r].old = @, ![r].ds = @,
                                 ![r].stale = @]
          BY <2>1, <2>5
        <4> QED BY <4>1, <1>0 DEF TInv, TypeOK
      <3> HIDE DEF q, row
      <3>2. p = [q EXCEPT !.todo = q.todo \ {x}, !.old = q.old, !.ds = q.ds,
                          !.stale = q.stale]
        BY <1>0 DEF Request
      <3>3. p \in Request
        BY <1>0 DEF Request
      <3>4. Knows(p)
        BY <1>0, <2>0 DEF Request, Knows, StepsOf, Ended, AllKinds
      <3> QED BY <3>1, <3>2, <3>3, <3>4 DEF q
    <2> QED BY <2>4, <2>5
  <1>5. CASE Written(r)
    <2>0. PICK n \in {"insert", "commit", "widen", "measure"} :
            /\ req' = [req EXCEPT ![r] = [q EXCEPT !.pc = n]]
            /\ n = "insert" => q.kind = "force"
            /\ n = "widen" => q.kind = "change" /\ q.stale # {}
            /\ n = "measure" => q.kind \notin {"link", "change"}
      BY <1>5 DEF Written
    <2> DEFINE p == [q EXCEPT !.pc = n]
    <2>1. q.pc = "write"
      BY <1>5 DEF Written
    <2> HIDE DEF q
    <2>2. p \in Request
      BY <1>0, <2>0 DEF Request, Steps
    <2>3. Knows(p)
      BY <1>0, <2>0, <2>1 DEF Request, Knows, StepsOf, Ended, AllKinds
    <2> QED BY <2>0, <2>2, <2>3 DEF q
  <1>6. CASE Insert(r) \/ SetTime(r) \/ WidenTime(r)
    <2>0. PICK n \in {"widen", "commit"} :
            /\ req' = [req EXCEPT ![r] = [q EXCEPT !.pc = n]]
            /\ \/ n = "widen" /\ q.pc = "insert"
               \/ n = "commit" /\ q.pc \in {"set", "widen"}
      BY <1>6 DEF Insert, SetTime, WidenTime
    <2> DEFINE p == [q EXCEPT !.pc = n]
    <2> HIDE DEF q
    <2>2. p \in Request
      BY <1>0, <2>0 DEF Request, Steps
    <2>3. Knows(p)
      BY <1>0, <2>0 DEF Request, Knows, StepsOf, Ended, AllKinds
    <2> QED BY <2>0, <2>2, <2>3 DEF q
  <1>7. CASE Measure(r)
    <2>1. PICK d \in q.stale :
            /\ Remeasured(r, d) \in Period \union {NoRange}
            /\ req' = [req EXCEPT ![r] =
                 [q EXCEPT !.pc = "replace", !.stale = q.stale \ {d}, !.here = d,
                           !.next = Remeasured(r, d)]]
      BY <1>7 DEF Measure
    <2> DEFINE p == [q EXCEPT !.pc = "replace", !.stale = q.stale \ {d}, !.here = d,
                              !.next = Remeasured(r, d)]
    <2>2. q.pc = "measure"
      BY <1>7 DEF Measure
    <2> HIDE DEF q
    <2>3. p \in Request
      BY <1>0, <2>1, <2>2 DEF Request, Steps
    <2>4. Knows(p)
      BY <1>0, <2>1, <2>2 DEF Request, Knows, StepsOf, Ended, AllKinds
    <2> QED BY <2>1, <2>3, <2>4 DEF q
  <1>8. CASE Replace(r)
    <2>0. PICK n \in {"measure", "insert", "commit"} :
            /\ req' = [req EXCEPT ![r] = [q EXCEPT !.pc = n]]
            /\ n = "insert" => q.kind = "force"
      BY <1>8 DEF Replace
    <2> DEFINE p == [q EXCEPT !.pc = n]
    <2>1. q.pc = "replace"
      BY <1>8 DEF Replace
    <2> HIDE DEF q
    <2>2. p \in Request
      BY <1>0, <2>0 DEF Request, Steps
    <2>3. Knows(p)
      BY <1>0, <2>0, <2>1 DEF Request, Knows, StepsOf, Ended, AllKinds
    <2> QED BY <2>0, <2>2, <2>3 DEF q
  <1>9. CASE Commit(r) \/ Cancel(r)
    <2>0. PICK how \in Ended : req' = [req EXCEPT ![r] = [Idle EXCEPT !.kind = q.kind, !.pc = how]]
      BY <1>9 DEF Commit, Cancel, Finish, Ended
    <2> DEFINE p == [Idle EXCEPT !.kind = q.kind, !.pc = how]
    <2> HIDE DEF q
    <2>2. p \in Request
      BY <1>0, <2>0 DEF Request, Steps, Idle
    <2>3. Knows(p)
      BY <1>0, <2>0 DEF Request, Knows, Ended, Idle
    <2> QED BY <2>0, <2>2, <2>3 DEF q
  <1> QED BY <1>1, <1>2, <1>3, <1>4, <1>5, <1>6, <1>7, <1>8, <1>9 DEF Step

\* The part of TypeOK about the rows and their locks.
RowsTyped ==
    /\ obs \in [Req -> ObsRow \union {NoRow}]
    /\ obsWork \in [Req -> ObsRow \union {NoRow}]
    /\ obsLock \in [Req -> Req \union {NoReq}]
    /\ time \in [Datastream -> Period \union {NoRange}]
    /\ timeWork \in [Datastream -> Period \union {NoRange}]
    /\ timeLock \in [Datastream -> Req \union {NoReq}]

\* Rows keep their types.
LEMMA RowsStep ==
    ASSUME TInv, NEW r \in Req, Begin(r) \/ Step(r)
    PROVE  RowsTyped'
  <1>0. /\ RowsTyped /\ Knows(req[r])
        /\ \A o \in Req : SeenObs(r, o) \in ObsRow \union {NoRow}
        /\ \A d \in Datastream : SeenTime(r, d) \in Period \union {NoRange}
    BY SeenTypes DEF TInv, TypeOK, RowsTyped, Known
  <1>1. CASE Begin(r) \/ Look(r) \/ Start(r) \/ Written(r) \/ Measure(r)
    <2>1. ObsUnchanged /\ TimeUnchanged
      BY <1>1 DEF Begin, Look, Start, Written, Measure
    <2> QED BY <1>0, <2>1 DEF ObsUnchanged, TimeUnchanged, RowsTyped
  <1>2. ASSUME NEW o \in Req, NEW row \in ObsRow \union {NoRow}, WriteObs(r, o, row), TimeUnchanged
        PROVE  RowsTyped'
    BY <1>0, <1>2 DEF RowsTyped, WriteObs, TimeUnchanged
  <1>3. ASSUME NEW d \in Datastream, NEW g \in Period \union {NoRange}, WriteTime(r, d, g),
               ObsUnchanged
        PROVE  RowsTyped'
    BY <1>0, <1>3 DEF RowsTyped, WriteTime, ObsUnchanged
  <1>4. CASE Write(r)
    <2>1. PICK x \in req[r].todo :
            LET row == SeenObs(r, x[1])
                same == row # NoRow /\ row.at = x[2] IN
            IF same THEN WriteObs(r, x[1], Changed(r, row)) ELSE ObsUnchanged
      BY <1>4 DEF Write
    <2>2. x[1] \in Req /\ SeenObs(r, x[1]) \in ObsRow \union {NoRow}
      BY <1>0, <2>1 DEF TInv, TypeOK, Request
    <2>3. CASE ObsUnchanged
      BY <1>0, <1>4, <2>3 DEF Write, ObsUnchanged, TimeUnchanged, RowsTyped
    <2>4. CASE WriteObs(r, x[1], Changed(r, SeenObs(r, x[1]))) /\ SeenObs(r, x[1]) # NoRow
      <3>1. req[r].pc = "write" /\ TimeUnchanged
        BY <1>4 DEF Write
      <3>2. Changed(r, SeenObs(r, x[1])) \in ObsRow \union {NoRow}
        BY <2>2, <2>4, <3>1, ChangedType
      <3> QED BY <1>2, <2>2, <2>4, <3>1, <3>2
    <2> QED BY <2>1, <2>3, <2>4
  <1>5. CASE Insert(r)
    <2>1. req[r].ds \in Datastream /\ req[r].g \in Period
      BY <1>0, <1>5 DEF Insert, Knows, StepsOf, Ended, TInv, TypeOK, Request, AllKinds
    <2>2. [ds |-> req[r].ds, g |-> req[r].g, at |-> 0] \in ObsRow
      BY <2>1 DEF ObsRow
    <2> QED BY <1>2, <1>5, <2>2 DEF Insert
  <1>6. CASE SetTime(r)
    <2>1. req[r].ds \in Datastream /\ req[r].g \in Period \union {NoRange}
      BY <1>0, <1>6 DEF SetTime, Knows, StepsOf, Ended, TInv, TypeOK, Request, AllKinds
    <2> QED BY <1>3, <1>6, <2>1 DEF SetTime
  <1>7. CASE WidenTime(r)
    <2>1. req[r].ds \in Datastream /\ req[r].g \in Period
      BY <1>0, <1>7 DEF WidenTime, Knows, StepsOf, Ended, TInv, TypeOK, Request, AllKinds
    <2>2. Widen(SeenTime(r, req[r].ds), req[r].g) \in Period
      BY <1>0, <2>1, WidenCovers
    <2> QED BY <1>3, <1>7, <2>1, <2>2 DEF WidenTime
  <1>8. CASE Replace(r)
    <2>1. req[r].here \in Datastream /\ req[r].next \in Period \union {NoRange}
      BY <1>0, <1>8 DEF Replace, Knows, TInv, TypeOK, Request
    <2> QED BY <1>3, <1>8, <2>1 DEF Replace
  <1>9. CASE Commit(r) \/ Cancel(r)
    <2>1. PICK rows \in [Req -> ObsRow \union {NoRow}],
               times \in [Datastream -> Period \union {NoRange}],
               how \in {"done", "cancelled"} : Finish(r, rows, times, how)
      <3>1. /\ [o \in Req |-> SeenObs(r, o)] \in [Req -> ObsRow \union {NoRow}]
            /\ [d \in Datastream |-> SeenTime(r, d)] \in [Datastream -> Period \union {NoRange}]
        BY <1>0
      <3>2. obs \in [Req -> ObsRow \union {NoRow}]
            /\ time \in [Datastream -> Period \union {NoRange}]
        BY <1>0 DEF RowsTyped
      <3> QED BY <1>9, <3>1, <3>2 DEF Commit, Cancel
    <2> QED BY <1>0, <2>1 DEF Finish, RowsTyped
  <1> QED BY <1>1, <1>4, <1>5, <1>6, <1>7, <1>8, <1>9 DEF Step

\* Types and knowledge are preserved by every step.
LEMMA TypesStep == TInv /\ [Next]_vars => TInv'
  <1> SUFFICES ASSUME TInv, [Next]_vars PROVE TInv'
    OBVIOUS
  <1>1. CASE UNCHANGED vars
    BY <1>1 DEF vars, TInv, TypeOK, Known
  <1>2. ASSUME NEW r \in Req, Begin(r) \/ Step(r)
        PROVE  TInv'
    <2>1. PICK q \in Request : req' = [req EXCEPT ![r] = q] /\ Knows(q)
      BY <1>2, StepKnows
    <2>2. req' \in [Req -> Request] /\ Known'
      BY <2>1, RequestStep
    <2>3. RowsTyped'
      BY <1>2, RowsStep
    <2>4. alone' \in BOOLEAN
      BY <1>2 DEF Begin, Step, TInv, TypeOK
    <2> QED BY <2>2, <2>3, <2>4 DEF TInv, TypeOK, RowsTyped
  <1> QED BY <1>1, <1>2 DEF Next

\* At the start there is no Observation and every request is idle.
LEMMA TypesInit == Init => TInv
  <1> SUFFICES ASSUME Init PROVE TInv
    OBVIOUS
  <1>1. Idle \in Request /\ Knows(Idle)
    BY DEF Idle, Request, Steps, AllKinds, Knows, StepsOf, Ended
  <1> QED BY <1>1 DEF Init, TInv, TypeOK, Known

\* The variables keep their types in every behaviour: in particular no DELETE leaves a
\* range whose lower bound is above the upper one.
THEOREM TypeCorrect == Spec => []TypeOK
  <1>1. TInv => TypeOK
    BY DEF TInv
  <1> QED BY <1>1, TypesInit, TypesStep, PTL DEF Spec

-----------------------------------------------------------------------------
(* What inserts and PATCHes do to the range.                               *)

\* Only inserts and PATCHes have arrived.
Growing == \A r \in Req : req[r].kind \in {"post", "change"}

\* A request that wrote an Observation has it in hand, and when it commits it has also
\* widened the range of its Datastream.
Owned ==
    \A r, o \in Req : obsLock[o] = r =>
        LET q == req[r] IN
        /\ q.pc \in {"write", "widen", "commit"}
        /\ q.kind = "change" => q.stale # {} /\ q.todo = {}
        /\ obsWork[o] # NoRow => obsWork[o].ds = q.ds /\ obsWork[o].g = q.g
        /\ q.pc = "commit" => timeLock[q.ds] = r /\ Covers(timeWork[q.ds], q.g)

\* A PATCH writes one Observation.
Single ==
    \A r \in Req : req[r].kind = "change" =>
        /\ \A x, y \in req[r].todo : x = y
        /\ req[r].pc = "look" \/ req[r].todo # {} => req[r].stale = {}

\* A range that is being written covers the committed one, and its writer is done.
Wider ==
    \A d \in Datastream : timeLock[d] # NoReq =>
        /\ req[timeLock[d]].pc = "commit"
        /\ time[d] # NoRange => Covers(timeWork[d], time[d])

\* Who writes a row of an Observation that is not there is inserting it.
OwnNew ==
    \A o \in Req : (obsLock[o] # NoReq /\ obs[o] = NoRow /\ obsWork[o] # NoRow) =>
        obsLock[o] = o

GInv == TInv /\ OwnNew /\ (Growing => AllCovered /\ Owned /\ Single /\ Wider)

\* The fields of a request that a step of its own leaves alone, and what a step that
\* ends it makes of it.
LEMMA RequestAfter ==
    ASSUME TInv, NEW r \in Req, Begin(r) \/ Step(r)
    PROVE  /\ req[r] \in Request /\ Knows(req[r]) /\ TInv'
           /\ req'[r] \in Request /\ \A s \in Req : s # r => req'[s] = req[s]
           /\ Begin(r) => req[r] = Idle
           /\ req[r].pc # "idle" => req'[r].kind = req[r].kind
  <1>1. req[r] \in Request /\ Knows(req[r])
    BY DEF TInv, TypeOK, Known
  <1>2. PICK q \in Request : req' = [req EXCEPT ![r] = q] /\ Knows(q)
    BY StepKnows
  <1>3. req'[r] = q /\ \A s \in Req : s # r => req'[s] = req[s]
    BY <1>2, RequestStep DEF TInv, TypeOK
  <1>4. TInv'
    BY TypesStep DEF Next
  <1>5. Begin(r) => req[r] = Idle
    BY <1>1 DEF Begin, Knows
  <1>6. req[r].pc # "idle" => req'[r].kind = req[r].kind
    <2> SUFFICES ASSUME req[r].pc # "idle" PROVE req'[r].kind = req[r].kind
      OBVIOUS
    <2>0. req \in [Req -> Request]
      BY DEF TInv, TypeOK
    <2>1. CASE Commit(r) \/ Cancel(r)
      BY <1>1, <2>1, ZenonT(60) DEF Commit, Cancel, Finish, TInv, TypeOK, Idle
    <2>2. CASE Look(r)
      <3>1. PICK s \in Named(r) : req' = [req EXCEPT
               ![r].pc = IF req[r].kind \in {"filtered", "force"} THEN "start" ELSE "write",
               ![r].todo = {<<o, obs[o].at>> : o \in s}]
        BY <2>2 DEF Look
      <3> QED BY <1>1, <2>0, <3>1 DEF Request
    <2>3. CASE Start(r)
      BY <1>1, <2>0, <2>3 DEF Start, Request
    <2>4. CASE Write(r)
      BY <1>1, <2>0, <2>4 DEF Write, Request
    <2>5. CASE Written(r)
      BY <1>1, <2>0, <2>5 DEF Written, Request
    <2>6. CASE Measure(r)
      BY <1>1, <2>0, <2>6 DEF Measure, Request
    <2>7. CASE Insert(r) \/ SetTime(r) \/ WidenTime(r)
      BY <1>1, <2>0, <2>7 DEF Insert, SetTime, WidenTime, Request
    <2>8. CASE Replace(r)
      BY <1>1, <2>0, <2>8 DEF Replace, Request
    <2> QED BY <2>1, <2>2, <2>3, <2>4, <2>5, <2>6, <2>7, <2>8 DEF Step, Begin
  <1> QED BY <1>1, <1>3, <1>4, <1>5, <1>6

\* A request that arrives has found nothing yet.
LEMMA BeginRequest ==
    ASSUME TInv, NEW r \in Req, Begin(r)
    PROVE  req'[r].todo = {} /\ req'[r].stale = {} /\ req'[r].pc \in {"insert", "set", "look"}
  <1>1. PICK kind \in Kinds,
             d \in Datastream \union {NoRow}, g \in Period \union {NoRange},
             n \in {"insert", "set", "look"} :
          /\ req' = [req EXCEPT ![r] = [Idle EXCEPT !.kind = kind, !.ds = d, !.g = g, !.pc = n]]
          /\ kind \in {"post", "link", "force", "replace"} => d \in Datastream
          /\ kind \notin {"delete", "link", "replace"} => g \in Period
          /\ n = "insert" <=> kind = "post"
          /\ n = "set" <=> kind = "replace"
    BY ZenonT(60) DEF Begin
  <1> QED BY <1>1 DEF Idle, TInv, TypeOK

\* A statement that looks for its rows finds one, unless it is about several.
LEMMA LookRequest ==
    ASSUME TInv, NEW r \in Req, Look(r)
    PROVE  /\ req[r].pc = "look" /\ req'[r].stale = req[r].stale
           /\ req[r].kind \notin {"filtered", "force"} => \A x, y \in req'[r].todo : x = y
  <1>1. req \in [Req -> Request]
    BY DEF TInv, TypeOK
  <1>2. PICK s \in Named(r) : req' = [req EXCEPT
           ![r].pc = IF req[r].kind \in {"filtered", "force"} THEN "start" ELSE "write",
           ![r].todo = {<<o, obs[o].at>> : o \in s}]
    BY DEF Look
  <1>3. req'[r].stale = req[r].stale /\ req'[r].todo = {<<o, obs[o].at>> : o \in s}
    BY <1>1, <1>2 DEF Request
  <1>4. req[r].kind \notin {"filtered", "force"} => \A o, p \in s : o = p
    BY <1>2 DEF Named
  <1> QED BY <1>3, <1>4, ZenonT(60) DEF Look

\* Who inserts is the owner of the name, whatever it interleaves with.
LEMMA OwnNewStep ==
    ASSUME TInv, OwnNew, NEW r \in Req, Begin(r) \/ Step(r)
    PROVE  OwnNew'
  <1>1. CASE Begin(r) \/ Look(r) \/ Start(r) \/ Written(r) \/ Measure(r) \/ SetTime(r)
               \/ WidenTime(r) \/ Replace(r)
    <2>1. ObsUnchanged
      BY <1>1 DEF Begin, Look, Start, Written, Measure, SetTime, WidenTime, Replace
    <2> QED BY <2>1 DEF ObsUnchanged, OwnNew
  <1>2. CASE Write(r)
    <2>1. PICK x \in req[r].todo :
            LET row == SeenObs(r, x[1])
                same == row # NoRow /\ row.at = x[2] IN
            /\ obsLock[x[1]] \in {NoReq, r}
            /\ IF same THEN WriteObs(r, x[1], Changed(r, row)) ELSE ObsUnchanged
      BY <1>2 DEF Write
    <2>2. CASE ObsUnchanged
      BY <2>2 DEF ObsUnchanged, OwnNew
    <2>3. CASE SeenObs(r, x[1]) # NoRow /\ WriteObs(r, x[1], Changed(r, SeenObs(r, x[1])))
      <3>1. obs[x[1]] = NoRow => x[1] = r
        BY <2>1, <2>3, NoReqAssumption DEF SeenObs, OwnNew, TInv, TypeOK, Request
      <3> QED BY <2>3, <3>1 DEF WriteObs, OwnNew, TInv, TypeOK
    <2> QED BY <2>1, <2>2, <2>3
  <1>3. CASE Insert(r)
    <2>1. WriteObs(r, r, [ds |-> req[r].ds, g |-> req[r].g, at |-> 0])
      BY <1>3 DEF Insert
    <2> QED BY <2>1 DEF WriteObs, OwnNew, TInv, TypeOK
  <1>4. CASE Commit(r) \/ Cancel(r)
    <2>1. PICK rows : /\ \A o \in Req : obsLock[o] # r => rows[o] = obs[o]
                      /\ obs' = rows
                      /\ obsLock' = [o \in Req |-> IF obsLock[o] = r THEN NoReq ELSE obsLock[o]]
                      /\ obsWork' = [o \in Req |-> IF obsLock[o] = r THEN rows[o] ELSE obsWork[o]]
      BY <1>4 DEF Commit, Cancel, Finish, SeenObs
    <2> QED BY <2>1 DEF OwnNew
  <1> QED BY <1>1, <1>2, <1>3, <1>4 DEF Step

\* Inserts and PATCHes keep the ranges wide enough.
LEMMA GrowingStep ==
    ASSUME TInv, Growing, AllCovered, Owned, Single, Wider, NEW r \in Req, Begin(r) \/ Step(r),
           Growing'
    PROVE  AllCovered' /\ Owned' /\ Single' /\ Wider'
  <1>0. /\ req[r] \in Request /\ Knows(req[r]) /\ TInv'
        /\ req'[r] \in Request /\ \A s \in Req : s # r => req'[s] = req[s]
        /\ req[r].pc # "idle" => req'[r].kind = req[r].kind
        /\ req[r].kind \in {"post", "change"} /\ req'[r].kind \in {"post", "change"}
        /\ req \in [Req -> Request]
    BY RequestAfter DEF Growing, TInv, TypeOK
  <1> DEFINE q == req[r]
             Same == UNCHANGED <<obs, obsLock, obsWork, time, timeLock, timeWork>>
             Holds == \E o \in Req : obsLock[o] = r
  <1>1. ASSUME UNCHANGED <<obs, time>>
        PROVE  AllCovered'
    BY <1>1 DEF AllCovered, Rows
  <1>2. CASE Begin(r) \/ Look(r)
    <2>1. Same /\ q.pc \in {"idle", "look"}
      BY <1>2 DEF Begin, Look, ObsUnchanged, TimeUnchanged
    <2>3. Owned' /\ Wider'
      BY <1>0, <2>1, SMTT(30) DEF Owned, Wider, TInv, TypeOK
    <2>4. ASSUME req'[r].kind = "change"
          PROVE  /\ \A x, y \in req'[r].todo : x = y
                 /\ req'[r].stale = {}
      <3>1. CASE Begin(r)
        BY <3>1, BeginRequest
      <3>2. CASE Look(r)
        BY <1>0, <2>4, <3>2, LookRequest DEF Single
      <3> QED BY <1>2, <3>1, <3>2
    <2>5. Single'
      BY <1>0, <2>4 DEF Single
    <2> QED BY <1>1, <2>1, <2>3, <2>5
  <1>3. CASE Write(r)
    <2>1. q.pc = "write" /\ TimeUnchanged /\ q.kind = "change"
      BY <1>0, <1>3 DEF Write, Knows, StepsOf, Ended
    <2>2. PICK x \in q.todo :
            LET row == SeenObs(r, x[1])
                same == row # NoRow /\ row.at = x[2] IN
            /\ obsLock[x[1]] \in {NoReq, r}
            /\ IF same THEN WriteObs(r, x[1], Changed(r, row)) ELSE ObsUnchanged
            /\ req' = [req EXCEPT
                 ![r].todo = @ \ {x},
                 ![r].old = IF same THEN row.g ELSE @,
                 ![r].ds = IF same /\ req[r].kind = "change" THEN row.ds ELSE @,
                 ![r].stale = IF same THEN @ \union {row.ds} ELSE @]
      BY <1>3 DEF Write
    <2>3. q.stale = {} /\ ~Holds /\ \A y \in q.todo : y = x
      BY <2>1, <2>2 DEF Single, Owned
    <2>4. x[1] \in Req /\ obsLock[x[1]] = NoReq
      BY <1>0, <2>2, <2>3 DEF Request
    <2>5. req'[r].todo = {} /\ req'[r].pc = "write" /\ req'[r].g = q.g
      BY <1>0, <2>1, <2>2, <2>3, SMTT(80) DEF Request
    <2>6. Single'
      BY <1>0, <2>5 DEF Single
    <2>7. Wider'
      BY <1>0, <2>1, <2>5 DEF Wider, TimeUnchanged, TInv, TypeOK
    <2>8. CASE ObsUnchanged
      <3>1. Owned'
        BY <1>0, <2>1, <2>3, <2>8 DEF Owned, ObsUnchanged, TimeUnchanged
      <3> QED BY <1>1, <2>1, <2>6, <2>7, <2>8, <3>1 DEF ObsUnchanged, TimeUnchanged
    <2>9. CASE SeenObs(r, x[1]) # NoRow /\ SeenObs(r, x[1]).at = x[2]
      <3> DEFINE row == SeenObs(r, x[1])
      <3>1. WriteObs(r, x[1], Changed(r, row))
        BY <2>2, <2>9
      <3>2. row \in ObsRow
        BY <2>4, <2>9, SeenTypes DEF TInv
      <3>3. req'[r].stale = {row.ds} /\ req'[r].ds = row.ds
        BY <1>0, <2>1, <2>2, <2>3, <2>9 DEF Request
      <3>4. Changed(r, row).ds = row.ds /\ Changed(r, row).g = q.g
        BY <2>1, <3>2 DEF Changed, ObsRow
      <3> HIDE DEF row
      <3>5. /\ obsLock'[x[1]] = r /\ obsWork'[x[1]] = Changed(r, row)
            /\ \A o \in Req : o # x[1] => obsLock'[o] = obsLock[o] /\ obsWork'[o] = obsWork[o]
            /\ UNCHANGED <<timeLock, timeWork>>
        BY <2>1, <2>4, <3>1 DEF WriteObs, TimeUnchanged, TInv, TypeOK
      <3>6. ASSUME NEW s \in Req, NEW o \in Req, obsLock'[o] = s
            PROVE  /\ req'[s].pc \in {"write", "widen", "commit"}
                   /\ req'[s].kind = "change" => req'[s].stale # {} /\ req'[s].todo = {}
                   /\ obsWork'[o] # NoRow => /\ obsWork'[o].ds = req'[s].ds
                                             /\ obsWork'[o].g = req'[s].g
                   /\ req'[s].pc = "commit" => /\ timeLock'[req'[s].ds] = s
                                               /\ Covers(timeWork'[req'[s].ds], req'[s].g)
        <4>1. CASE o = x[1]
          BY <2>5, <3>3, <3>4, <3>5, <3>6, <4>1
        <4>2. CASE o # x[1]
          <5>1. obsLock[o] = s /\ s # r /\ req'[s] = req[s] /\ obsWork'[o] = obsWork[o]
            BY <1>0, <2>3, <3>5, <3>6, <4>2
          <5> QED BY <3>5, <5>1 DEF Owned
        <4> QED BY <4>1, <4>2
      <3>7. Owned'
        BY <3>6 DEF Owned
      <3> QED BY <1>1, <2>1, <2>6, <2>7, <3>1, <3>7 DEF WriteObs, TimeUnchanged
    <2> QED BY <2>2, <2>8, <2>9
  <1>4. CASE Written(r)
    <2>1. Same /\ q.pc = "write" /\ q.todo = {} /\ q.kind = "change"
      BY <1>0, <1>4 DEF Written, Knows, StepsOf, Ended, ObsUnchanged, TimeUnchanged
    <2>2. /\ req'[r].pc = IF q.stale = {} THEN "commit" ELSE "widen"
          /\ req'[r].todo = q.todo /\ req'[r].stale = q.stale
          /\ req'[r].ds = q.ds /\ req'[r].g = q.g
      BY <1>0, <1>4, <2>1 DEF Written, Request
    <2>3. Owned'
      BY <1>0, <2>1, <2>2 DEF Owned, TInv, TypeOK
    <2>4. Single' /\ Wider'
      BY <1>0, <2>1, <2>2 DEF Single, Wider, TInv, TypeOK
    <2> QED BY <1>1, <2>1, <2>3, <2>4
  <1>5. CASE Insert(r)
    <2>1. q.pc = "insert" /\ TimeUnchanged /\ ~Holds /\ q.kind = "post"
      BY <1>0, <1>5 DEF Insert, Owned, Knows, StepsOf, Ended
    <2>2. /\ req'[r].pc = "widen" /\ req'[r].ds = q.ds /\ req'[r].g = q.g
          /\ req'[r].kind = "post"
      BY <1>0, <1>5, <2>1 DEF Insert, Request
    <2>3. WriteObs(r, r, [ds |-> q.ds, g |-> q.g, at |-> 0])
      BY <1>5 DEF Insert
    <2>4. Owned'
      BY <1>0, <2>1, <2>2, <2>3 DEF Owned, WriteObs, TimeUnchanged, TInv, TypeOK
    <2>5. Single' /\ Wider'
      BY <1>0, <2>1, <2>2 DEF Single, Wider, TimeUnchanged, TInv, TypeOK
    <2> QED BY <1>1, <2>1, <2>3, <2>4, <2>5 DEF WriteObs, TimeUnchanged
  <1>6. CASE WidenTime(r)
    <2>1. q.pc = "widen" /\ ObsUnchanged /\ q.ds \in Datastream /\ q.g \in Period
      BY <1>0, <1>6 DEF WidenTime, Knows, Ended
    <2>2. WriteTime(r, q.ds, Widen(SeenTime(r, q.ds), q.g))
      BY <1>6 DEF WidenTime
    <2>3. timeLock[q.ds] = NoReq /\ SeenTime(r, q.ds) = time[q.ds]
      BY <2>1, <2>2, NoReqAssumption DEF WriteTime, Wider, SeenTime
    <2> DEFINE g == Widen(time[q.ds], q.g)
    <2>4. /\ Covers(g, q.g)
          /\ time[q.ds] # NoRange => Covers(g, time[q.ds])
      BY <2>1, WidenCovers DEF TInv, TypeOK
    <2>5. /\ timeLock' = [timeLock EXCEPT ![q.ds] = r]
          /\ timeWork' = [timeWork EXCEPT ![q.ds] = g]
          /\ UNCHANGED time
      BY <2>2, <2>3 DEF WriteTime
    <2>6. /\ req'[r].pc = "commit" /\ req'[r].ds = q.ds /\ req'[r].g = q.g
          /\ req'[r].todo = q.todo /\ req'[r].stale = q.stale
      BY <1>0, <1>6 DEF WidenTime, Request
    <2> HIDE DEF g
    <2>7. Wider'
      BY <1>0, <2>1, <2>3, <2>4, <2>5, <2>6 DEF Wider, TInv, TypeOK
    <2>8. Owned'
      <3>1. \A s \in Req : \A d : timeLock[d] = s => d # q.ds
        BY <2>3, NoReqAssumption
      <3>2. ASSUME NEW s \in Req, NEW o \in Req, obsLock[o] = s, s # r,
                   req[s].pc = "commit"
            PROVE  timeLock'[req[s].ds] = s /\ Covers(timeWork'[req[s].ds], req[s].g)
        BY <2>1, <2>5, <3>1, <3>2 DEF Owned, TInv, TypeOK
      <3>3. timeLock'[q.ds] = r /\ timeWork'[q.ds] = g
        BY <2>1, <2>5 DEF TInv, TypeOK
      <3>4. ASSUME NEW s \in Req, NEW o \in Req, obsLock'[o] = s
            PROVE  /\ req'[s].pc \in {"write", "widen", "commit"}
                   /\ req'[s].kind = "change" => req'[s].stale # {} /\ req'[s].todo = {}
                   /\ obsWork'[o] # NoRow => /\ obsWork'[o].ds = req'[s].ds
                                             /\ obsWork'[o].g = req'[s].g
                   /\ req'[s].pc = "commit" => /\ timeLock'[req'[s].ds] = s
                                               /\ Covers(timeWork'[req'[s].ds], req'[s].g)
        <4>1. obsLock[o] = s /\ obsWork'[o] = obsWork[o]
          BY <2>1, <3>4 DEF ObsUnchanged
        <4>2. CASE s = r
          BY <1>0, <2>1, <2>4, <2>6, <3>3, <4>1, <4>2 DEF Owned
        <4>3. CASE s # r
          BY <1>0, <3>2, <4>1, <4>3 DEF Owned
        <4> QED BY <4>2, <4>3
      <3> QED BY <3>4 DEF Owned
    <2>9. Single'
      BY <1>0, <2>1, <2>6 DEF Single
    <2> QED BY <1>1, <2>1, <2>5, <2>7, <2>8, <2>9 DEF ObsUnchanged
  <1>7. CASE Commit(r) \/ Cancel(r)
    <2>1. PICK how \in {"done", "cancelled"} : req'[r] = [Idle EXCEPT !.kind = q.kind, !.pc = how]
      BY <1>0, <1>7 DEF Commit, Cancel, Finish
    <2>2. req'[r].todo = {} /\ req'[r].pc \notin {"look", "write", "widen", "commit"}
      BY <2>1 DEF Idle
    <2>3. PICK rows, times :
            /\ \A o \in Req : rows[o] = obs[o] \/ (Commit(r) /\ obsLock[o] = r /\ rows[o] = obsWork[o])
            /\ \A d \in Datastream : times[d] = time[d] \/
                  (Commit(r) /\ timeLock[d] = r /\ times[d] = timeWork[d])
            /\ Commit(r) => \A d \in Datastream : timeLock[d] = r => times[d] = timeWork[d]
            /\ obs' = rows /\ time' = times
            /\ obsLock' = [o \in Req |-> IF obsLock[o] = r THEN NoReq ELSE obsLock[o]]
            /\ obsWork' = [o \in Req |-> IF obsLock[o] = r THEN rows[o] ELSE obsWork[o]]
            /\ timeLock' = [d \in Datastream |-> IF timeLock[d] = r THEN NoReq ELSE timeLock[d]]
            /\ timeWork' = [d \in Datastream |-> IF timeLock[d] = r THEN times[d] ELSE timeWork[d]]
      BY <1>7 DEF Commit, Cancel, Finish, SeenObs, SeenTime
    <2>4. Single'
      BY <1>0, <2>2 DEF Single
    <2>5. Wider'
      BY <1>0, <2>3, NoReqAssumption DEF Wider, TInv, TypeOK
    <2>6. ASSUME NEW s \in Req, NEW o \in Req, obsLock'[o] = s
          PROVE  /\ s # r /\ obsLock[o] = s /\ obsWork'[o] = obsWork[o] /\ req'[s] = req[s]
      BY <1>0, <2>3, <2>6, NoReqAssumption
    <2>7. ASSUME NEW s \in Req, s # r, req[s].ds \in Datastream, timeLock[req[s].ds] = s
          PROVE  timeLock'[req[s].ds] = s /\ timeWork'[req[s].ds] = timeWork[req[s].ds]
      BY <2>3, <2>7
    <2>8. Owned'
      <3> SUFFICES ASSUME NEW s \in Req, NEW o \in Req, obsLock'[o] = s
                   PROVE  /\ req'[s].pc \in {"write", "widen", "commit"}
                          /\ req'[s].kind = "change" => req'[s].stale # {} /\ req'[s].todo = {}
                          /\ obsWork'[o] # NoRow => /\ obsWork'[o].ds = req'[s].ds
                                                    /\ obsWork'[o].g = req'[s].g
                          /\ req'[s].pc = "commit" => /\ timeLock'[req'[s].ds] = s
                                                      /\ Covers(timeWork'[req'[s].ds], req'[s].g)
        BY DEF Owned
      <3>1. /\ s # r /\ obsLock[o] = s /\ obsWork'[o] = obsWork[o] /\ req'[s] = req[s]
        BY <2>6
      <3>2. req[s].pc = "commit" => req[s].ds \in Datastream
        <4>1. Knows(req[s]) /\ req[s].kind \in {"post", "change"}
          BY DEF Growing, TInv, Known
        <4>2. req[s].kind = "change" => req[s].stale # {}
          BY <3>1 DEF Owned
        <4> QED BY <4>1, <4>2 DEF Knows, Ended
      <3> QED BY <2>7, <3>1, <3>2 DEF Owned
    <2>9. ASSUME NEW d \in Datastream, NEW o \in Rows(d)'
          PROVE  Covers(time'[d], obs'[o].g)
      <3>1. o \in Req /\ obs'[o] # NoRow /\ obs'[o].ds = d
        BY <2>9 DEF Rows
      <3>2. CASE obs'[o] = obs[o]
        <4>1. Covers(time[d], obs[o].g) /\ obs[o] \in ObsRow
          BY <3>1, <3>2 DEF AllCovered, Rows, TInv, TypeOK
        <4>2. CASE time'[d] = time[d]
          BY <3>2, <4>1, <4>2
        <4>3. CASE timeLock[d] = r /\ time'[d] = timeWork[d]
          <5>1. Covers(timeWork[d], time[d])
            BY <4>1, <4>3, NoReqAssumption DEF Wider, Covers
          <5> QED BY <3>2, <4>1, <4>3, <5>1, CoversTransitive DEF TInv, TypeOK, ObsRow
        <4> QED BY <2>3, <4>2, <4>3
      <3>3. CASE Commit(r) /\ obsLock[o] = r /\ obs'[o] = obsWork[o]
        <4>1. q.pc = "commit"
          BY <3>3 DEF Commit
        <4>2. q.ds = d /\ obs'[o].g = q.g /\ timeLock[d] = r /\ Covers(timeWork[d], q.g)
          BY <3>1, <3>3, <4>1 DEF Owned
        <4> QED BY <2>3, <3>3, <4>2
      <3> QED BY <2>3, <3>1, <3>2, <3>3
    <2> QED BY <2>4, <2>5, <2>8, <2>9 DEF AllCovered
  <1>8. CASE Start(r) \/ SetTime(r) \/ Measure(r) \/ Replace(r)
    BY <1>0, <1>8 DEF Start, SetTime, Measure, Replace, Knows, StepsOf, Ended
  <1> QED BY <1>2, <1>3, <1>4, <1>5, <1>6, <1>7, <1>8 DEF Step

\* At the start there is nothing to cover.
LEMMA GInit == Init => GInv
  <1> SUFFICES ASSUME Init PROVE GInv
    OBVIOUS
  <1>1. /\ \A r \in Req : req[r] = Idle /\ obs[r] = NoRow /\ obsLock[r] = NoReq
        /\ \A d \in Datastream : timeLock[d] = NoReq
    BY DEF Init
  <1> QED BY <1>1, TypesInit, NoReqAssumption
          DEF GInv, OwnNew, AllCovered, Rows, Owned, Single, Wider, Idle

\* Every step keeps it.
LEMMA GStep == GInv /\ [Next]_vars => GInv'
  <1> SUFFICES ASSUME GInv, [Next]_vars PROVE GInv'
    OBVIOUS
  <1>1. CASE UNCHANGED vars
    BY <1>1 DEF vars, GInv, TInv, TypeOK, Known, OwnNew, Growing, AllCovered, Rows, Owned, Single,
                Wider
  <1>2. ASSUME NEW r \in Req, Begin(r) \/ Step(r)
        PROVE  GInv'
    <2>1. TInv' /\ OwnNew'
      BY <1>2, TypesStep, OwnNewStep DEF GInv, Next
    <2>2. Growing' => Growing
      <3>1. \A s \in Req : s # r => req'[s] = req[s]
        BY <1>2, RequestAfter DEF GInv
      <3>2. req[r].pc # "idle" => req'[r].kind = req[r].kind
        BY <1>2, RequestAfter DEF GInv
      <3>3. req[r].pc = "idle" => req[r].kind = "post"
        BY DEF GInv, TInv, Known, Knows, Idle
      <3> QED BY <3>1, <3>2, <3>3 DEF Growing
    <2> QED BY <1>2, <2>1, <2>2, GrowingStep DEF GInv
  <1> QED BY <1>1, <1>2 DEF Next

\* Types, who writes a new row, and how far a request that inserts or PATCHes has come
\* with the range: all of it holds in every reachable state.
THEOREM TimeInvariance == Spec => []GInv
  BY GInit, GStep, PTL DEF Spec

\* As long as Observations are only inserted and PATCHed, the phenomenonTime of every
\* Datastream covers all of them, for any number of requests however they interleave.
THEOREM RangesCover == Spec => []TimesCovered
  <1>1. GInv => TimesCovered
    <2> SUFFICES ASSUME GInv, \A r \in Arrived : req[r].kind \in {"post", "change"}
                 PROVE  AllCovered
      BY DEF TimesCovered
    <2>1. \A r \in Req : req[r].pc = "idle" => req[r].kind = "post"
      BY DEF GInv, TInv, Known, Knows, Idle
    <2> QED BY <2>1 DEF GInv, Growing, Arrived
  <1> QED BY <1>1, TimeInvariance, PTL

\* An Observation that was deleted stays deleted: a PATCH that re-creates rows never
\* brings one back.
THEOREM DeletedStays == Spec => NeverRevived
  <1> DEFINE Stays == \A o \in Req : req[o].pc \in Ended /\ obs[o] = NoRow => obs'[o] = NoRow
  <1>1. GInv /\ [Next]_vars => [Stays]_vars
    <2> SUFFICES ASSUME GInv, [Next]_vars, NEW o \in Req, req[o].pc \in Ended, obs[o] = NoRow
                 PROVE  obs'[o] = NoRow
      OBVIOUS
    <2>1. CASE UNCHANGED vars
      BY <2>1 DEF vars
    <2>2. ASSUME NEW r \in Req, Begin(r) \/ Step(r)
          PROVE  obs'[o] = NoRow
      <3>1. CASE Commit(r)
        <4>1. obs'[o] = SeenObs(r, o) /\ o # r
          BY <3>1 DEF Commit, Finish, Ended
        <4> QED BY <4>1, NoReqAssumption DEF SeenObs, GInv, OwnNew
      <3>2. CASE ~Commit(r)
        <4>1. obs' = obs
          BY <2>2, <3>2 DEF Begin, Step, Look, Start, Write, Written, Insert, SetTime, WidenTime,
             Measure, Replace, Cancel, Finish, ObsUnchanged, WriteObs
        <4> QED BY <4>1
      <3> QED BY <3>1, <3>2
    <2> QED BY <2>1, <2>2 DEF Next
  <1> QED BY <1>1, TimeInvariance, PTL DEF Spec, NeverRevived

-----------------------------------------------------------------------------
(* Requests that come one after the other.                                 *)

\* No two requests were open at once, and none has patched, moved or set anything.
Calm == alone /\ \A r \in Req : req[r].kind \notin {"change", "link", "replace"}

\* Alone, a request is the only open one, and only open requests hold rows.
Sole ==
    /\ alone => \A r, s \in Open : r = s
    /\ \A o \in Req : obsLock[o] # NoReq => obsLock[o] \in Open
    /\ \A d \in Datastream : timeLock[d] # NoReq => timeLock[d] \in Open

\* The Observation a request will insert is not there, and no request deletes its own.
Unborn ==
    \A r \in Req :
        /\ obs[r] # NoRow => req[r].pc \in Ended
        /\ req[r].pc \notin {"widen", "commit"} \union Ended => obsLock[r] # r
        /\ \A p \in req[r].todo : p[1] # r /\ req[r].pc \in {"start", "write"}

\* The range of each Datastream is that of its Observations.
Tight == \A d \in Datastream : time[d] = Hull({obs[o].g : o \in Rows(d)})

\* The Datastreams whose range request r has yet to bring up to date.
Due(r) ==
    CASE req[r].pc \in {"write", "measure"} -> req[r].stale
      [] req[r].pc = "replace" -> req[r].stale \union {req[r].here}
      [] req[r].pc = "widen" -> {req[r].ds}
      [] OTHER -> {}

\* What an open request sees: every range is that of the Observations but for those that
\* are due, of which it knows how to make it so.
Tidy(r) ==
    LET q == req[r] IN
    /\ \A d \in Datastream \ Due(r) : SeenTime(r, d) = Hull(Times(r, d))
    /\ q.pc = "widen" => \E gs \in SUBSET Period : /\ Times(r, q.ds) = gs \union {q.g}
                                                   /\ SeenTime(r, q.ds) = Hull(gs)
    /\ q.pc = "replace" => q.here \notin q.stale /\ q.next = Hull(Times(r, q.here))
    /\ q.kind = "delete" =>
          /\ \A x, y \in q.todo : x = y
          /\ q.pc = "look" \/ q.todo # {} => q.stale = {}
          /\ \A d \in q.stale :
                q.old \in Period /\ SeenTime(r, d) = Hull(Times(r, d) \union {q.old})

SInv == GInv /\ Sole /\ Unborn /\ (Calm => Tight /\ \A r \in Open : Tidy(r))

\* A statement writes one Observation, or none.
LEMMA WriteRequest ==
    ASSUME TInv, NEW r \in Req, Write(r)
    PROVE  /\ req[r].pc = "write" /\ req'[r].pc = "write" /\ TimeUnchanged
           /\ \E x \in req[r].todo :
                LET row == SeenObs(r, x[1])
                    same == row # NoRow /\ row.at = x[2] IN
                /\ x[1] \in Req /\ row \in ObsRow \union {NoRow}
                /\ obsLock[x[1]] \in {NoReq, r}
                /\ req'[r].todo = req[r].todo \ {x}
                /\ same => /\ WriteObs(r, x[1], Changed(r, row))
                           /\ req'[r].stale = req[r].stale \union {row.ds}
                           /\ req'[r].old = row.g
                /\ ~same => /\ ObsUnchanged
                            /\ req'[r].stale = req[r].stale /\ req'[r].old = req[r].old
  <1>0. req \in [Req -> Request] /\ req[r] \in Request
    BY DEF TInv, TypeOK
  <1>1. PICK x \in req[r].todo :
            LET row == SeenObs(r, x[1])
                same == row # NoRow /\ row.at = x[2] IN
            /\ obsLock[x[1]] \in {NoReq, r}
            /\ IF same THEN WriteObs(r, x[1], Changed(r, row)) ELSE ObsUnchanged
            /\ req' = [req EXCEPT
                 ![r].todo = @ \ {x},
                 ![r].old = IF same THEN row.g ELSE @,
                 ![r].ds = IF same /\ req[r].kind = "change" THEN row.ds ELSE @,
                 ![r].stale = IF same THEN @ \union {row.ds} ELSE @]
    BY DEF Write
  <1>2. x[1] \in Req /\ SeenObs(r, x[1]) \in ObsRow \union {NoRow}
    BY <1>0, <1>1, SeenTypes DEF Request, TInv
  <1> DEFINE row == SeenObs(r, x[1])
             same == row # NoRow /\ row.at = x[2]
  <1>3. /\ req'[r].todo = req[r].todo \ {x} /\ req'[r].pc = req[r].pc
        /\ req'[r].stale = IF same THEN req[r].stale \union {row.ds} ELSE req[r].stale
        /\ req'[r].old = IF same THEN row.g ELSE req[r].old
    <2>1. CASE same
      <3>1. req' = [req EXCEPT ![r].todo = @ \ {x}, ![r].old = row.g,
                               ![r].ds = IF req[r].kind = "change" THEN row.ds ELSE @,
                               ![r].stale = @ \union {row.ds}]
        BY <1>1, <2>1
      <3> HIDE DEF row
      <3> QED BY <1>0, <2>1, <3>1 DEF Request
    <2>2. CASE ~same
      <3>1. req' = [req EXCEPT ![r].todo = @ \ {x}, ![r].old = @, ![r].ds = @, ![r].stale = @]
        BY <1>1, <2>2
      <3> QED BY <1>0, <2>2, <3>1 DEF Request
    <2> QED BY <2>1, <2>2
  <1>4. req[r].pc = "write" /\ TimeUnchanged
    BY DEF Write
  <1> QED BY <1>1, <1>2, <1>3, <1>4

\* The other steps of a request: what they change of what it knows.
LEMMA FieldsAfter ==
    ASSUME TInv, NEW r \in Req
    PROVE  LET q == req[r]
               p == req'[r] IN
           /\ Written(r) =>
                /\ p.todo = q.todo /\ p.stale = q.stale /\ p.old = q.old /\ p.g = q.g /\ p.ds = q.ds
                /\ p.pc \in {"insert", "commit", "widen", "measure"}
                /\ p.pc = "insert" => q.kind = "force"
                /\ q.kind \notin {"change", "link"} =>
                     /\ p.pc # "widen"
                     /\ p.pc # "measure" => q.stale = {}
           /\ Insert(r) => p = [q EXCEPT !.pc = "widen"]
           /\ SetTime(r) \/ WidenTime(r) => p = [q EXCEPT !.pc = "commit"]
           /\ Measure(r) => \E d \in q.stale :
                p = [q EXCEPT !.pc = "replace", !.stale = q.stale \ {d}, !.here = d,
                              !.next = Remeasured(r, d)]
           /\ Replace(r) => \E n \in {"measure", "insert", "commit"} :
                /\ p = [q EXCEPT !.pc = n]
                /\ n # "measure" => q.stale = {}
                /\ n = "insert" => q.kind = "force"
           /\ Start(r) => /\ p.pc = "write" /\ p.stale = q.stale
                          /\ \A y \in p.todo : \E x \in q.todo : y[1] = x[1]
           /\ Commit(r) \/ Cancel(r) => p.pc \in Ended /\ p.todo = {}
  <1>0. req \in [Req -> Request] /\ req[r] \in Request
    BY DEF TInv, TypeOK
  <1> DEFINE q == req[r]
             p == req'[r]
  <1>1. ASSUME Written(r)
        PROVE  /\ p.todo = q.todo /\ p.stale = q.stale /\ p.old = q.old /\ p.g = q.g /\ p.ds = q.ds
               /\ p.pc \in {"insert", "commit", "widen", "measure"}
               /\ p.pc = "insert" => q.kind = "force"
               /\ q.kind \notin {"change", "link"} =>
                    /\ p.pc # "widen"
                    /\ p.pc # "measure" => q.stale = {}
    BY <1>0, <1>1 DEF Written, Request
  <1>2. Insert(r) => p = [q EXCEPT !.pc = "widen"]
    BY <1>0 DEF Insert
  <1>3. SetTime(r) \/ WidenTime(r) => p = [q EXCEPT !.pc = "commit"]
    BY <1>0 DEF SetTime, WidenTime
  <1>4. Measure(r) => \E d \in q.stale :
                p = [q EXCEPT !.pc = "replace", !.stale = q.stale \ {d}, !.here = d,
                              !.next = Remeasured(r, d)]
    BY <1>0 DEF Measure
  <1>5. Replace(r) => \E n \in {"measure", "insert", "commit"} :
                /\ p = [q EXCEPT !.pc = n]
                /\ n # "measure" => q.stale = {}
                /\ n = "insert" => q.kind = "force"
    BY <1>0 DEF Replace
  <1>6. ASSUME Start(r)
        PROVE  /\ p.pc = "write" /\ p.stale = q.stale
               /\ \A y \in p.todo : \E x \in q.todo : y[1] = x[1]
    <2> DEFINE t == {<<o, obs[o].at>> : o \in {x[1] : x \in {y \in q.todo : obs[y[1]] # NoRow}}}
    <2>1. req' = [req EXCEPT ![r] = [q EXCEPT !.pc = "write", !.todo = t]]
      BY <1>6 DEF Start
    <2>2. \A y \in t : \E x \in q.todo : y[1] = x[1]
      OBVIOUS
    <2> HIDE DEF t
    <2>3. p.pc = "write" /\ p.stale = q.stale /\ p.todo = t
      BY <1>0, <2>1 DEF Request
    <2> QED BY <2>2, <2>3
  <1>7. ASSUME Commit(r) \/ Cancel(r)
        PROVE  p.pc \in Ended /\ p.todo = {}
    <2>1. PICK how \in Ended : req' = [req EXCEPT ![r] = [Idle EXCEPT !.kind = q.kind, !.pc = how]]
      BY <1>7 DEF Commit, Cancel, Finish, Ended
    <2>2. p = [Idle EXCEPT !.kind = q.kind, !.pc = how]
      BY <1>0, <2>1
    <2> QED BY <2>1, <2>2, ZenonT(60) DEF Idle
  <1> QED BY <1>1, <1>2, <1>3, <1>4, <1>5, <1>6, <1>7

\* What a request sees after it wrote an Observation or a range, or nothing.
LEMMA Views ==
    ASSUME TypeOK, NEW r \in Req
    PROVE  /\ ObsUnchanged => /\ \A o \in Req : SeenObs(r, o)' = SeenObs(r, o)
                              /\ \A d : Times(r, d)' = Times(r, d)
           /\ TimeUnchanged => \A d : SeenTime(r, d)' = SeenTime(r, d)
           /\ \A o \in Req : \A row : WriteObs(r, o, row) =>
                /\ SeenObs(r, o)' = row
                /\ \A p \in Req : p # o => SeenObs(r, p)' = SeenObs(r, p)
           /\ \A d \in Datastream : \A g : WriteTime(r, d, g) =>
                /\ SeenTime(r, d)' = g
                /\ \A e \in Datastream : e # d => SeenTime(r, e)' = SeenTime(r, e)
           /\ (\A o \in Req : obsLock[o] # r) =>
                \A d \in Datastream : Times(r, d) = {obs[o].g : o \in Rows(d)}
           /\ (\A d \in Datastream : timeLock[d] # r) =>
                \A d \in Datastream : SeenTime(r, d) = time[d]
  <1>1. ASSUME ObsUnchanged
        PROVE  /\ \A o \in Req : SeenObs(r, o)' = SeenObs(r, o)
               /\ \A d : Times(r, d)' = Times(r, d)
    BY <1>1 DEF ObsUnchanged, SeenObs, Times
  <1>2. TimeUnchanged => \A d : SeenTime(r, d)' = SeenTime(r, d)
    BY DEF TimeUnchanged, SeenTime
  <1>3. ASSUME NEW o \in Req, NEW row, WriteObs(r, o, row)
        PROVE  /\ SeenObs(r, o)' = row
               /\ \A p \in Req : p # o => SeenObs(r, p)' = SeenObs(r, p)
    BY <1>3 DEF WriteObs, SeenObs, TypeOK
  <1>4. ASSUME NEW d \in Datastream, NEW g, WriteTime(r, d, g)
        PROVE  /\ SeenTime(r, d)' = g
               /\ \A e \in Datastream : e # d => SeenTime(r, e)' = SeenTime(r, e)
    BY <1>4 DEF WriteTime, SeenTime, TypeOK
  <1>5. ASSUME \A o \in Req : obsLock[o] # r, NEW d \in Datastream
        PROVE  Times(r, d) = {obs[o].g : o \in Rows(d)}
    <2>1. \A o \in Req : SeenObs(r, o) = obs[o]
      BY <1>5 DEF SeenObs
    <2>2. {p \in Req : SeenObs(r, p) # NoRow /\ SeenObs(r, p).ds = d} = Rows(d)
      BY <2>1 DEF Rows
    <2> QED BY <2>1, <2>2 DEF Times, Rows
  <1>6. (\A d \in Datastream : timeLock[d] # r) =>
           \A d \in Datastream : SeenTime(r, d) = time[d]
    BY DEF SeenTime
  <1> QED BY <1>1, <1>2, <1>3, <1>4, <1>5, <1>6

\* Which requests are open after a step.
LEMMA OpenStep ==
    ASSUME TInv, NEW r \in Req, Begin(r) \/ Step(r)
    PROVE  /\ Begin(r) => r \notin Open /\ Open' = Open \union {r}
           /\ Commit(r) \/ Cancel(r) => r \in Open /\ Open' = Open \ {r}
           /\ Step(r) /\ ~Commit(r) /\ ~Cancel(r) => r \in Open /\ Open' = Open
  <1>1. \A s \in Req : s # r => req'[s] = req[s]
    BY RequestAfter
  <1>2. CASE Begin(r)
    <2>1. req[r].pc = "idle" /\ req'[r].pc \in {"insert", "set", "look"}
      BY <1>2, BeginRequest DEF Begin
    <2>2. ~Step(r)
      BY <2>1 DEF Step, Look, Start, Write, Written, Insert, SetTime, WidenTime, Measure, Replace,
                  Commit, Cancel, Open
    <2> QED BY <1>1, <2>1, <2>2 DEF Open, Ended, Step, Commit, Cancel
  <1>3. CASE Commit(r) \/ Cancel(r)
    <2>1. req'[r].pc \in Ended
      BY <1>3, FieldsAfter
    <2>2. r \in Open
      BY <1>3 DEF Commit, Cancel, Open, Ended
    <2>3. ~Begin(r)
      BY <2>2 DEF Begin, Open
    <2> QED BY <1>1, <1>3, <2>1, <2>2, <2>3 DEF Open
  <1>4. CASE Step(r) /\ ~Commit(r) /\ ~Cancel(r)
    <2>1. req[r].pc \notin Ended \union {"idle"}
      BY <1>4 DEF Step, Look, Start, Write, Written, Insert, SetTime, WidenTime, Measure, Replace,
                  Ended
    <2>2. req'[r].pc \notin Ended \union {"idle"}
      <3>0. req \in [Req -> Request] /\ req[r] \in Request
        BY DEF TInv, TypeOK
      <3>1. CASE Look(r)
        <4>1. PICK s \in Named(r) : req' = [req EXCEPT
                 ![r].pc = IF req[r].kind \in {"filtered", "force"} THEN "start" ELSE "write",
                 ![r].todo = {<<o, obs[o].at>> : o \in s}]
          BY <3>1 DEF Look
        <4>2. req'[r].pc \in {"start", "write"}
          BY <3>0, <4>1 DEF Request
        <4> QED BY <4>2 DEF Ended
      <3>2. CASE Write(r)
        BY <3>2, WriteRequest DEF Ended
      <3>3. CASE Start(r)
        BY <3>3, FieldsAfter DEF Ended
      <3>4. CASE Written(r)
        BY <3>4, FieldsAfter DEF Ended
      <3>5. CASE Insert(r) \/ SetTime(r) \/ WidenTime(r)
        <4>1. req' = [req EXCEPT ![r].pc = "widen"] \/ req' = [req EXCEPT ![r].pc = "commit"]
          BY <3>5 DEF Insert, SetTime, WidenTime
        <4>2. req'[r].pc \in {"widen", "commit"}
          BY <3>0, <4>1 DEF Request
        <4> QED BY <4>2 DEF Ended
      <3>6. CASE Measure(r)
        <4>1. PICK d \in req[r].stale :
                req'[r] = [req[r] EXCEPT !.pc = "replace", !.stale = req[r].stale \ {d},
                                         !.here = d, !.next = Remeasured(r, d)]
          BY <3>6, FieldsAfter
        <4>2. req'[r].pc = "replace"
          BY <3>0, <4>1 DEF Request
        <4> QED BY <4>2 DEF Ended
      <3>7. CASE Replace(r)
        <4>1. PICK n \in {"measure", "insert", "commit"} : req'[r] = [req[r] EXCEPT !.pc = n]
          BY <3>7, FieldsAfter
        <4>2. req'[r].pc = n
          BY <3>0, <4>1 DEF Request
        <4> QED BY <4>2 DEF Ended
      <3> QED BY <1>4, <3>1, <3>2, <3>3, <3>4, <3>5, <3>6, <3>7 DEF Step
    <2>3. ~Begin(r)
      BY <2>1 DEF Begin
    <2> QED BY <1>1, <1>4, <2>1, <2>2, <2>3 DEF Open
  <1> QED BY <1>2, <1>3, <1>4

\* What a step does to the locks: r takes some, or ends and gives all back.
LEMMA LocksStep ==
    ASSUME TInv, NEW r \in Req, Begin(r) \/ Step(r)
    PROVE  /\ \A o \in Req : obsLock'[o] \in {obsLock[o], r, NoReq}
           /\ \A d \in Datastream : timeLock'[d] \in {timeLock[d], r, NoReq}
           /\ Begin(r) => ObsUnchanged /\ TimeUnchanged
           /\ Commit(r) \/ Cancel(r) => /\ \A o \in Req : obsLock'[o] # r
                                        /\ \A d \in Datastream : timeLock'[d] # r
  <1>0. /\ obsLock \in [Req -> Req \union {NoReq}] /\ timeLock \in [Datastream -> Req \union {NoReq}]
        /\ req \in [Req -> Request]
    BY DEF TInv, TypeOK
  <1> DEFINE Taken == /\ \A o \in Req : obsLock'[o] \in {obsLock[o], r, NoReq}
                      /\ \A d \in Datastream : timeLock'[d] \in {timeLock[d], r, NoReq}
  <1>1. ASSUME Begin(r) \/ Look(r) \/ Start(r) \/ Written(r) \/ Measure(r)
        PROVE  Taken
    BY <1>0, <1>1 DEF Begin, Look, Start, Written, Measure, ObsUnchanged, TimeUnchanged
  <1>2. ASSUME Write(r)
        PROVE  Taken
    <2>1. PICK x \in req[r].todo : /\ x[1] \in Req /\ TimeUnchanged
                                   /\ ObsUnchanged \/ \E row : WriteObs(r, x[1], row)
      BY <1>2, WriteRequest
    <2>2. Taken
      BY <1>0, <2>1 DEF WriteObs, ObsUnchanged, TimeUnchanged
    <2> QED BY <2>2
  <1>3. ASSUME Insert(r)
        PROVE  Taken
    BY <1>0, <1>3 DEF Insert, WriteObs, TimeUnchanged
  <1>4. ASSUME SetTime(r) \/ WidenTime(r)
        PROVE  Taken
    BY <1>0, <1>4 DEF SetTime, WidenTime, WriteTime, ObsUnchanged
  <1>5. ASSUME Replace(r)
        PROVE  Taken
    BY <1>0, <1>5 DEF Replace, WriteTime, ObsUnchanged
  <1>6. ASSUME Commit(r) \/ Cancel(r)
        PROVE  Taken
    BY <1>0, <1>6 DEF Commit, Cancel, Finish
  <1>7. Taken
    BY <1>1, <1>2, <1>3, <1>4, <1>5, <1>6 DEF Step
  <1>8. Begin(r) => ObsUnchanged /\ TimeUnchanged
    BY DEF Begin
  <1>9. ASSUME Commit(r) \/ Cancel(r)
        PROVE  /\ \A o \in Req : obsLock'[o] # r
               /\ \A d \in Datastream : timeLock'[d] # r
    BY <1>0, <1>9, NoReqAssumption DEF Commit, Cancel, Finish
  <1> QED BY <1>7, <1>8, <1>9

\* Alone, a request is the only open one, and only open requests hold rows.
LEMMA SoleStep ==
    ASSUME TInv, Sole, NEW r \in Req, Begin(r) \/ Step(r)
    PROVE  Sole'
  <1>1. /\ Begin(r) => r \notin Open /\ Open' = Open \union {r}
        /\ Commit(r) \/ Cancel(r) => r \in Open /\ Open' = Open \ {r}
        /\ Step(r) /\ ~Commit(r) /\ ~Cancel(r) => r \in Open /\ Open' = Open
    BY OpenStep
  <1>2. alone' => \A s, t \in Open' : s = t
    <2>1. CASE Begin(r)
      BY <1>1, <2>1 DEF Begin
    <2>2. CASE Step(r)
      <3>1. alone' = alone
        BY <2>2 DEF Step
      <3> QED BY <1>1, <2>2, <3>1 DEF Sole
    <2> QED BY <2>1, <2>2
  <1>3. /\ \A o \in Req : obsLock'[o] # NoReq => obsLock'[o] \in Open'
        /\ \A d \in Datastream : timeLock'[d] # NoReq => timeLock'[d] \in Open'
    <2>1. CASE Commit(r) \/ Cancel(r)
      BY <1>1, <2>1, LocksStep DEF Sole
    <2>2. CASE ~Commit(r) /\ ~Cancel(r)
      <3>1. r \in Open' /\ Open \subseteq Open'
        BY <1>1, <2>2
      <3> QED BY <3>1, LocksStep DEF Sole
    <2> QED BY <2>1, <2>2
  <1> QED BY <1>2, <1>3 DEF Sole

\* Who is not there yet is not deleted, and a request inserts after it deleted.
LEMMA UnbornStep ==
    ASSUME TInv, OwnNew, Unborn, NEW r \in Req, Begin(r) \/ Step(r)
    PROVE  Unborn'
  <1>0. /\ req \in [Req -> Request] /\ req[r] \in Request
        /\ obs \in [Req -> ObsRow \union {NoRow}] /\ obsLock \in [Req -> Req \union {NoReq}]
        /\ \A s \in Req : s # r => req'[s] = req[s]
    BY RequestAfter DEF TInv, TypeOK
  <1>1. ASSUME NEW s \in Req, obs'[s] # NoRow
        PROVE  req'[s].pc \in Ended
    <2>1. CASE Commit(r)
      <3>1. obs'[s] = SeenObs(r, s) /\ req'[r].pc \in Ended
        BY <2>1, FieldsAfter DEF Commit, Finish
      <3>2. s = r \/ obs[s] # NoRow
        BY <1>1, <3>1, NoReqAssumption DEF SeenObs, OwnNew
      <3> QED BY <1>0, <3>1, <3>2 DEF Unborn
    <2>2. CASE ~Commit(r)
      <3>1. obs' = obs
        BY <2>2 DEF Begin, Step, Look, Start, Write, Written, Insert, SetTime, WidenTime,
             Measure, Replace, Cancel, Finish, ObsUnchanged, WriteObs
      <3>2. req[s].pc \in Ended
        BY <1>1, <3>1 DEF Unborn
      <3>3. s # r \/ Cancel(r)
        BY <2>2, <3>2, OpenStep DEF Open, Begin, Ended
      <3> QED BY <1>0, <3>2, <3>3, FieldsAfter
    <2> QED BY <2>1, <2>2
  <1>2. ASSUME NEW s \in Req, s # r, req'[s].pc \notin {"widen", "commit"} \union Ended
        PROVE  obsLock'[s] # s
    BY <1>0, <1>2, LocksStep, NoReqAssumption DEF Unborn
  <1>3. /\ req'[r].pc \notin {"widen", "commit"} \union Ended => obsLock'[r] # r
        /\ \A p \in req'[r].todo : p[1] # r /\ req'[r].pc \in {"start", "write"}
    <2>0. /\ req[r].pc \notin {"widen", "commit"} \union Ended => obsLock[r] # r
          /\ \A p \in req[r].todo : p[1] # r /\ req[r].pc \in {"start", "write"}
      BY DEF Unborn
    <2>1. CASE Begin(r)
      BY <1>0, <2>0, <2>1, BeginRequest DEF Begin, ObsUnchanged, Ended
    <2>2. CASE Look(r)
      <3>1. PICK s \in Named(r) : req' = [req EXCEPT
               ![r].pc = IF req[r].kind \in {"filtered", "force"} THEN "start" ELSE "write",
               ![r].todo = {<<o, obs[o].at>> : o \in s}]
        BY <2>2 DEF Look
      <3>2. req'[r].pc \in {"start", "write"} /\ req'[r].todo = {<<o, obs[o].at>> : o \in s}
        BY <1>0, <3>1 DEF Request
      <3>3. \A o \in s : o \in Req /\ obs[o] # NoRow
        BY <3>1 DEF Named
      <3>4. r \notin s
        BY <2>2, <3>3 DEF Look, Unborn, Ended
      <3>5. \A p \in req'[r].todo : p[1] # r
        BY <3>2, <3>4
      <3>6. req[r].pc = "look" /\ obsLock' = obsLock
        BY <2>2 DEF Look, ObsUnchanged
      <3> QED BY <2>0, <3>2, <3>5, <3>6 DEF Ended
    <2>3. CASE Start(r)
      <3>1. req'[r].pc = "write" /\ \A y \in req'[r].todo : \E x \in req[r].todo : y[1] = x[1]
        BY <2>3, FieldsAfter
      <3> QED BY <2>0, <2>3, <3>1 DEF Start, ObsUnchanged, Ended
    <2>4. CASE Write(r)
      <3>1. PICK x \in req[r].todo : /\ x[1] \in Req /\ req'[r].todo = req[r].todo \ {x}
                                     /\ ObsUnchanged \/ \E row : WriteObs(r, x[1], row)
        BY <2>4, WriteRequest
      <3>2. req[r].pc = "write" /\ req'[r].pc = "write"
        BY <2>4, WriteRequest
      <3>3. obsLock'[r] = obsLock[r]
        BY <1>0, <2>0, <3>1 DEF ObsUnchanged, WriteObs
      <3> QED BY <2>0, <3>1, <3>2, <3>3 DEF Ended
    <2>5. CASE Written(r)
      <3>1. req'[r].todo = {} /\ req[r].pc = "write" /\ ObsUnchanged
        BY <2>5, FieldsAfter DEF Written
      <3> QED BY <2>0, <3>1 DEF ObsUnchanged, Ended
    <2>6. CASE Insert(r) \/ SetTime(r) \/ WidenTime(r)
      <3>1. req' = [req EXCEPT ![r].pc = "widen"] \/ req' = [req EXCEPT ![r].pc = "commit"]
        BY <2>6 DEF Insert, SetTime, WidenTime
      <3>2. req'[r].pc \in {"widen", "commit"} /\ req'[r].todo = req[r].todo
        BY <1>0, <3>1 DEF Request
      <3>3. req[r].pc \notin {"start", "write"}
        BY <2>6 DEF Insert, SetTime, WidenTime
      <3> QED BY <2>0, <3>2, <3>3
    <2>7. CASE Measure(r)
      <3>1. PICK d \in req[r].stale :
              req'[r] = [req[r] EXCEPT !.pc = "replace", !.stale = req[r].stale \ {d},
                                       !.here = d, !.next = Remeasured(r, d)]
        BY <2>7, FieldsAfter
      <3>2. req'[r].todo = req[r].todo /\ req[r].pc = "measure" /\ ObsUnchanged
        BY <1>0, <2>7, <3>1 DEF Request, Measure
      <3> QED BY <2>0, <3>2 DEF ObsUnchanged, Ended
    <2>8. CASE Replace(r)
      <3>1. PICK n \in {"measure", "insert", "commit"} : req'[r] = [req[r] EXCEPT !.pc = n]
        BY <2>8, FieldsAfter
      <3>2. req'[r].todo = req[r].todo /\ req[r].pc = "replace" /\ ObsUnchanged
        BY <1>0, <2>8, <3>1 DEF Request, Replace
      <3> QED BY <2>0, <3>2 DEF ObsUnchanged, Ended
    <2>9. CASE Commit(r) \/ Cancel(r)
      BY <2>9, FieldsAfter
    <2> QED BY <2>1, <2>2, <2>3, <2>4, <2>5, <2>6, <2>7, <2>8, <2>9 DEF Step
  <1>4. \A s \in Req : s # r => \A p \in req'[s].todo : p[1] # s /\ req'[s].pc \in {"start", "write"}
    BY <1>0 DEF Unborn
  <1> QED BY <1>1, <1>2, <1>3, <1>4 DEF Unborn

\* The times of a Datastream after its Observation o was written.
LEMMA TimesAfter ==
    ASSUME TypeOK, NEW r \in Req, NEW o \in Req, NEW row, WriteObs(r, o, row), NEW d
    PROVE  LET was == SeenObs(r, o) IN
           /\ (was # NoRow /\ row = NoRow) =>
                Times(r, d) = Times(r, d)' \union (IF was.ds = d THEN {was.g} ELSE {})
           /\ (was = NoRow /\ row # NoRow) =>
                Times(r, d)' = Times(r, d) \union (IF row.ds = d THEN {row.g} ELSE {})
  <1> DEFINE was == SeenObs(r, o)
             Of == {p \in Req : SeenObs(r, p) # NoRow /\ SeenObs(r, p).ds = d}
             After == {p \in Req : SeenObs(r, p)' # NoRow /\ SeenObs(r, p)'.ds = d}
             Others == {p \in Req : p # o /\ SeenObs(r, p) # NoRow /\ SeenObs(r, p).ds = d}
  <1>1. /\ SeenObs(r, o)' = row
        /\ \A p \in Req : p # o => SeenObs(r, p)' = SeenObs(r, p)
    BY Views
  <1>2. /\ Times(r, d) = {SeenObs(r, p).g : p \in Of}
        /\ Times(r, d)' = {SeenObs(r, p)'.g : p \in After}
    BY DEF Times
  <1>3. ASSUME was # NoRow, row = NoRow
        PROVE  Times(r, d) = Times(r, d)' \union (IF was.ds = d THEN {was.g} ELSE {})
    <2>1. After = Others
      BY <1>1, <1>3
    <2>2. Times(r, d)' = {SeenObs(r, p).g : p \in Others}
      BY <1>1, <1>2, <2>1
    <2>3. CASE was.ds = d
      <3>1. Of = Others \union {o}
        BY <1>3, <2>3
      <3> QED BY <1>2, <2>2, <2>3, <3>1
    <2>4. CASE was.ds # d
      <3>1. Of = Others
        BY <1>3, <2>4
      <3> QED BY <1>2, <2>2, <2>4, <3>1
    <2> QED BY <2>3, <2>4
  <1>4. ASSUME was = NoRow, row # NoRow
        PROVE  Times(r, d)' = Times(r, d) \union (IF row.ds = d THEN {row.g} ELSE {})
    <2>1. Of = Others
      BY <1>4
    <2>2. {SeenObs(r, p)'.g : p \in Others} = Times(r, d)
      BY <1>1, <1>2, <2>1
    <2>3. CASE row.ds = d
      <3>1. After = Others \union {o}
        BY <1>1, <1>4, <2>3
      <3> QED BY <1>1, <1>2, <2>2, <2>3, <3>1
    <2>4. CASE row.ds # d
      <3>1. After = Others
        BY <1>1, <1>4, <2>4
      <3> QED BY <1>2, <2>2, <2>4, <3>1
    <2> QED BY <2>3, <2>4
  <1> QED BY <1>3, <1>4

\* The only open request keeps track of the ranges it has made stale.
LEMMA TidyStep ==
    ASSUME TInv, Unborn, NEW r \in Req, Tidy(r), Step(r), ~Commit(r), ~Cancel(r),
           req[r].kind \in {"post", "delete", "filtered", "force"}
    PROVE  Tidy(r)'
  <1> DEFINE q == req[r]
             p == req'[r]
  <1>0. /\ TypeOK /\ q \in Request /\ Knows(q) /\ req \in [Req -> Request]
        /\ p.kind = q.kind
        /\ \A d \in Datastream : Times(r, d) \in SUBSET Period
    BY RequestAfter, SeenTypes, OpenStep DEF TInv, TypeOK, Open
  <1>1. /\ \A d \in Datastream \ Due(r) : SeenTime(r, d) = Hull(Times(r, d))
        /\ q.pc = "widen" => \E gs \in SUBSET Period : /\ Times(r, q.ds) = gs \union {q.g}
                                                       /\ SeenTime(r, q.ds) = Hull(gs)
        /\ q.pc = "replace" => q.here \notin q.stale /\ q.next = Hull(Times(r, q.here))
        /\ q.kind = "delete" =>
              /\ \A x, y \in q.todo : x = y
              /\ q.pc = "look" \/ q.todo # {} => q.stale = {}
              /\ \A d \in q.stale :
                    q.old \in Period /\ SeenTime(r, d) = Hull(Times(r, d) \union {q.old})
    BY DEF Tidy
  <1>2. CASE Look(r) \/ Start(r)
    <2>1. p.pc \in {"start", "write"} /\ p.stale = q.stale /\ Due(r) = {}
      <3>1. CASE Look(r)
        <4>1. PICK s \in Named(r) : req' = [req EXCEPT
                 ![r].pc = IF req[r].kind \in {"filtered", "force"} THEN "start" ELSE "write",
                 ![r].todo = {<<o, obs[o].at>> : o \in s}]
          BY <3>1 DEF Look
        <4>2. p.pc \in {"start", "write"} /\ p.stale = q.stale
          BY <1>0, <4>1 DEF Request
        <4> QED BY <3>1, <4>2 DEF Look, Due
      <3>2. CASE Start(r)
        BY <3>2, FieldsAfter DEF Start, Due
      <3> QED BY <1>2, <3>1, <3>2
    <2>2. /\ \A d \in Datastream : Times(r, d)' = Times(r, d) /\ SeenTime(r, d)' = SeenTime(r, d)
      BY <1>0, <1>2, Views DEF Look, Start
    <2>3. q.kind = "delete" => p.stale = {} /\ \A x, y \in p.todo : x = y
      <3>1. q.kind = "delete" => Look(r)
        BY <1>0, <1>2 DEF Start, Knows, StepsOf, Ended
      <3> QED BY <1>1, <2>1, <3>1, LookRequest
    <2> QED BY <1>0, <1>1, <2>1, <2>2, <2>3 DEF Tidy
  <1>3. CASE Write(r)
    <2>1. /\ q.pc = "write" /\ p.pc = "write"
          /\ \A d \in Datastream : SeenTime(r, d)' = SeenTime(r, d)
          /\ Due(r) = q.stale /\ Due(r)' = p.stale
      BY <1>0, <1>3, WriteRequest, Views DEF Due
    <2>2. PICK x \in req[r].todo :
            LET row == SeenObs(r, x[1])
                same == row # NoRow /\ row.at = x[2] IN
            /\ x[1] \in Req /\ row \in ObsRow \union {NoRow}
            /\ obsLock[x[1]] \in {NoReq, r}
            /\ req'[r].todo = req[r].todo \ {x}
            /\ same => /\ WriteObs(r, x[1], Changed(r, row))
                       /\ req'[r].stale = req[r].stale \union {row.ds}
                       /\ req'[r].old = row.g
            /\ ~same => /\ ObsUnchanged
                        /\ req'[r].stale = req[r].stale /\ req'[r].old = req[r].old
      BY <1>3, WriteRequest
    <2>3. CASE ObsUnchanged /\ p.stale = q.stale /\ p.old = q.old
      <3>1. \A d \in Datastream : Times(r, d)' = Times(r, d)
        BY <1>0, <2>3, Views
      <3> QED BY <1>0, <1>1, <2>1, <2>2, <2>3, <3>1 DEF Tidy, Request
    <2>4. CASE /\ SeenObs(r, x[1]) # NoRow
               /\ WriteObs(r, x[1], Changed(r, SeenObs(r, x[1])))
               /\ p.stale = q.stale \union {SeenObs(r, x[1]).ds}
               /\ p.old = SeenObs(r, x[1]).g
      <3> DEFINE row == SeenObs(r, x[1])
      <3>1. Changed(r, row) = NoRow /\ row \in ObsRow
        BY <1>0, <2>2, <2>4 DEF Changed
      <3>2. \A d \in Datastream :
              Times(r, d) = Times(r, d)' \union (IF row.ds = d THEN {row.g} ELSE {})
        BY <1>0, <2>2, <2>4, <3>1, TimesAfter
      <3>3. row.ds \in Datastream /\ row.g \in Period
        BY <3>1 DEF ObsRow
      <3> HIDE DEF row
      <3>4. \A d \in Datastream \ Due(r)' : SeenTime(r, d)' = Hull(Times(r, d)')
        <4>1. SUFFICES ASSUME NEW d \in Datastream, d \notin q.stale, row.ds # d
                       PROVE  SeenTime(r, d)' = Hull(Times(r, d)')
          BY <2>1, <2>4 DEF row
        <4>2. Times(r, d)' = Times(r, d)
          BY <3>2, <4>1
        <4>3. SeenTime(r, d) = Hull(Times(r, d))
          BY <1>1, <2>1, <4>1
        <4> QED BY <2>1, <4>2, <4>3
      <3>5. ASSUME q.kind = "delete"
            PROVE  /\ \A y, z \in p.todo : y = z
                   /\ p.pc = "look" \/ p.todo # {} => p.stale = {}
                   /\ \A d \in p.stale :
                         p.old \in Period /\ SeenTime(r, d)' = Hull(Times(r, d)' \union {p.old})
        <4>1. p.todo = {} /\ q.stale = {} /\ p.stale = {row.ds} /\ p.old = row.g
          BY <1>1, <2>2, <2>4, <3>5 DEF row
        <4>2. SeenTime(r, row.ds) = Hull(Times(r, row.ds))
          BY <1>1, <2>1, <3>3, <4>1
        <4>3. Times(r, row.ds) = Times(r, row.ds) \union {row.g}
          BY <3>2, <3>3
        <4>4. \A d \in Datastream : row.ds = d =>
                 SeenTime(r, d)' = Hull(Times(r, d)' \union {p.old})
          BY <2>1, <3>2, <4>1, <4>2
        <4> QED BY <2>1, <3>3, <4>1, <4>4
      <3> QED BY <1>0, <2>1, <3>4, <3>5 DEF Tidy
    <2> QED BY <2>2, <2>3, <2>4
  <1>4. CASE Written(r)
    <2>1. /\ q.pc = "write" /\ q.todo = {}
          /\ \A d \in Datastream : Times(r, d)' = Times(r, d) /\ SeenTime(r, d)' = SeenTime(r, d)
      BY <1>0, <1>4, Views DEF Written
    <2>2. /\ p.todo = q.todo /\ p.stale = q.stale /\ p.old = q.old
          /\ p.pc \in {"insert", "commit", "measure"}
          /\ p.pc # "measure" => q.stale = {}
      BY <1>0, <1>4, FieldsAfter
    <2>3. Due(r) = q.stale /\ Due(r)' = q.stale
      BY <2>1, <2>2 DEF Due
    <2>4. \A d \in Datastream \ Due(r)' : SeenTime(r, d)' = Hull(Times(r, d)')
      BY <1>1, <2>1, <2>3
    <2>5. p.kind = "delete" =>
              /\ \A x, y \in p.todo : x = y
              /\ p.pc = "look" \/ p.todo # {} => p.stale = {}
              /\ \A d \in p.stale :
                    p.old \in Period /\ SeenTime(r, d)' = Hull(Times(r, d)' \union {p.old})
      BY <1>0, <1>1, <2>1, <2>2 DEF Request
    <2> QED BY <2>2, <2>4, <2>5 DEF Tidy
  <1>5. CASE Insert(r)
    <2>1. p = [q EXCEPT !.pc = "widen"]
      BY <1>5, FieldsAfter
    <2>2. /\ q.pc = "insert" /\ p.pc = "widen" /\ p.ds = q.ds /\ p.g = q.g /\ p.stale = q.stale
          /\ p.todo = q.todo /\ p.old = q.old
      BY <1>0, <1>5, <2>1 DEF Insert, Request
    <2> DEFINE row == [ds |-> q.ds, g |-> q.g, at |-> 0]
    <2>3. q.ds \in Datastream /\ q.g \in Period
      BY <1>0, <2>2 DEF Knows, StepsOf, Ended
    <2>4. row \in ObsRow /\ row # NoRow /\ SeenObs(r, r) = NoRow
      BY <1>0, <2>2, <2>3, NoRowAssumption DEF ObsRow, Unborn, SeenObs, Ended
    <2>5. WriteObs(r, r, row) /\ TimeUnchanged
      BY <1>5 DEF Insert
    <2>6. \A d \in Datastream :
            /\ Times(r, d)' = Times(r, d) \union (IF row.ds = d THEN {row.g} ELSE {})
            /\ SeenTime(r, d)' = SeenTime(r, d)
      BY <1>0, <2>4, <2>5, TimesAfter, Views
    <2>7. Due(r) = {} /\ Due(r)' = {q.ds}
      BY <2>2 DEF Due
    <2>8. Times(r, q.ds) \in SUBSET Period /\ SeenTime(r, q.ds) = Hull(Times(r, q.ds))
      BY <1>0, <1>1, <2>3, <2>7
    <2>9. \A d \in Datastream : d = q.ds =>
            \E gs \in SUBSET Period : Times(r, d)' = gs \union {q.g} /\ SeenTime(r, d)' = Hull(gs)
      BY <2>6, <2>8
    <2>10. q.kind # "delete"
      BY <1>0, <2>2 DEF Knows, StepsOf, Ended
    <2> QED BY <1>0, <1>1, <2>2, <2>3, <2>6, <2>7, <2>9, <2>10 DEF Tidy
  <1>6. CASE WidenTime(r)
    <2>1. p = [q EXCEPT !.pc = "commit"]
      BY <1>6, FieldsAfter
    <2>2. q.pc = "widen" /\ p.pc = "commit" /\ q.kind # "delete"
      BY <1>0, <1>6, <2>1 DEF WidenTime, Request, Knows, StepsOf, Ended
    <2>3. q.ds \in Datastream /\ q.g \in Period
      BY <1>0, <2>2 DEF Knows, StepsOf, Ended
    <2>4. PICK gs \in SUBSET Period : /\ Times(r, q.ds) = gs \union {q.g}
                                      /\ SeenTime(r, q.ds) = Hull(gs)
      BY <1>1, <2>2
    <2>5. WriteTime(r, q.ds, Hull(Times(r, q.ds))) /\ ObsUnchanged
      BY <1>6, <2>3, <2>4, WidenHull DEF WidenTime
    <2>6. /\ \A d \in Datastream : d = q.ds => SeenTime(r, d)' = Hull(Times(r, d))
          /\ \A d \in Datastream : d # q.ds => SeenTime(r, d)' = SeenTime(r, d)
          /\ \A d \in Datastream : Times(r, d)' = Times(r, d)
      BY <1>0, <2>3, <2>5, Views
    <2>7. Due(r) = {q.ds} /\ Due(r)' = {}
      BY <2>2 DEF Due
    <2> QED BY <1>0, <1>1, <2>2, <2>6, <2>7 DEF Tidy
  <1>7. CASE Measure(r)
    <2>1. q.pc = "measure"
          /\ \A d \in Datastream : Times(r, d)' = Times(r, d) /\ SeenTime(r, d)' = SeenTime(r, d)
      BY <1>0, <1>7, Views DEF Measure
    <2>2. PICK d \in q.stale :
            p = [q EXCEPT !.pc = "replace", !.stale = q.stale \ {d}, !.here = d,
                          !.next = Remeasured(r, d)]
      BY <1>7, FieldsAfter
    <2>3. /\ p.pc = "replace" /\ p.stale = q.stale \ {d} /\ p.here = d /\ p.todo = q.todo
          /\ p.next = Remeasured(r, d) /\ p.old = q.old /\ d \in Datastream
      BY <1>0, <2>2 DEF Request
    <2>4. Remeasured(r, d) = Hull(Times(r, d))
      <3>1. CASE q.kind = "delete"
        <4>1. q.old \in Period /\ SeenTime(r, d) = Hull(Times(r, d) \union {q.old})
          BY <1>1, <2>2, <3>1
        <4> QED BY <1>0, <2>3, <3>1, <4>1, NextBoundsHull DEF Remeasured
      <3>2. CASE q.kind # "delete"
        BY <3>2 DEF Remeasured
      <3> QED BY <3>1, <3>2
    <2>5. Due(r) = q.stale /\ Due(r)' = q.stale
      BY <2>1, <2>2, <2>3 DEF Due
    <2> QED BY <1>0, <1>1, <2>1, <2>3, <2>4, <2>5, SMTT(30) DEF Tidy, Request
  <1>8. CASE Replace(r)
    <2>1. PICK n \in {"measure", "insert", "commit"} :
            /\ p = [q EXCEPT !.pc = n]
            /\ n # "measure" => q.stale = {}
      BY <1>8, FieldsAfter
    <2>2. /\ q.pc = "replace" /\ p.pc = n /\ p.todo = q.todo /\ p.old = q.old /\ p.stale = q.stale
      BY <1>0, <1>8, <2>1 DEF Replace, Request
    <2>3. q.here \in Datastream /\ WriteTime(r, q.here, q.next) /\ ObsUnchanged
      BY <1>0, <1>8, <2>2 DEF Replace, Knows
    <2>4. /\ \A d \in Datastream : d = q.here => SeenTime(r, d)' = Hull(Times(r, d))
          /\ q.here \notin q.stale
          /\ \A d \in Datastream : d # q.here => SeenTime(r, d)' = SeenTime(r, d)
          /\ \A d \in Datastream : Times(r, d)' = Times(r, d)
      BY <1>0, <1>1, <2>2, <2>3, Views
    <2>5. Due(r) = q.stale \union {q.here} /\ Due(r)' = q.stale
      BY <2>1, <2>2 DEF Due
    <2>6. \A d \in Datastream \ Due(r)' : SeenTime(r, d)' = Hull(Times(r, d)')
      BY <1>1, <2>4, <2>5
    <2>7. p.kind = "delete" =>
              /\ \A x, y \in p.todo : x = y
              /\ p.pc = "look" \/ p.todo # {} => p.stale = {}
              /\ \A d \in p.stale :
                    p.old \in Period /\ SeenTime(r, d)' = Hull(Times(r, d)' \union {p.old})
      <3>1. q.stale \in SUBSET Datastream
        BY <1>0 DEF Request
      <3> QED BY <1>0, <1>1, <2>1, <2>2, <2>4, <3>1
    <2> QED BY <2>1, <2>2, <2>6, <2>7 DEF Tidy
  <1>9. CASE SetTime(r)
    BY <1>0, <1>9 DEF SetTime, Knows, StepsOf, Ended
  <1> QED BY <1>2, <1>3, <1>4, <1>5, <1>6, <1>7, <1>8, <1>9 DEF Step

\* A step of the only open request, which does nothing but insert and delete.
LEMMA CalmStep ==
    ASSUME SInv, NEW r \in Req, Begin(r) \/ Step(r), Calm'
    PROVE  Tight' /\ \A s \in Open' : Tidy(s)'
  <1>0. /\ TInv /\ Sole /\ Unborn /\ Sole' /\ TypeOK'
        /\ req[r] \in Request /\ Knows(req[r])
        /\ \A s \in Req : s # r => req'[s] = req[s]
        /\ req[r].pc # "idle" => req'[r].kind = req[r].kind
        /\ \A d \in Datastream : Times(r, d) \in SUBSET Period
    BY RequestAfter, SoleStep, SeenTypes DEF SInv, GInv, TInv
  <1>1. Calm
    <2>1. alone
      BY DEF Calm, Begin, Step
    <2>2. req[r].pc = "idle" => req[r].kind = "post"
      BY <1>0 DEF Knows, Idle
    <2> QED BY <1>0, <2>1, <2>2 DEF Calm
  <1>2. Tight /\ \A s \in Open : Tidy(s)
    BY <1>1 DEF SInv
  <1>3. CASE Begin(r)
    <2>1. /\ ObsUnchanged /\ TimeUnchanged /\ Open = {} /\ Open' = {r}
          /\ req'[r].todo = {} /\ req'[r].stale = {} /\ req'[r].pc \in {"insert", "set", "look"}
      BY <1>0, <1>3, BeginRequest, OpenStep DEF Begin, Calm
    <2>2. Tight'
      BY <1>2, <2>1 DEF Tight, Rows, ObsUnchanged, TimeUnchanged
    <2>3. \A d \in Datastream : SeenTime(r, d) = Hull(Times(r, d))
      <3>1. /\ \A o \in Req : obsLock[o] # r
            /\ \A d \in Datastream : timeLock[d] # r
        BY <1>0, <2>1, NoReqAssumption DEF Sole
      <3> QED BY <1>0, <1>2, <3>1, Views DEF Tight, TInv
    <2>4. \A d \in Datastream : SeenTime(r, d)' = Hull(Times(r, d)')
      BY <1>0, <2>1, <2>3, Views DEF TInv
    <2>5. Tidy(r)'
      BY <2>1, <2>4 DEF Tidy
    <2> QED BY <2>1, <2>2, <2>5
  <1>4. CASE Commit(r)
    <2>1. r \in Open /\ Open' = {}
      BY <1>0, <1>1, <1>4, OpenStep DEF Sole, Calm
    <2>2. req[r].pc = "commit" /\ Tidy(r) /\ Due(r) = {}
      BY <1>2, <1>4, <2>1 DEF Commit, Due
    <2>3. \A d \in Datastream : SeenTime(r, d) = Hull(Times(r, d))
      BY <2>2 DEF Tidy
    <2>4. /\ \A d \in Datastream : time'[d] = SeenTime(r, d)
          /\ \A o \in Req : obs'[o] = SeenObs(r, o)
      BY <1>4 DEF Commit, Finish
    <2>5. \A d \in Datastream : {obs'[o].g : o \in Rows(d)'} = Times(r, d)
      <3>1. \A d \in Datastream :
              Rows(d)' = {p \in Req : SeenObs(r, p) # NoRow /\ SeenObs(r, p).ds = d}
        BY <2>4 DEF Rows
      <3> QED BY <2>4, <3>1 DEF Times
    <2>6. Tight'
      BY <2>3, <2>4, <2>5 DEF Tight
    <2> QED BY <2>1, <2>6
  <1>5. CASE Cancel(r)
    <2>1. r \in Open /\ Open' = {}
      BY <1>0, <1>1, <1>5, OpenStep DEF Sole, Calm
    <2>2. obs' = obs /\ time' = time
      BY <1>5 DEF Cancel, Finish
    <2> QED BY <1>2, <2>1, <2>2 DEF Tight, Rows
  <1>6. CASE Step(r) /\ ~Commit(r) /\ ~Cancel(r)
    <2>1. r \in Open /\ Open' = {r}
      BY <1>0, <1>1, <1>6, OpenStep DEF Sole, Calm
    <2>2. req[r].kind \in {"post", "delete", "filtered", "force"}
      BY <1>0, <1>1 DEF Calm, Request, AllKinds
    <2>3. Tidy(r)'
      BY <1>0, <1>2, <1>6, <2>1, <2>2, TidyStep
    <2>4. obs' = obs /\ time' = time
      BY <1>6 DEF Step, Look, Start, Write, Written, Insert, SetTime, WidenTime, Measure, Replace,
                  ObsUnchanged, TimeUnchanged, WriteObs, WriteTime
    <2> QED BY <1>2, <2>1, <2>3, <2>4 DEF Tight, Rows
  <1> QED BY <1>3, <1>4, <1>5, <1>6

\* At the start nothing is open, and there is neither an Observation nor a range.
LEMMA SInit == Init => SInv
  <1> SUFFICES ASSUME Init PROVE SInv
    OBVIOUS
  <1>1. /\ \A r \in Req : req[r] = Idle /\ obs[r] = NoRow /\ obsLock[r] = NoReq
        /\ \A d \in Datastream : timeLock[d] = NoReq /\ time[d] = NoRange
    BY DEF Init
  <1>2. Open = {}
    BY <1>1 DEF Open, Idle
  <1>3. Sole /\ Unborn
    BY <1>1, <1>2, NoReqAssumption DEF Sole, Unborn, Idle
  <1>4. \A d \in Datastream : {obs[o].g : o \in Rows(d)} = {}
    BY <1>1 DEF Rows
  <1>5. Tight
    BY <1>1, <1>4, HullBounds DEF Tight
  <1> QED BY <1>2, <1>3, <1>5, GInit DEF SInv

\* Every step keeps it.
LEMMA SStep == SInv /\ [Next]_vars => SInv'
  <1> SUFFICES ASSUME SInv, [Next]_vars PROVE SInv'
    OBVIOUS
  <1>1. GInv'
    BY GStep DEF SInv
  <1>2. CASE UNCHANGED vars
    <2>1. /\ obs' = obs /\ obsLock' = obsLock /\ obsWork' = obsWork /\ time' = time
          /\ timeLock' = timeLock /\ timeWork' = timeWork /\ req' = req /\ alone' = alone
      BY <1>2 DEF vars
    <2>2. Open' = Open /\ Calm' = Calm /\ Sole' = Sole /\ Unborn' = Unborn /\ Tight' = Tight
      BY <2>1 DEF Open, Calm, Sole, Unborn, Tight, Rows
    <2>3. \A r \in Req : Tidy(r)' = Tidy(r)
      BY <2>1 DEF Tidy, Due, SeenTime, Times, SeenObs
    <2>4. Open \subseteq Req
      BY DEF Open
    <2> QED BY <1>1, <2>2, <2>3, <2>4 DEF SInv
  <1>3. ASSUME NEW r \in Req, Begin(r) \/ Step(r)
        PROVE  SInv'
    <2>1. Sole' /\ Unborn'
      BY <1>3, SoleStep, UnbornStep DEF SInv, GInv
    <2>2. Calm' => Tight' /\ \A s \in Open' : Tidy(s)'
      BY <1>3, CalmStep
    <2> QED BY <1>1, <2>1, <2>2 DEF SInv
  <1> QED BY <1>2, <1>3 DEF Next

\* When requests come one after the other and only insert and delete, the
\* phenomenonTime of a Datastream is exactly the range of the Observations it has, for
\* any number of requests, whether they delete one Observation or many, and whichever
\* fail.
THEOREM RangesTight == Spec => []TimesTight
  <1>1. SInv => TimesTight
    <2> SUFFICES ASSUME SInv, alone,
                        \A r \in Arrived : req[r].kind \notin {"change", "link", "replace"}
                 PROVE  Tight
      BY DEF TimesTight, Tight
    <2>1. \A r \in Req : req[r].pc = "idle" => req[r].kind = "post"
      BY DEF SInv, GInv, TInv, Known, Knows, Idle
    <2> QED BY <2>1 DEF SInv, Calm, Arrived
  <1>2. Spec => []SInv
    BY SInit, SStep, PTL DEF Spec
  <1> QED BY <1>1, <1>2, PTL
=============================================================================
