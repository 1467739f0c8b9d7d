-------------------------- MODULE SystemTimeProofs --------------------------
(***************************************************************************)
(* Proofs about SystemTime.  OneVersionPerInstant speaks of committed rows *)
(* only and is not inductive: what a commit publishes was built by the     *)
(* statements before it.  IInv says the same of the rows an open           *)
(* transaction works on, and that no two transactions share an instant.    *)
(***************************************************************************)
EXTENDS SystemTime, TLAPS

\* h are the archived versions of an entity and r its row: the versions are
\* disjoint, and r starts after each of them.
Chain(h, r) ==
    /\ \A v, w \in h : v # w => \A x \in Nat : ~(Covers(v, x) /\ Covers(w, x))
    /\ r # NoRow => \A v \in h : /\ v.upto <= r.from
                                 /\ v.closed => v.upto < r.from

Chains ==
    \A i \in Id :
        /\ Chain(history[i], live[i])
        /\ lock[i] # NoTxn => Chain(history[i] \union pending[i], work[i])

\* Every instant a transaction started at is its own, and has passed.
Starts ==
    /\ \A t \in Txn : status[t] # "idle" => start[t] < clock
    /\ \A t, u \in Txn :
         (t # u /\ status[t] # "idle" /\ status[u] # "idle") => start[t] # start[u]

\* Only an open transaction holds a row.  A committed row starts at an instant
\* that has passed and is not the start of an open transaction; a row that is
\* being worked on starts where the committed one does or where its writer does.
Rows ==
    \A i \in Id :
        /\ lock[i] # NoTxn => status[lock[i]] = "active"
        /\ lock[i] = NoTxn => pending[i] = {}
        /\ live[i] # NoRow =>
              /\ live[i].from < clock
              /\ \A t \in Txn : status[t] = "active" => live[i].from # start[t]
        /\ (lock[i] # NoTxn /\ work[i] # NoRow) =>
              \/ work[i].from = start[lock[i]]
              \/ (live[i] # NoRow /\ work[i].from = live[i].from)

\* An open transaction has not changed what an instant before its start returns.
Agrees ==
    \A i \in Id : lock[i] # NoTxn =>
        \A x \in Nat : x < start[lock[i]] =>
            Seen(history[i] \union pending[i], work[i], x) = AsOf(i, x)

IInv == TypeOK /\ Starts /\ Rows /\ Chains /\ Agrees

-----------------------------------------------------------------------------
(* The trigger keeps a chain a chain.                                      *)

\* The archived version of a row is a version, and ends where it is told to.
LEMMA ArchiveType ==
    ASSUME NEW row \in Row, NEW s \in Nat
    PROVE  /\ Archive(row, s) \in Version
           /\ Archive(row, s).from = row.from
           /\ Archive(row, s).upto = s
           /\ Archive(row, s).closed = FALSE
  BY DEF Archive, Row, Version

\* The version that records a deletion is a version of one instant.
LEMMA TombstoneType ==
    ASSUME NEW row \in Row, NEW s \in Nat, NEW c \in Txn
    PROVE  /\ Tombstone(row, s, c) \in Version
           /\ Tombstone(row, s, c).from = s
           /\ Tombstone(row, s, c).upto = s
           /\ Tombstone(row, s, c).closed = TRUE
  BY DEF Tombstone, Row, Version

\* Every version of a chain has ended where the row starts.
LEMMA ChainEnds ==
    ASSUME NEW h \in SUBSET Version, NEW row \in Row, Chain(h, row),
           NEW v \in h, NEW x \in Nat, Covers(v, x)
    PROVE  x < row.from
  BY NoRowAssumption DEF Chain, Covers, Row, Version

\* UPDATE: archiving the row at s and starting the next one at s.
LEMMA ChainArchive ==
    ASSUME NEW h \in SUBSET Version, NEW row \in Row, Chain(h, row),
           NEW s \in Nat, row.from <= s,
           NEW next \in Row \union {NoRow}, next # NoRow => next.from = s
    PROVE  Chain(h \union {Archive(row, s)}, next)
  <1> DEFINE a == Archive(row, s)
  <1>1. a \in Version /\ a.from = row.from /\ a.upto = s /\ a.closed = FALSE
    BY ArchiveType
  <1>2. \A x \in Nat : Covers(a, x) => row.from <= x /\ x < s
    BY <1>1 DEF Covers, Version
  <1>3. ASSUME NEW v \in h, NEW x \in Nat
        PROVE  ~(Covers(v, x) /\ Covers(a, x))
    BY <1>2, ChainEnds DEF Row
  <1>4. ASSUME next # NoRow, NEW v \in h \union {a}
        PROVE  v.upto <= next.from /\ (v.closed => v.upto < next.from)
    BY <1>1, <1>4, NoRowAssumption DEF Chain, Row, Version
  <1> HIDE DEF a
  <1>5. Chain(h \union {a}, next)
    BY <1>3, <1>4 DEF Chain
  <1> QED BY <1>5 DEF a

\* DELETE of the target row: the last version, then the deletion at s.
LEMMA ChainTarget ==
    ASSUME NEW h \in SUBSET Version, NEW row \in Row, Chain(h, row),
           NEW s \in Nat, row.from <= s, NEW c \in Txn
    PROVE  Chain(h \union {Archive(row, s), Tombstone(row, s, c)}, NoRow)
  <1> DEFINE a == Archive(row, s)
             d == Tombstone(row, s, c)
  <1>1. a \in Version /\ a.from = row.from /\ a.upto = s /\ a.closed = FALSE
    BY ArchiveType
  <1>2. d \in Version /\ d.from = s /\ d.upto = s /\ d.closed = TRUE
    BY TombstoneType
  <1>3. \A x \in Nat : Covers(a, x) => row.from <= x /\ x < s
    BY <1>1 DEF Covers, Version
  <1>4. \A x \in Nat : Covers(d, x) => x = s
    BY <1>2 DEF Covers, Version
  <1>5. \A v \in h, x \in Nat : Covers(v, x) => x < row.from
    BY ChainEnds
  <1> HIDE DEF a, d
  <1>6. Chain(h \union {a, d}, NoRow)
    BY <1>3, <1>4, <1>5 DEF Chain, Row
  <1> QED BY <1>6 DEF a, d

\* DELETE of a row that the same instant started: only that instant is left.
LEMMA ChainInstant ==
    ASSUME NEW h \in SUBSET Version, NEW row \in Row, Chain(h, row), NEW c \in Txn
    PROVE  Chain(h \union {Tombstone(row, row.from, c)}, NoRow)
  <1> DEFINE d == Tombstone(row, row.from, c)
  <1>1. row.from \in Nat
    BY DEF Row
  <1>2. d \in Version /\ d.from = row.from /\ d.upto = row.from /\ d.closed = TRUE
    BY <1>1, TombstoneType
  <1>3. \A x \in Nat : Covers(d, x) => x = row.from
    BY <1>1, <1>2 DEF Covers, Version
  <1>4. \A v \in h, x \in Nat : Covers(v, x) => x < row.from
    BY ChainEnds
  <1> HIDE DEF d
  <1>5. Chain(h \union {d}, NoRow)
    BY <1>1, <1>3, <1>4 DEF Chain
  <1> QED BY <1>5 DEF d
-----------------------------------------------------------------------------
(* Types.                                                                  *)

\* A statement leaves a row and versions of the declared types.
LEMMA WriteType ==
    ASSUME TypeOK, NEW t \in Txn, NEW i \in Id,
           NEW row \in Row \union {NoRow}, NEW archived \in SUBSET Version,
           Write(t, i, row, archived)
    PROVE  TypeOK'
  BY DEF TypeOK, Write

\* A statement writes the row as its transaction sees it, and nothing that others see.
LEMMA StatementWrites ==
    ASSUME NEW t \in Txn, NEW i \in Id, Statement(t, i)
    PROVE  UNCHANGED <<clock, status, start, target, live, history>>
  <1>1. ASSUME NEW v \in Val, NEW a \in Aux, Insert(t, i, v, a)
        PROVE  UNCHANGED <<clock, status, start, target, live, history>>
    BY <1>1 DEF Insert, Write
  <1>2. ASSUME NEW v \in Val, NEW c \in Txn, Update(t, i, v, c)
        PROVE  UNCHANGED <<clock, status, start, target, live, history>>
    BY <1>2 DEF Update, Write
  <1>3. ASSUME NEW a \in Aux, NEW c \in Txn, UpdateInPlace(t, i, a, c)
        PROVE  UNCHANGED <<clock, status, start, target, live, history>>
    BY <1>3 DEF UpdateInPlace, Write
  <1>4. CASE Delete(t, i)
    BY <1>4 DEF Delete, Write
  <1>5. ASSUME NEW v \in Val, Relocate(t, i, v)
        PROVE  UNCHANGED <<clock, status, start, target, live, history>>
    BY <1>5 DEF Relocate, Write
  <1> QED BY <1>1, <1>2, <1>3, <1>4, <1>5 DEF Statement

\* The row a statement of t leaves is typed: it starts at start[t].
LEMMA SuccessorType ==
    ASSUME NEW row \in Row, NEW v \in Val, NEW a \in Aux, NEW s \in Nat,
           NEW c \in Txn
    PROVE  Successor(row, v, a, s, c) \in Row /\ Successor(row, v, a, s, c).from = s
  BY DEF Successor, Row

\* The current row of an entity is a row or none.
LEMMA CurrentType ==
    ASSUME TypeOK, NEW i \in Id
    PROVE  Current(i) \in Row \union {NoRow}
  BY DEF TypeOK, Current

\* What a DELETE archives are versions.
LEMMA DeletedType ==
    ASSUME TypeOK, NEW t \in Txn, NEW i \in Id, NEW row \in Row
    PROVE  Deleted(t, i, row) \in SUBSET Version
  <1>1. start[t] \in Nat /\ row.commit \in Txn
    BY DEF TypeOK, Row
  <1>2. /\ Archive(row, start[t]) \in Version
        /\ Tombstone(row, start[t], t) \in Version
        /\ Tombstone(row, start[t], row.commit) \in Version
    BY <1>1, ArchiveType, TombstoneType
  <1> QED BY <1>2 DEF Deleted

\* Every statement, and every end of a transaction, keeps the types.
LEMMA TypeStep == TypeOK /\ [Next]_vars => TypeOK'
  <1> SUFFICES ASSUME TypeOK, [Next]_vars PROVE TypeOK'
    OBVIOUS
  <1>1. ASSUME NEW t \in Txn, NEW d \in Id \union {NoId}, Begin(t, d)
        PROVE  TypeOK'
    BY <1>1 DEF Begin, TypeOK
  <1>2. ASSUME NEW t \in Txn, NEW i \in Id, NEW v \in Val, NEW a \in Aux,
               Insert(t, i, v, a)
        PROVE  TypeOK'
    <2> DEFINE row == [val |-> v, aux |-> a, from |-> start[t], commit |-> t]
    <2>1. row \in Row
      BY DEF TypeOK, Row
    <2> QED BY <1>2, <2>1, WriteType DEF Insert
  <1>3. ASSUME NEW t \in Txn, NEW i \in Id, NEW v \in Val, NEW c \in Txn,
               Update(t, i, v, c)
        PROVE  TypeOK'
    <2>1. Current(i) \in Row /\ start[t] \in Nat
      BY <1>3, CurrentType DEF Update, TypeOK
    <2>2. Current(i).aux \in Aux
      BY <2>1 DEF Row
    <2>3. /\ Successor(Current(i), v, Current(i).aux, start[t], c) \in Row
          /\ Archive(Current(i), start[t]) \in Version
      BY <2>1, <2>2, SuccessorType, ArchiveType
    <2> QED BY <1>3, <2>3, WriteType DEF Update
  <1>4. ASSUME NEW t \in Txn, NEW i \in Id, NEW a \in Aux, NEW c \in Txn, UpdateInPlace(t, i, a, c)
        PROVE  TypeOK'
    <2>1. Current(i) \in Row
      BY <1>4, CurrentType DEF UpdateInPlace
    <2>2. [Current(i) EXCEPT !.aux = a, !.commit = c] \in Row
      BY <2>1 DEF Row
    <2> QED BY <1>4, <2>2, WriteType DEF UpdateInPlace
  <1>5. ASSUME NEW t \in Txn, NEW i \in Id, Delete(t, i)
        PROVE  TypeOK'
    <2>1. Deleted(t, i, Current(i)) \in SUBSET Version
      BY <1>5, CurrentType, DeletedType DEF Delete
    <2> QED BY <1>5, <2>1, WriteType DEF Delete
  <1>6. ASSUME NEW t \in Txn, NEW i \in Id, NEW v \in Val, Relocate(t, i, v)
        PROVE  TypeOK'
    <2>1. Current(i) \in Row /\ start[t] \in Nat
      BY <1>6, CurrentType DEF Relocate, TypeOK
    <2>2. Current(i).aux \in Aux
      BY <2>1 DEF Row
    <2>3. /\ Successor(Current(i), v, Current(i).aux, start[t], t) \in Row
          /\ Deleted(t, i, Current(i)) \in SUBSET Version
      BY <2>1, <2>2, SuccessorType, DeletedType
    <2> QED BY <1>6, <2>3, WriteType DEF Relocate
  <1>7. ASSUME NEW t \in Txn, Commit(t)
        PROVE  TypeOK'
    BY <1>7 DEF Commit, Release, TypeOK
  <1>8. ASSUME NEW t \in Txn, Abort(t)
        PROVE  TypeOK'
    BY <1>8 DEF Abort, Release, TypeOK
  <1>9. CASE UNCHANGED vars
    BY <1>9 DEF vars, TypeOK
  <1> QED BY <1>1, <1>2, <1>3, <1>4, <1>5, <1>6, <1>7, <1>8, <1>9 DEF Next, Statement

\* The variables keep their types in every behaviour, whatever the entities,
\* contents and requests.
THEOREM TypeCorrect == Spec => []TypeOK
  <1>1. Init => TypeOK
    BY DEF Init, TypeOK
  <1> QED BY <1>1, TypeStep, PTL DEF Spec
-----------------------------------------------------------------------------
(* Contents before the start of a transaction.                             *)

\* Ending a row at s and starting another at s changes no instant before s.
LEMMA SeenArchive ==
    ASSUME NEW h \in SUBSET Version, NEW row \in Row, NEW s \in Nat, row.from <= s,
           NEW next \in Row \union {NoRow}, next # NoRow => next.from = s,
           NEW x \in Nat, x < s
    PROVE  Seen(h \union {Archive(row, s)}, next, x) = Seen(h, row, x)
  <1> DEFINE a == Archive(row, s)
  <1>1. /\ a \in Version /\ a.from = row.from /\ a.upto = s /\ a.closed = FALSE
        /\ a.val = row.val
    BY ArchiveType DEF Archive
  <1>2. row # NoRow /\ row.from \in Nat
    BY NoRowAssumption DEF Row
  <1>3. ~LiveCovers(next, x)
    BY DEF LiveCovers, Row
  <1>4. Covers(a, x) <=> LiveCovers(row, x)
    BY <1>1, <1>2 DEF Covers, LiveCovers, Version
  <1> HIDE DEF a
  <1>5. Seen(h \union {a}, next, x) = Seen(h, row, x)
    BY <1>1, <1>3, <1>4 DEF Seen
  <1> QED BY <1>5 DEF a

\* Recording a deletion at s changes no instant before s.
LEMMA SeenTombstone ==
    ASSUME NEW h \in SUBSET Version, NEW row \in Row, NEW s \in Nat, NEW c \in Txn,
           NEW next \in Row \union {NoRow}, NEW x \in Nat, x < s
    PROVE  Seen(h \union {Tombstone(row, s, c)}, next, x) = Seen(h, next, x)
  <1> DEFINE d == Tombstone(row, s, c)
  <1>1. d.from = s /\ d.upto = s
    BY TombstoneType
  <1>2. ~Covers(d, x)
    BY <1>1 DEF Covers
  <1> HIDE DEF d
  <1>3. Seen(h \union {d}, next, x) = Seen(h, next, x)
    BY <1>2 DEF Seen
  <1> QED BY <1>3 DEF d

\* A row seen from its own start on shows nothing earlier.
LEMMA SeenNoRow ==
    ASSUME NEW h \in SUBSET Version, NEW row \in Row, NEW x \in Nat, x < row.from
    PROVE  Seen(h, row, x) = Seen(h, NoRow, x)
  BY DEF Seen, LiveCovers, Row

-----------------------------------------------------------------------------
(* What every statement does to the entity it writes.                      *)

\* From a chain h with row r, seen by t, to h and arch with row next.
Effect(t, h, r, arch, next) ==
    /\ next \in Row \union {NoRow}
    /\ arch \in SUBSET Version
    /\ Chain(h \union arch, next)
    /\ next # NoRow => (next.from = start[t] \/ (r # NoRow /\ next.from = r.from))
    /\ \A x \in Nat : x < start[t] => Seen(h \union arch, next, x) = Seen(h, r, x)

\* Ending the row at the start of t and going on with next.
LEMMA ArchiveEffect ==
    ASSUME TypeOK, NEW t \in Txn, NEW h \in SUBSET Version, NEW r \in Row,
           Chain(h, r), r.from <= start[t],
           NEW next \in Row \union {NoRow}, next # NoRow => next.from = start[t]
    PROVE  Effect(t, h, r, {Archive(r, start[t])}, next)
  <1>1. start[t] \in Nat
    BY DEF TypeOK
  <1>2. Archive(r, start[t]) \in Version
    BY <1>1, ArchiveType
  <1>3. Chain(h \union {Archive(r, start[t])}, next)
    BY <1>1, ChainArchive
  <1>4. ASSUME NEW x \in Nat, x < start[t]
        PROVE  Seen(h \union {Archive(r, start[t])}, next, x) = Seen(h, r, x)
    BY <1>1, <1>4, SeenArchive
  <1> QED BY <1>2, <1>3, <1>4 DEF Effect

\* Deleting the row, whether or not it is the target of the request.
LEMMA DeletedEffect ==
    ASSUME TypeOK, NEW t \in Txn, NEW i \in Id, NEW h \in SUBSET Version,
           NEW r \in Row, Chain(h, r), r.from <= start[t]
    PROVE  Effect(t, h, r, Deleted(t, i, r), NoRow)
  <1>1. start[t] \in Nat /\ r.commit \in Txn
    BY DEF TypeOK, Row
  <1>2. Deleted(t, i, r) \in SUBSET Version
    BY DeletedType
  <1>3. CASE target[t] = i
    <2> DEFINE a == Archive(r, start[t])
               d == Tombstone(r, start[t], t)
    <2>1. Deleted(t, i, r) = {a, d}
      BY <1>3 DEF Deleted
    <2>2. Chain(h \union {a, d}, NoRow)
      BY <1>1, ChainTarget
    <2>3. a \in Version
      BY <1>1, ArchiveType
    <2>4. ASSUME NEW x \in Nat, x < start[t]
          PROVE  Seen(h \union {a, d}, NoRow, x) = Seen(h, r, x)
      <3>1. Seen((h \union {a}) \union {d}, NoRow, x) = Seen(h \union {a}, NoRow, x)
        BY <1>1, <2>3, <2>4, SeenTombstone
      <3>2. Seen(h \union {a}, NoRow, x) = Seen(h, r, x)
        BY <1>1, <2>4, SeenArchive
      <3>3. (h \union {a}) \union {d} = h \union {a, d}
        OBVIOUS
      <3> QED BY <3>1, <3>2, <3>3
    <2> QED BY <1>2, <2>1, <2>2, <2>4 DEF Effect
  <1>4. CASE target[t] # i /\ r.from = start[t]
    <2> DEFINE d == Tombstone(r, start[t], r.commit)
    <2>1. Deleted(t, i, r) = {d}
      BY <1>4 DEF Deleted
    <2>2. Chain(h \union {d}, NoRow)
      BY <1>1, <1>4, ChainInstant
    <2>3. ASSUME NEW x \in Nat, x < start[t]
          PROVE  Seen(h \union {d}, NoRow, x) = Seen(h, r, x)
      <3>1. Seen(h \union {d}, NoRow, x) = Seen(h, NoRow, x)
        BY <1>1, <2>3, SeenTombstone
      <3>2. Seen(h, r, x) = Seen(h, NoRow, x)
        BY <1>4, <2>3, SeenNoRow
      <3> QED BY <3>1, <3>2
    <2> QED BY <1>2, <2>1, <2>2, <2>3 DEF Effect
  <1>5. CASE target[t] # i /\ r.from # start[t]
    <2>1. Deleted(t, i, r) = {Archive(r, start[t])}
      BY <1>5 DEF Deleted
    <2> QED BY <2>1, ArchiveEffect
  <1> QED BY <1>3, <1>4, <1>5

\* The versions of i a statement of t sees are a chain with the current row.
LEMMA CurrentChain ==
    ASSUME IInv, NEW i \in Id
    PROVE  /\ history[i] \union pending[i] \in SUBSET Version
           /\ Chain(history[i] \union pending[i], Current(i))
  <1>1. history[i] \union pending[i] \in SUBSET Version
    BY DEF IInv, TypeOK
  <1>2. CASE lock[i] = NoTxn
    <2>1. history[i] \union pending[i] = history[i]
      BY <1>2 DEF IInv, Rows
    <2> QED BY <1>1, <1>2, <2>1 DEF IInv, Chains, Current
  <1>3. CASE lock[i] # NoTxn
    BY <1>1, <1>3 DEF IInv, Chains, Current
  <1> QED BY <1>2, <1>3

\* Every statement of t on i has an effect as described.
LEMMA StatementEffect ==
    ASSUME IInv, NEW t \in Txn, NEW i \in Id, Statement(t, i)
    PROVE  /\ MayWrite(t, i)
           /\ \E next \in Row \union {NoRow}, arch \in SUBSET Version :
                /\ Write(t, i, next, arch)
                /\ Effect(t, history[i] \union pending[i], Current(i), arch, next)
  <1> DEFINE h == history[i] \union pending[i]
  <1>1. h \in SUBSET Version /\ Chain(h, Current(i)) /\ TypeOK /\ start[t] \in Nat
    BY CurrentChain DEF IInv, TypeOK
  <1>2. ASSUME NEW v \in Val, NEW a \in Aux, Insert(t, i, v, a)
        PROVE  /\ MayWrite(t, i)
               /\ \E next \in Row \union {NoRow}, arch \in SUBSET Version :
                    Write(t, i, next, arch) /\ Effect(t, h, Current(i), arch, next)
    <2> DEFINE row == [val |-> v, aux |-> a, from |-> start[t], commit |-> t]
    <2>1. row \in Row /\ row.from = start[t]
      BY <1>1 DEF Row
    <2>2. h = {} /\ Current(i) = NoRow
      BY <1>2 DEF Insert, Current, IInv, Rows
    <2>3. MayWrite(t, i) /\ Write(t, i, row, {})
      BY <1>2 DEF Insert
    <2> HIDE DEF row
    <2>4. Chain({}, row)
      BY DEF Chain
    <2>5. \A x \in Nat : x < start[t] => Seen({}, row, x) = Seen({}, NoRow, x)
      BY <2>1, SeenNoRow
    <2>6. Effect(t, {}, NoRow, {}, row)
      BY <2>1, <2>4, <2>5 DEF Effect
    <2> QED BY <2>1, <2>2, <2>3, <2>6
  <1>3. ASSUME NEW v \in Val, NEW c \in Txn, Update(t, i, v, c)
        PROVE  /\ MayWrite(t, i)
               /\ \E next \in Row \union {NoRow}, arch \in SUBSET Version :
                    Write(t, i, next, arch) /\ Effect(t, h, Current(i), arch, next)
    <2> DEFINE r == Current(i)
               next == Successor(r, v, r.aux, start[t], c)
    <2>1. r \in Row /\ r.from <= start[t]
      BY <1>1, <1>3, CurrentType DEF Update, RangeExists
    <2>2. next \in Row /\ next.from = start[t]
      BY <1>1, <2>1, SuccessorType DEF Row
    <2>3. Archive(r, start[t]) \in Version
      BY <1>1, <2>1, ArchiveType
    <2>4. MayWrite(t, i) /\ Write(t, i, next, {Archive(r, start[t])})
      BY <1>3 DEF Update
    <2> HIDE DEF next, r
    <2>5. Effect(t, h, r, {Archive(r, start[t])}, next)
      BY <1>1, <2>1, <2>2, ArchiveEffect DEF r
    <2> QED BY <2>2, <2>3, <2>4, <2>5 DEF r
  <1>4. ASSUME NEW a \in Aux, NEW c \in Txn, UpdateInPlace(t, i, a, c)
        PROVE  /\ MayWrite(t, i)
               /\ \E next \in Row \union {NoRow}, arch \in SUBSET Version :
                    Write(t, i, next, arch) /\ Effect(t, h, Current(i), arch, next)
    <2> DEFINE r == Current(i)
               next == [r EXCEPT !.aux = a, !.commit = c]
    <2>1. r \in Row
      BY <1>4, CurrentType, <1>1 DEF UpdateInPlace
    <2>2. next \in Row /\ next.from = r.from /\ next.val = r.val
      BY <2>1 DEF Row
    <2>3. MayWrite(t, i) /\ Write(t, i, next, {})
      BY <1>4 DEF UpdateInPlace
    <2>4. r # NoRow /\ next # NoRow
      BY <2>1, <2>2, NoRowAssumption
    <2> HIDE DEF next
    <2>5. Chain(h, next)
      BY <1>1, <2>2, <2>4 DEF Chain
    <2>6. \A x \in Nat : Seen(h, next, x) = Seen(h, r, x)
      BY <2>2, <2>4 DEF Seen, LiveCovers
    <2> HIDE DEF r, h
    <2>7. h \union {} = h
      OBVIOUS
    <2>8. Effect(t, h, r, {}, next)
      BY <2>2, <2>4, <2>5, <2>6, <2>7 DEF Effect
    <2> QED BY <2>2, <2>3, <2>8 DEF r
  <1>5. ASSUME Delete(t, i)
        PROVE  /\ MayWrite(t, i)
               /\ \E next \in Row \union {NoRow}, arch \in SUBSET Version :
                    Write(t, i, next, arch) /\ Effect(t, h, Current(i), arch, next)
    <2>1. Current(i) \in Row /\ Current(i).from <= start[t]
      BY <1>1, <1>5, CurrentType DEF Delete, RangeExists
    <2>2. Deleted(t, i, Current(i)) \in SUBSET Version
      BY <1>1, <2>1, DeletedType
    <2>3. Effect(t, h, Current(i), Deleted(t, i, Current(i)), NoRow)
      BY <1>1, <2>1, DeletedEffect
    <2>4. MayWrite(t, i) /\ Write(t, i, NoRow, Deleted(t, i, Current(i)))
      BY <1>5 DEF Delete
    <2> QED BY <2>2, <2>3, <2>4
  <1>6. ASSUME NEW v \in Val, Relocate(t, i, v)
        PROVE  /\ MayWrite(t, i)
               /\ \E next \in Row \union {NoRow}, arch \in SUBSET Version :
                    Write(t, i, next, arch) /\ Effect(t, h, Current(i), arch, next)
    <2> DEFINE r == Current(i)
               next == Successor(r, v, r.aux, start[t], t)
    <2>1. r \in Row /\ r.from <= start[t]
      BY <1>1, <1>6, CurrentType DEF Relocate, RangeExists
    <2>2. next \in Row /\ next.from = start[t]
      BY <1>1, <2>1, SuccessorType DEF Row
    <2>3. Archive(r, start[t]) \in Version
      BY <1>1, <2>1, ArchiveType
    <2>4. r = live[i] /\ r # NoRow /\ status[t] = "active" /\ target[t] # i
      BY <1>6, NoIdAssumption DEF Relocate, Current, MayWrite
    <2>5. r.from # start[t]
      BY <2>4 DEF IInv, Rows
    <2>6. Deleted(t, i, r) = {Archive(r, start[t])}
      BY <2>4, <2>5 DEF Deleted
    <2>7. MayWrite(t, i) /\ Write(t, i, next, {Archive(r, start[t])})
      BY <1>6, <2>6 DEF Relocate
    <2> HIDE DEF next, r
    <2>8. Effect(t, h, r, {Archive(r, start[t])}, next)
      BY <1>1, <2>1, <2>2, ArchiveEffect DEF r
    <2> QED BY <2>2, <2>3, <2>7, <2>8 DEF r
  <1> QED BY <1>2, <1>3, <1>4, <1>5, <1>6 DEF Statement
-----------------------------------------------------------------------------
(* The invariant is inductive: one lemma per kind of step.                 *)

\* The empty database satisfies the invariant.
LEMMA InitInv == Init => IInv
  <1> SUFFICES ASSUME Init PROVE IInv
    OBVIOUS
  <1>1. TypeOK
    BY DEF Init, TypeOK
  <1>2. Starts /\ Rows /\ Agrees
    BY DEF Init, Starts, Rows, Agrees
  <1>3. Chains
    BY DEF Init, Chains, Chain
  <1> QED BY <1>1, <1>2, <1>3 DEF IInv

\* BEGIN takes an instant later than every other.
LEMMA BeginInv ==
    ASSUME IInv, NEW t \in Txn, NEW d \in Id \union {NoId}, Begin(t, d)
    PROVE  IInv'
  <1>1. TypeOK'
    BY TypeStep DEF IInv, Next
  <1>2. Starts'
    BY DEF IInv, TypeOK, Starts, Begin
  <1>3. \A i \in Id : lock[i] # NoTxn => lock[i] # t /\ start'[lock[i]] = start[lock[i]]
    BY DEF IInv, TypeOK, Rows, Begin
  <1>4. Rows'
    <2> SUFFICES ASSUME NEW i \in Id
                 PROVE  /\ lock[i] # NoTxn => status'[lock[i]] = "active"
                        /\ lock[i] = NoTxn => pending[i] = {}
                        /\ live[i] # NoRow =>
                              /\ live[i].from < clock'
                              /\ \A u \in Txn : status'[u] = "active" =>
                                                   live[i].from # start'[u]
                        /\ (lock[i] # NoTxn /\ work[i] # NoRow) =>
                              \/ work[i].from = start'[lock[i]]
                              \/ (live[i] # NoRow /\ work[i].from = live[i].from)
      BY DEF Rows, Begin
    <2>1. lock[i] # NoTxn => status'[lock[i]] = "active"
      BY <1>3 DEF IInv, TypeOK, Rows, Begin
    <2>2. ASSUME live[i] # NoRow
          PROVE  live[i].from < clock' /\ \A u \in Txn : status'[u] = "active" =>
                                                          live[i].from # start'[u]
      <3>1. live[i].from \in Nat /\ live[i].from < clock /\ clock \in Nat
        BY <2>2 DEF IInv, TypeOK, Rows, Row
      <3> QED BY <2>2, <3>1 DEF IInv, TypeOK, Rows, Begin
    <2> QED BY <1>3, <2>1, <2>2 DEF IInv, Rows
  <1>5. Chains'
    BY DEF IInv, Chains, Begin
  <1>6. Agrees'
    BY <1>3 DEF IInv, Agrees, AsOf, Begin
  <1> QED BY <1>1, <1>2, <1>4, <1>5, <1>6 DEF IInv

\* Every statement of an open request keeps the invariant.
LEMMA StatementInv ==
    ASSUME IInv, NEW t \in Txn, NEW i \in Id, Statement(t, i)
    PROVE  IInv'
  <1> DEFINE h == history[i] \union pending[i]
  <1>1. MayWrite(t, i)
    BY StatementEffect
  <1>2. PICK next \in Row \union {NoRow}, arch \in SUBSET Version :
               Write(t, i, next, arch) /\ Effect(t, h, Current(i), arch, next)
    BY StatementEffect
  <1>3. TypeOK'
    BY TypeStep DEF IInv, Next
  <1>4. Starts'
    BY <1>2 DEF IInv, Starts, Write
  <1>5. /\ lock' = [lock EXCEPT ![i] = t]
        /\ work' = [work EXCEPT ![i] = next]
        /\ pending' = [pending EXCEPT ![i] = pending[i] \union arch]
        /\ UNCHANGED <<clock, status, start, live, history>>
    BY <1>2 DEF Write
  <1>6. /\ lock'[i] = t /\ work'[i] = next
        /\ history'[i] \union pending'[i] = h \union arch
        /\ t # NoTxn
    BY <1>5, NoTxnAssumption DEF IInv, TypeOK
  <1>7. ASSUME NEW j \in Id, j # i
        PROVE  lock'[j] = lock[j] /\ work'[j] = work[j] /\ pending'[j] = pending[j]
    BY <1>5, <1>7 DEF IInv, TypeOK
  <1>8. Rows'
    <2> SUFFICES ASSUME NEW j \in Id
                 PROVE  /\ lock'[j] # NoTxn => status[lock'[j]] = "active"
                        /\ lock'[j] = NoTxn => pending'[j] = {}
                        /\ live[j] # NoRow =>
                              /\ live[j].from < clock
                              /\ \A u \in Txn : status[u] = "active" =>
                                                   live[j].from # start[u]
                        /\ (lock'[j] # NoTxn /\ work'[j] # NoRow) =>
                              \/ work'[j].from = start[lock'[j]]
                              \/ (live[j] # NoRow /\ work'[j].from = live[j].from)
      BY <1>5 DEF Rows
    <2>1. CASE j # i
      BY <1>7, <2>1 DEF IInv, Rows
    <2>2. CASE j = i
      <3>1. next # NoRow =>
               (next.from = start[t] \/ (Current(i) # NoRow /\ next.from = Current(i).from))
        BY <1>2 DEF Effect
      <3>2. Current(i) # NoRow =>
               (Current(i).from = start[t]
                  \/ (live[i] # NoRow /\ Current(i).from = live[i].from))
        BY <1>1 DEF Current, MayWrite, IInv, Rows
      <3>3. status[t] = "active"
        BY <1>1 DEF MayWrite
      <3> QED BY <1>6, <2>2, <3>1, <3>2, <3>3 DEF IInv, Rows
    <2> QED BY <2>1, <2>2
  <1>9. Chains'
    <2> SUFFICES ASSUME NEW j \in Id
                 PROVE  /\ Chain(history[j], live[j])
                        /\ lock'[j] # NoTxn =>
                             Chain(history'[j] \union pending'[j], work'[j])
      BY <1>5 DEF Chains
    <2>1. CASE j # i
      BY <1>5, <1>7, <2>1 DEF IInv, Chains
    <2>2. CASE j = i
      BY <1>2, <1>6, <2>2 DEF IInv, Chains, Effect
    <2> QED BY <2>1, <2>2
  <1>10. Agrees'
    <2> SUFFICES ASSUME NEW j \in Id, lock'[j] # NoTxn,
                        NEW x \in Nat, x < start[lock'[j]]
                 PROVE  Seen(history'[j] \union pending'[j], work'[j], x)
                          = Seen(history[j], live[j], x)
      BY <1>5 DEF Agrees, AsOf
    <2>1. CASE j # i
      BY <1>5, <1>7, <2>1 DEF IInv, Agrees, AsOf
    <2>2. CASE j = i
      <3>1. Seen(h \union arch, next, x) = Seen(h, Current(i), x)
        BY <1>2, <1>6, <2>2 DEF Effect
      <3>2. CASE lock[i] = NoTxn
        <4>1. h = history[i] /\ Current(i) = live[i]
          BY <3>2 DEF IInv, Rows, Current
        <4> QED BY <1>6, <2>2, <3>1, <4>1
      <3>3. CASE lock[i] # NoTxn
        <4>1. lock[i] = t /\ Current(i) = work[i]
          BY <1>1, <3>3 DEF MayWrite, Current
        <4>2. Seen(h, work[i], x) = Seen(history[i], live[i], x)
          BY <1>6, <2>2, <3>3, <4>1 DEF IInv, Agrees, AsOf
        <4> QED BY <1>6, <2>2, <3>1, <4>1, <4>2
      <3> QED BY <3>2, <3>3
    <2> QED BY <2>1, <2>2
  <1> QED BY <1>3, <1>4, <1>8, <1>9, <1>10 DEF IInv

\* A transaction that ends leaves the locks of the others as they were.
LEMMA ReleaseFacts ==
    ASSUME TypeOK, NEW t \in Txn, Release(t), NEW i \in Id
    PROVE  /\ lock[i] = t => lock'[i] = NoTxn /\ pending'[i] = {}
           /\ lock[i] # t => /\ lock'[i] = lock[i]
                             /\ work'[i] = work[i]
                             /\ pending'[i] = pending[i]
  BY DEF TypeOK, Release, Held

\* COMMIT publishes rows and versions that still form chains.
LEMMA CommitInv ==
    ASSUME IInv, NEW t \in Txn, Commit(t)
    PROVE  IInv'
  <1>1. TypeOK'
    BY TypeStep DEF IInv, Next
  <1>2. /\ clock' = clock /\ start' = start
        /\ status[t] = "active"
        /\ status'[t] = "committed"
        /\ \A u \in Txn : u # t => status'[u] = status[u]
    BY DEF Commit, IInv, TypeOK
  <1>3. Starts'
    BY <1>2 DEF IInv, Starts
  <1>4. ASSUME NEW i \in Id
        PROVE  /\ lock[i] = t => /\ live'[i] = work[i]
                                 /\ history'[i] = history[i] \union pending[i]
               /\ lock[i] # t => live'[i] = live[i] /\ history'[i] = history[i]
    BY DEF Commit, Held, IInv, TypeOK
  <1>5. ASSUME NEW i \in Id
        PROVE  /\ lock[i] = t => lock'[i] = NoTxn /\ pending'[i] = {}
               /\ lock[i] # t => /\ lock'[i] = lock[i]
                                 /\ work'[i] = work[i]
                                 /\ pending'[i] = pending[i]
    BY ReleaseFacts DEF Commit, IInv
  <1>6. t # NoTxn /\ \A i \in Id : lock[i] # NoTxn => lock[i] \in Txn
    BY NoTxnAssumption DEF IInv, TypeOK
  <1>7. Rows'
    <2> SUFFICES ASSUME NEW i \in Id
                 PROVE  /\ lock'[i] # NoTxn => status'[lock'[i]] = "active"
                        /\ lock'[i] = NoTxn => pending'[i] = {}
                        /\ live'[i] # NoRow =>
                              /\ live'[i].from < clock
                              /\ \A u \in Txn : status'[u] = "active" =>
                                                   live'[i].from # start[u]
                        /\ (lock'[i] # NoTxn /\ work'[i] # NoRow) =>
                              \/ work'[i].from = start[lock'[i]]
                              \/ (live'[i] # NoRow /\ work'[i].from = live'[i].from)
      BY <1>2 DEF Rows
    <2>1. CASE lock[i] # t
      BY <1>2, <1>4, <1>5, <1>6, <2>1 DEF IInv, Rows
    <2>2. CASE lock[i] = t
      <3>1. lock'[i] = NoTxn /\ pending'[i] = {} /\ live'[i] = work[i]
        BY <1>4, <1>5, <2>2
      <3>2. ASSUME work[i] # NoRow
            PROVE  /\ work[i].from < clock
                   /\ \A u \in Txn : status'[u] = "active" => work[i].from # start[u]
        <4>1. \/ work[i].from = start[t]
              \/ (live[i] # NoRow /\ work[i].from = live[i].from)
          BY <1>6, <2>2, <3>2 DEF IInv, Rows
        <4>2. CASE work[i].from = start[t]
          BY <1>2, <4>2 DEF IInv, Starts
        <4>3. CASE live[i] # NoRow /\ work[i].from = live[i].from
          BY <1>2, <4>3 DEF IInv, Rows
        <4> QED BY <4>1, <4>2, <4>3
      <3> QED BY <3>1, <3>2
    <2> QED BY <2>1, <2>2
  <1>8. Chains'
    <2> SUFFICES ASSUME NEW i \in Id
                 PROVE  /\ Chain(history'[i], live'[i])
                        /\ lock'[i] # NoTxn =>
                             Chain(history'[i] \union pending'[i], work'[i])
      BY DEF Chains
    <2>1. CASE lock[i] # t
      BY <1>4, <1>5, <2>1 DEF IInv, Chains
    <2>2. CASE lock[i] = t
      BY <1>4, <1>5, <1>6, <2>2 DEF IInv, Chains
    <2> QED BY <2>1, <2>2
  <1>9. Agrees'
    <2> SUFFICES ASSUME NEW i \in Id, lock'[i] # NoTxn,
                        NEW x \in Nat, x < start[lock'[i]]
                 PROVE  Seen(history'[i] \union pending'[i], work'[i], x)
                          = Seen(history'[i], live'[i], x)
      BY <1>2 DEF Agrees, AsOf
    <2> QED BY <1>4, <1>5 DEF IInv, Agrees, AsOf
  <1> QED BY <1>1, <1>3, <1>7, <1>8, <1>9 DEF IInv

\* ROLLBACK leaves the committed chains as they were.
LEMMA AbortInv ==
    ASSUME IInv, NEW t \in Txn, Abort(t)
    PROVE  IInv'
  <1>1. TypeOK'
    BY TypeStep DEF IInv, Next
  <1>2. /\ UNCHANGED <<clock, start, live, history>>
        /\ status[t] = "active"
        /\ status'[t] = "aborted"
        /\ \A u \in Txn : u # t => status'[u] = status[u]
    BY DEF Abort, IInv, TypeOK
  <1>3. ASSUME NEW i \in Id
        PROVE  /\ lock[i] = t => lock'[i] = NoTxn /\ pending'[i] = {}
               /\ lock[i] # t => /\ lock'[i] = lock[i]
                                 /\ work'[i] = work[i]
                                 /\ pending'[i] = pending[i]
    BY ReleaseFacts DEF Abort, IInv
  <1>4. t # NoTxn /\ \A i \in Id : lock[i] # NoTxn => lock[i] \in Txn
    BY NoTxnAssumption DEF IInv, TypeOK
  <1>5. Starts'
    BY <1>2 DEF IInv, Starts
  <1>6. Rows'
    BY <1>2, <1>3, <1>4 DEF IInv, Rows
  <1>7. Chains'
    BY <1>2, <1>3 DEF IInv, Chains
  <1>8. Agrees'
    BY <1>2, <1>3 DEF IInv, Agrees, AsOf
  <1> QED BY <1>1, <1>5, <1>6, <1>7, <1>8 DEF IInv

\* The invariant is preserved by every step.
LEMMA InvStep == IInv /\ [Next]_vars => IInv'
  <1> SUFFICES ASSUME IInv, [Next]_vars PROVE IInv'
    OBVIOUS
  <1>1. CASE UNCHANGED vars
    BY <1>1 DEF vars, IInv, TypeOK, Starts, Rows, Chains, Agrees, AsOf
  <1> QED BY <1>1, BeginInv, StatementInv, CommitInv, AbortInv DEF Next

-----------------------------------------------------------------------------
(* Theorems.                                                               *)

\* The strengthened invariant holds in every behaviour.
THEOREM Invariance == Spec => []IInv
  BY InitInv, InvStep, PTL DEF Spec

\* However the requests interleave, commit and abort, an instant has at most
\* one version of an entity, for any number of entities and requests.
THEOREM OneVersion == Spec => []OneVersionPerInstant
  <1>1. IInv => OneVersionPerInstant
    <2> SUFFICES ASSUME IInv, NEW i \in Id
                 PROVE  /\ \A v, w \in history[i] : v # w => ~Overlap(v, w)
                        /\ live[i] # NoRow =>
                             \A v \in history[i], x \in Instant :
                                 Covers(v, x) => ~LiveCovers(live[i], x)
      BY DEF OneVersionPerInstant
    <2>1. history[i] \in SUBSET Version /\ Chain(history[i], live[i])
      BY DEF IInv, TypeOK, Chains
    <2>2. \A v, w \in history[i] : v # w => ~Overlap(v, w)
      BY <2>1, InstantAssumption DEF Chain, Overlap
    <2>3. ASSUME live[i] # NoRow, NEW v \in history[i], NEW x \in Instant,
                 Covers(v, x)
          PROVE  ~LiveCovers(live[i], x)
      <3>1. live[i] \in Row /\ x \in Nat
        BY <2>3, InstantAssumption DEF IInv, TypeOK
      <3>2. x < live[i].from
        BY <2>1, <2>3, <3>1, ChainEnds
      <3> QED BY <3>1, <3>2 DEF LiveCovers, Row
    <2> QED BY <2>2, <2>3
  <1> QED BY <1>1, Invariance, PTL

\* No step of any request changes what $as_of returns for an instant before the
\* start of every open transaction.
THEOREM Settling == Spec => SettledAsOf
  <1>1. ASSUME IInv, [Next]_vars, NEW i \in Id, NEW x \in Settled
        PROVE  AsOf(i, x)' = AsOf(i, x)
    <2>1. x \in Nat /\ \A t \in Txn : status[t] = "active" => x < start[t]
      BY InstantAssumption DEF Settled, Active
    <2>2. CASE UNCHANGED <<live, history>>
      BY <2>2 DEF AsOf
    <2>3. ASSUME NEW t \in Txn, Commit(t)
          PROVE  AsOf(i, x)' = AsOf(i, x)
      <3>1. CASE lock[i] # t
        BY <2>3, <3>1 DEF Commit, Held, AsOf
      <3>2. CASE lock[i] = t
        <4>1. live'[i] = work[i] /\ history'[i] = history[i] \union pending[i]
          BY <2>3, <3>2 DEF Commit, Held
        <4>2. lock[i] # NoTxn /\ x < start[lock[i]]
          BY <2>1, <2>3, <3>2, NoTxnAssumption DEF Commit
        <4>3. Seen(history[i] \union pending[i], work[i], x) = AsOf(i, x)
          <5>1. Agrees
            BY <1>1 DEF IInv
          <5>2. \A y \in Nat : y < start[lock[i]] =>
                  Seen(history[i] \union pending[i], work[i], y) = AsOf(i, y)
            BY <4>2, <5>1 DEF Agrees
          <5> QED BY <2>1, <4>2, <5>2
        <4> QED BY <4>1, <4>3 DEF AsOf
      <3> QED BY <3>1, <3>2
    <2>4. UNCHANGED <<live, history>> \/ \E t \in Txn : Commit(t)
      BY <1>1, StatementWrites DEF Next, vars, Begin, Abort
    <2> QED BY <2>2, <2>3, <2>4
  <1>2. IInv /\ [Next]_vars => [\A i \in Id, x \in Settled : AsOf(i, x)' = AsOf(i, x)]_vars
    BY <1>1
  <1> QED BY <1>2, Invariance, PTL DEF Spec, SettledAsOf

-----------------------------------------------------------------------------
(* NoGap, and that the versioned tables implement the temporal store.      *)
(* Both speak of what a commit publishes, so both need to know more about  *)
(* the rows a transaction works on than IInv says: that the chain it has   *)
(* built has no gap (Whole), that nothing but its row reaches past its     *)
(* start (Publishes), and that the open versions alone already answer as   *)
(* before (AgreesOpen).                                                    *)

\* From the start of any version on, no instant is empty that a later one is not.
Whole(h, r) ==
    \A v \in h, y, z \in Nat :
        (v.from <= y /\ y < z /\ Seen(h, r, z) # {}) => Seen(h, r, y) # {}

Wholes ==
    \A i \in Id :
        /\ Whole(history[i], live[i])
        /\ lock[i] # NoTxn => Whole(history[i] \union pending[i], work[i])

Open(h) == {v \in h : ~v.closed}

AgreesOpen ==
    \A i \in Id : lock[i] # NoTxn =>
        \A x \in Nat : x < start[lock[i]] =>
            Seen(Open(history[i] \union pending[i]), work[i], x) = AsOfOpen(i, x)

\* A transaction either has ended the versions of an entity by its own start, or
\* has only changed in place a row that may start later: that row it publishes as
\* it was.
Publishes ==
    \A i \in Id : lock[i] # NoTxn =>
        \/ /\ \A v \in history[i] \union pending[i] : v.upto <= start[lock[i]]
           /\ work[i] # NoRow => work[i].from <= start[lock[i]]
        \/ /\ pending[i] = {} /\ live[i] # NoRow /\ work[i] # NoRow
           /\ work[i].from = live[i].from /\ work[i].val = live[i].val

StartsInstant == \A t \in Txn : status[t] # "idle" => start[t] \in Instant

Strong == Wholes /\ AgreesOpen /\ Publishes /\ StartsInstant

-----------------------------------------------------------------------------
(* What a statement does to the versions and the row it finds.             *)

\* A statement at s that finds row r puts versions arch into the history and leaves
\* next: an INSERT, an UPDATE in place, an UPDATE or DELETE that ends the row at s, or a
\* DELETE that records itself.
Shape(s, r, arch, next) ==
    \/ r = NoRow /\ arch = {} /\ next \in Row /\ next.from = s
    \/ /\ r \in Row /\ arch = {} /\ next \in Row /\ next.from = r.from /\ next.val = r.val
    \/ /\ r \in Row /\ r.from <= s /\ arch = {Archive(r, s)}
       /\ next \in Row \union {NoRow} /\ (next # NoRow => next.from = s)
    \/ /\ r \in Row /\ r.from <= s /\ next = NoRow
       /\ \E c \in Txn :
             \/ arch = {Archive(r, s), Tombstone(r, s, c)}
             \/ r.from = s /\ arch = {Tombstone(r, s, c)}

\* Every statement has one of these shapes; an INSERT finds no versions.
LEMMA StatementShape ==
    ASSUME IInv, NEW t \in Txn, NEW i \in Id, Statement(t, i)
    PROVE  \E next \in Row \union {NoRow}, arch \in SUBSET Version :
             /\ Write(t, i, next, arch)
             /\ Shape(start[t], Current(i), arch, next)
             /\ Current(i) = NoRow => history[i] \union pending[i] = {}
  <1> DEFINE r == Current(i)
             s == start[t]
             Goal == \E next \in Row \union {NoRow}, arch \in SUBSET Version :
                       /\ Write(t, i, next, arch)
                       /\ Shape(s, r, arch, next)
                       /\ r = NoRow => history[i] \union pending[i] = {}
  <1>1. TypeOK /\ s \in Nat /\ r \in Row \union {NoRow}
    BY CurrentType DEF IInv, TypeOK
  <1>2. ASSUME NEW v \in Val, NEW a \in Aux, Insert(t, i, v, a)
        PROVE  Goal
    <2> DEFINE row == [val |-> v, aux |-> a, from |-> s, commit |-> t]
    <2>1. row \in Row /\ row.from = s
      BY <1>1 DEF Row
    <2>2. history[i] \union pending[i] = {} /\ r = NoRow /\ Write(t, i, row, {})
      BY <1>2 DEF Insert, Current, IInv, Rows
    <2> HIDE DEF row, r, s
    <2>3. Shape(s, r, {}, row)
      BY <2>1, <2>2 DEF Shape
    <2> QED BY <2>1, <2>2, <2>3
  <1>3. ASSUME NEW v \in Val, NEW c \in Txn, Update(t, i, v, c)
        PROVE  Goal
    <2> DEFINE next == Successor(r, v, r.aux, s, c)
    <2>1. r \in Row /\ r # NoRow /\ r.from <= s /\ Write(t, i, next, {Archive(r, s)})
      BY <1>1, <1>3, NoRowAssumption DEF Update, RangeExists
    <2>2. r.aux \in Aux
      BY <2>1 DEF Row
    <2> HIDE DEF r, s
    <2>3. next \in Row /\ next.from = s
      BY <1>1, <2>1, <2>2, SuccessorType
    <2>4. Archive(r, s) \in Version
      BY <1>1, <2>1, ArchiveType
    <2> HIDE DEF next
    <2>5. Shape(s, r, {Archive(r, s)}, next)
      BY <2>1, <2>3 DEF Shape
    <2> QED BY <2>1, <2>3, <2>4, <2>5
  <1>4. ASSUME NEW a \in Aux, NEW c \in Txn, UpdateInPlace(t, i, a, c)
        PROVE  Goal
    <2> DEFINE next == [r EXCEPT !.aux = a, !.commit = c]
    <2>1. r \in Row /\ r # NoRow /\ Write(t, i, next, {})
      BY <1>1, <1>4, NoRowAssumption DEF UpdateInPlace
    <2>2. next \in Row /\ next.from = r.from /\ next.val = r.val
      BY <2>1 DEF Row
    <2> HIDE DEF next, r, s
    <2>3. Shape(s, r, {}, next)
      BY <2>1, <2>2 DEF Shape
    <2> QED BY <2>1, <2>2, <2>3
  <1>5. ASSUME Delete(t, i)
        PROVE  Goal
    <2>1. /\ r \in Row /\ r # NoRow /\ r.from <= s
          /\ Write(t, i, NoRow, Deleted(t, i, r))
      BY <1>1, <1>5, NoRowAssumption DEF Delete, RangeExists
    <2>2. r.commit \in Txn
      BY <2>1 DEF Row
    <2>3. \/ Deleted(t, i, r) = {Archive(r, s), Tombstone(r, s, t)}
          \/ r.from = s /\ Deleted(t, i, r) = {Tombstone(r, s, r.commit)}
          \/ Deleted(t, i, r) = {Archive(r, s)}
      BY DEF Deleted
    <2>4. Deleted(t, i, r) \in SUBSET Version
      BY <1>1, <2>1, DeletedType
    <2> HIDE DEF r, s
    <2> DEFINE arch == Deleted(t, i, r)
    <2> HIDE DEF arch
    <2>5. Shape(s, r, arch, NoRow)
      <3>1. CASE arch = {Archive(r, s), Tombstone(r, s, t)}
        BY <2>1, <3>1 DEF Shape
      <3>2. CASE r.from = s /\ arch = {Tombstone(r, s, r.commit)}
        BY <2>1, <2>2, <3>2 DEF Shape
      <3>3. CASE arch = {Archive(r, s)}
        BY <2>1, <3>3 DEF Shape
      <3> QED BY <2>3, <3>1, <3>2, <3>3 DEF arch
    <2> QED BY <2>1, <2>4, <2>5 DEF arch
  <1>6. ASSUME NEW v \in Val, Relocate(t, i, v)
        PROVE  Goal
    <2> DEFINE next == Successor(r, v, r.aux, s, t)
    <2>1. r = live[i] /\ r # NoRow /\ status[t] = "active" /\ target[t] # i
      BY <1>6, NoIdAssumption DEF Relocate, Current, MayWrite
    <2>2. r.from # s
      BY <2>1 DEF IInv, Rows
    <2>8. Deleted(t, i, r) = {Archive(r, s)}
      BY <2>2, <2>1 DEF Deleted
    <2>3. r \in Row /\ r.from <= s /\ Write(t, i, next, {Archive(r, s)})
      BY <1>1, <1>6, <2>1, <2>8 DEF Relocate, RangeExists
    <2>4. r.aux \in Aux
      BY <2>3 DEF Row
    <2> HIDE DEF r, s
    <2>5. next \in Row /\ next.from = s
      BY <1>1, <2>3, <2>4, SuccessorType
    <2>6. Archive(r, s) \in Version
      BY <1>1, <2>3, ArchiveType
    <2> HIDE DEF next
    <2>7. Shape(s, r, {Archive(r, s)}, next)
      BY <2>3, <2>5 DEF Shape
    <2> QED BY <2>1, <2>3, <2>5, <2>6, <2>7
  <1> QED BY <1>2, <1>3, <1>4, <1>5, <1>6 DEF Statement

\* The versions a statement archives start where the row did or at s, end by s, and
\* the open ones reach before s only as the row did.
LEMMA ShapeVersions ==
    ASSUME NEW s \in Nat, NEW r \in Row \union {NoRow}, NEW arch \in SUBSET Version,
           NEW next \in Row \union {NoRow}, Shape(s, r, arch, next), NEW v \in arch
    PROVE  /\ r \in Row /\ r.from <= s
           /\ v.upto = s /\ (v.from = s \/ v.from = r.from)
  <1>1. r \in Row /\ r.from <= s
    BY DEF Shape
  <1>2. \/ v = Archive(r, s)
        \/ \E c \in Txn : v = Tombstone(r, s, c)
    BY DEF Shape
  <1>3. CASE v = Archive(r, s)
    BY <1>1, <1>3, ArchiveType
  <1>4. ASSUME NEW c \in Txn, v = Tombstone(r, s, c)
        PROVE  v.upto = s /\ v.from = s
    BY <1>1, <1>4, TombstoneType
  <1> QED BY <1>1, <1>2, <1>3, <1>4
-----------------------------------------------------------------------------
(* What a statement keeps.                                                 *)

\* The row itself is seen from its start on.
LEMMA SeenLive ==
    ASSUME NEW h, NEW r, NEW x, LiveCovers(r, x)
    PROVE  Seen(h, r, x) # {}
  BY DEF Seen

\* A statement at s changes no instant before s, nor what the open versions and the
\* row alone say of it.
LEMMA ShapeBefore ==
    ASSUME NEW s \in Nat, NEW h \in SUBSET Version, NEW r \in Row \union {NoRow},
           NEW arch \in SUBSET Version, NEW next \in Row \union {NoRow},
           Shape(s, r, arch, next)
    PROVE  \A x \in Nat : x < s =>
               /\ Seen(h \union arch, next, x) = Seen(h, r, x)
               /\ Seen(Open(h \union arch), next, x) = Seen(Open(h), r, x)
  <1> SUFFICES ASSUME NEW x \in Nat, x < s
               PROVE  /\ Seen(h \union arch, next, x) = Seen(h, r, x)
                      /\ Seen(Open(h \union arch), next, x) = Seen(Open(h), r, x)
    OBVIOUS
  <1> DEFINE Same(g, a) == Seen(g \union a, next, x) = Seen(g, r, x)
  <1>1. Open(h) \in SUBSET Version
    BY DEF Open
  <1>2. CASE arch = {}
    <2>1. CASE r = NoRow /\ next \in Row /\ next.from = s
      BY <1>1, <1>2, <2>1, SeenNoRow
    <2>2. CASE r \in Row /\ next \in Row /\ next.from = r.from /\ next.val = r.val
      <3>1. r # NoRow /\ next # NoRow
        BY <2>2, NoRowAssumption
      <3>2. \A g : Seen(g, next, x) = Seen(g, r, x)
        BY <2>2, <3>1 DEF Seen, LiveCovers
      <3> QED BY <1>2, <3>2
    <2> QED BY <1>2, <2>1, <2>2 DEF Shape
  <1>3. CASE r \in Row /\ r.from <= s /\ arch = {Archive(r, s)} /\ (next # NoRow => next.from = s)
    <2>1. Archive(r, s).closed = FALSE
      BY <1>3, ArchiveType
    <2>2. Open(h \union arch) = Open(h) \union {Archive(r, s)}
      BY <1>3, <2>1 DEF Open
    <2> QED BY <1>1, <1>3, <2>2, SeenArchive
  <1>4. ASSUME NEW c \in Txn, r \in Row, r.from <= s, next = NoRow,
               arch = {Archive(r, s), Tombstone(r, s, c)}
        PROVE  Same(h, arch) /\ Seen(Open(h \union arch), next, x) = Seen(Open(h), r, x)
    <2> DEFINE a == Archive(r, s)
               d == Tombstone(r, s, c)
    <2>1. a \in Version /\ a.closed = FALSE /\ d.closed = TRUE
      BY <1>4, ArchiveType, TombstoneType
    <2>2. Seen((h \union {a}) \union {d}, NoRow, x) = Seen(h \union {a}, NoRow, x)
      BY <1>4, <2>1, SeenTombstone
    <2>3. Seen(h \union {a}, NoRow, x) = Seen(h, r, x)
      BY <1>4, SeenArchive
    <2>4. Seen(Open(h) \union {a}, NoRow, x) = Seen(Open(h), r, x)
      BY <1>1, <1>4, SeenArchive
    <2> HIDE DEF a, d
    <2>5. h \union {a, d} = (h \union {a}) \union {d}
      OBVIOUS
    <2>6. Open(h \union {a, d}) = Open(h) \union {a}
      BY <2>1 DEF Open
    <2> QED BY <1>4, <2>2, <2>3, <2>4, <2>5, <2>6 DEF a, d
  <1>5. ASSUME NEW c \in Txn, r \in Row, r.from = s, next = NoRow, arch = {Tombstone(r, s, c)}
        PROVE  Same(h, arch) /\ Seen(Open(h \union arch), next, x) = Seen(Open(h), r, x)
    <2> DEFINE d == Tombstone(r, s, c)
    <2>1. d.closed = TRUE
      BY <1>5, TombstoneType
    <2>2. Seen(h \union {d}, NoRow, x) = Seen(h, NoRow, x)
      BY <1>5, SeenTombstone
    <2>3. Seen(h, r, x) = Seen(h, NoRow, x) /\ Seen(Open(h), r, x) = Seen(Open(h), NoRow, x)
      BY <1>1, <1>5, SeenNoRow
    <2> HIDE DEF d
    <2>4. Open(h \union {d}) = Open(h)
      BY <2>1 DEF Open
    <2> QED BY <1>5, <2>2, <2>3, <2>4 DEF d
  <1> QED BY <1>2, <1>3, <1>4, <1>5 DEF Shape

\* A statement leaves no gap where there was none.
LEMMA WholeShape ==
    ASSUME NEW s \in Nat, NEW h \in SUBSET Version, NEW r \in Row \union {NoRow},
           Chain(h, r), Whole(h, r), r = NoRow => h = {},
           NEW arch \in SUBSET Version, NEW next \in Row \union {NoRow},
           Shape(s, r, arch, next)
    PROVE  Whole(h \union arch, next)
  <1> SUFFICES ASSUME NEW v \in h \union arch, NEW y \in Nat, NEW z \in Nat,
                      v.from <= y, y < z, Seen(h \union arch, next, z) # {}
               PROVE  Seen(h \union arch, next, y) # {}
    BY DEF Whole
  <1>1. CASE arch = {}
    <2>1. v \in h /\ h \union arch = h /\ r # NoRow
      BY <1>1
    <2>2. r \in Row /\ next # NoRow /\ next.from = r.from /\ next.val = r.val
      BY <1>1, <2>1, NoRowAssumption DEF Shape
    <2>3. \A x : Seen(h, next, x) = Seen(h, r, x)
      BY <2>1, <2>2 DEF Seen, LiveCovers
    <2> QED BY <2>1, <2>3 DEF Whole
  <1>2. CASE arch # {}
    <2>1. r \in Row /\ r # NoRow /\ r.from \in Nat /\ r.from <= s /\ (next # NoRow => next.from = s)
      BY <1>2, NoRowAssumption DEF Shape, Row
    <2>2. CASE y < s
      <3>1. Seen(h \union arch, next, y) = Seen(h, r, y)
        <4>1. \A x \in Nat : x < s => /\ Seen(h \union arch, next, x) = Seen(h, r, x)
                                      /\ Seen(Open(h \union arch), next, x) = Seen(Open(h), r, x)
          BY ShapeBefore
        <4> QED BY <2>2, <4>1
      <3>2. CASE r.from <= y
        BY <2>1, <3>1, <3>2, SeenLive DEF LiveCovers
      <3>3. CASE y < r.from
        <4>1. v \in h
          BY <2>1, <2>2, <3>3, ShapeVersions
        <4>2. Seen(h, r, r.from) # {}
          BY <2>1, SeenLive DEF LiveCovers
        <4> QED BY <2>1, <3>1, <3>3, <4>1, <4>2 DEF Whole
      <3> QED BY <2>1, <3>2, <3>3
    <2>3. CASE s <= y /\ next # NoRow
      BY <2>1, <2>3, SeenLive DEF LiveCovers
    <2>4. CASE s <= y /\ next = NoRow
      <3>1. ASSUME NEW w \in h
            PROVE  ~Covers(w, z)
        <4>1. Covers(w, z) => z < r.from
          BY <2>1, ChainEnds
        <4> QED BY <2>1, <2>4, <4>1
      <3>2. ASSUME NEW w \in arch
            PROVE  ~Covers(w, z)
        BY <2>4, ShapeVersions DEF Covers, Version
      <3>3. Seen(h \union arch, next, z) = {}
        BY <2>4, <3>1, <3>2 DEF Seen, LiveCovers
      <3> QED BY <3>3
    <2> QED BY <2>2, <2>3, <2>4
  <1> QED BY <1>1, <1>2
-----------------------------------------------------------------------------
(* The invariant of both theorems.                                         *)

\* The open versions and the row are all AsOfOpen looks at.
LEMMA AsOfOpenSeen ==
    \A i : \A x : AsOfOpen(i, x) = Seen(Open(history[i]), live[i], x)
  BY DEF AsOfOpen, Seen, Open

\* A statement keeps what Publishes says of the entity it writes.
LEMMA PublishesStatement ==
    ASSUME IInv, Publishes, NEW t \in Txn, NEW i \in Id, MayWrite(t, i),
           NEW next \in Row \union {NoRow}, NEW arch \in SUBSET Version,
           Shape(start[t], Current(i), arch, next),
           Current(i) = NoRow => history[i] \union pending[i] = {}
    PROVE  \/ /\ \A v \in (history[i] \union pending[i]) \union arch : v.upto <= start[t]
              /\ next # NoRow => next.from <= start[t]
           \/ /\ pending[i] \union arch = {} /\ live[i] # NoRow /\ next # NoRow
              /\ next.from = live[i].from /\ next.val = live[i].val
  <1> DEFINE r == Current(i)
             s == start[t]
             h == history[i] \union pending[i]
  <1>1. /\ s \in Nat /\ r \in Row \union {NoRow} /\ h \in SUBSET Version
        /\ lock[i] \in {NoTxn, t} /\ t # NoTxn /\ Chain(h, r)
    BY CurrentType, CurrentChain, NoTxnAssumption DEF IInv, TypeOK, MayWrite
  <1>2. CASE r = NoRow
    <2>1. h = {} /\ arch = {} /\ next.from = s
      BY <1>2, NoRowAssumption DEF Shape
    <2> QED BY <1>1, <2>1
  <1>3. CASE arch = {} /\ r # NoRow /\ next # NoRow /\ next.from = r.from /\ next.val = r.val
    <2>1. CASE lock[i] = NoTxn
      <3>1. r = live[i] /\ pending[i] = {}
        BY <2>1 DEF Current, IInv, Rows
      <3> QED BY <1>3, <3>1
    <2>2. CASE lock[i] = t
      <3>1. r = work[i]
        BY <1>1, <2>2 DEF Current
      <3> QED BY <1>1, <1>3, <2>2, <3>1 DEF Publishes
    <2> QED BY <1>1, <2>1, <2>2
  <1>4. CASE arch # {}
    <2>1. r \in Row /\ r # NoRow /\ r.from \in Nat /\ r.from <= s /\ (next # NoRow => next.from = s)
      BY <1>4, NoRowAssumption DEF Shape, Row
    <2>2. ASSUME NEW v \in h
          PROVE  v.upto <= s
      BY <1>1, <2>1, <2>2 DEF Chain, Version
    <2>3. ASSUME NEW v \in arch
          PROVE  v.upto <= s
      <3>1. v.upto = s
        BY <1>1, ShapeVersions
      <3> QED BY <1>1, <3>1
    <2> QED BY <1>1, <2>1, <2>2, <2>3
  <1> QED BY <1>2, <1>3, <1>4, NoRowAssumption DEF Shape

RInv == IInv /\ Strong

\* The empty database satisfies the invariant.
LEMMA InitRefine == Init => RInv
  <1> SUFFICES ASSUME Init PROVE RInv
    OBVIOUS
  <1>1. IInv
    BY InitInv
  <1>2. Strong
    BY DEF Init, Strong, Wholes, Whole, AgreesOpen, Publishes, StartsInstant
  <1> QED BY <1>1, <1>2 DEF RInv

\* BEGIN moves no row and takes an instant.
LEMMA BeginRefine ==
    ASSUME RInv, NEW t \in Txn, NEW d \in Id \union {NoId}, Begin(t, d)
    PROVE  Strong'
  <1>1. \A i \in Id : lock[i] # NoTxn => start'[lock[i]] = start[lock[i]]
    BY DEF RInv, IInv, TypeOK, Rows, Begin
  <1>2. Wholes'
    BY DEF RInv, Strong, Wholes, Begin
  <1>3. AgreesOpen'
    BY <1>1 DEF RInv, Strong, AgreesOpen, AsOfOpen, Begin
  <1>4. Publishes'
    BY <1>1 DEF RInv, Strong, Publishes, Begin
  <1>5. StartsInstant'
    BY DEF RInv, IInv, TypeOK, Strong, StartsInstant, Begin
  <1> QED BY <1>2, <1>3, <1>4, <1>5 DEF Strong

\* Every statement of an open request keeps the invariant.
LEMMA StatementRefine ==
    ASSUME RInv, NEW t \in Txn, NEW i \in Id, Statement(t, i)
    PROVE  Strong'
  <1> DEFINE h == history[i] \union pending[i]
  <1>1. MayWrite(t, i)
    BY StatementEffect DEF RInv
  <1>2. PICK next \in Row \union {NoRow}, arch \in SUBSET Version :
               /\ Write(t, i, next, arch)
               /\ Shape(start[t], Current(i), arch, next)
               /\ Current(i) = NoRow => h = {}
    BY StatementShape DEF RInv
  <1>3. /\ lock' = [lock EXCEPT ![i] = t]
        /\ work' = [work EXCEPT ![i] = next]
        /\ pending' = [pending EXCEPT ![i] = pending[i] \union arch]
        /\ UNCHANGED <<clock, status, start, live, history>>
    BY <1>2 DEF Write
  <1>4. /\ lock'[i] = t /\ work'[i] = next /\ pending'[i] = pending[i] \union arch
        /\ history'[i] \union pending'[i] = h \union arch
    BY <1>3 DEF RInv, IInv, TypeOK
  <1>5. ASSUME NEW j \in Id, j # i
        PROVE  lock'[j] = lock[j] /\ work'[j] = work[j] /\ pending'[j] = pending[j]
    BY <1>3, <1>5 DEF RInv, IInv, TypeOK
  <1>6. /\ start[t] \in Nat /\ h \in SUBSET Version /\ Chain(h, Current(i))
        /\ Current(i) \in Row \union {NoRow}
    BY CurrentType, CurrentChain DEF RInv, IInv, TypeOK
  <1>7. \/ lock[i] = NoTxn /\ h = history[i] /\ Current(i) = live[i]
        \/ lock[i] = t /\ t # NoTxn /\ Current(i) = work[i]
    BY <1>1, NoTxnAssumption DEF MayWrite, Current, RInv, IInv, Rows
  <1>8. Wholes'
    <2>1. Whole(h, Current(i))
      BY <1>7 DEF RInv, Strong, Wholes
    <2>2. Whole(h \union arch, next)
      BY <1>2, <1>6, <2>1, WholeShape
    <2> QED BY <1>3, <1>4, <1>5, <2>2 DEF RInv, Strong, Wholes
  <1>9. AgreesOpen'
    <2> SUFFICES ASSUME NEW j \in Id, lock'[j] # NoTxn, NEW x \in Nat, x < start[lock'[j]]
                 PROVE  Seen(Open(history[j] \union pending'[j]), work'[j], x)
                          = Seen(Open(history[j]), live[j], x)
      BY <1>3, AsOfOpenSeen DEF AgreesOpen, AsOfOpen, Seen, Open
    <2>1. CASE j # i
      BY <1>5, <2>1, AsOfOpenSeen DEF RInv, Strong, AgreesOpen
    <2>2. CASE j = i
      <3>1. \A y \in Nat : y < start[t] =>
               /\ Seen(h \union arch, next, y) = Seen(h, Current(i), y)
               /\ Seen(Open(h \union arch), next, y) = Seen(Open(h), Current(i), y)
        <4> DEFINE s == start[t]
                   r == Current(i)
        <4>1. Shape(s, r, arch, next) /\ s \in Nat /\ r \in Row \union {NoRow}
              /\ h \in SUBSET Version /\ arch \in SUBSET Version
              /\ next \in Row \union {NoRow}
          BY <1>2, <1>6
        <4> HIDE DEF h, s, r
        <4>2. \A y \in Nat : y < s => /\ Seen(h \union arch, next, y) = Seen(h, r, y)
                                      /\ Seen(Open(h \union arch), next, y) = Seen(Open(h), r, y)
          BY <4>1, ShapeBefore
        <4> QED BY <4>2 DEF s, r
      <3>2. Seen(Open(h), Current(i), x) = Seen(Open(history[i]), live[i], x)
        BY <1>4, <1>7, <2>2, AsOfOpenSeen DEF RInv, Strong, AgreesOpen
      <3> QED BY <1>3, <1>4, <2>2, <3>1, <3>2
    <2> QED BY <2>1, <2>2
  <1>10. Publishes'
    <2>1. \/ /\ \A v \in h \union arch : v.upto <= start[t]
             /\ next # NoRow => next.from <= start[t]
          \/ /\ pending[i] \union arch = {} /\ live[i] # NoRow /\ next # NoRow
             /\ next.from = live[i].from /\ next.val = live[i].val
      BY <1>1, <1>2, PublishesStatement, SMTT(40) DEF RInv, Strong
    <2> SUFFICES ASSUME NEW j \in Id, lock'[j] # NoTxn
                 PROVE  \/ /\ \A v \in history[j] \union pending'[j] : v.upto <= start[lock'[j]]
                           /\ work'[j] # NoRow => work'[j].from <= start[lock'[j]]
                        \/ /\ pending'[j] = {} /\ live[j] # NoRow /\ work'[j] # NoRow
                           /\ work'[j].from = live[j].from /\ work'[j].val = live[j].val
      BY <1>3 DEF Publishes
    <2>2. CASE j # i
      BY <1>5, <2>2 DEF RInv, Strong, Publishes
    <2>3. CASE j = i
      BY <1>3, <1>4, <2>1, <2>3
    <2> QED BY <2>2, <2>3
  <1>11. StartsInstant'
    BY <1>3 DEF RInv, Strong, StartsInstant
  <1> QED BY <1>8, <1>9, <1>10, <1>11 DEF Strong

\* COMMIT publishes what its transaction holds, and nothing else.
LEMMA CommitFacts ==
    ASSUME TypeOK, NEW t \in Txn, Commit(t), NEW i \in Id
    PROVE  /\ lock[i] = t => /\ live'[i] = work[i]
                             /\ history'[i] = history[i] \union pending[i]
                             /\ lock'[i] = NoTxn
           /\ lock[i] # t => /\ live'[i] = live[i] /\ history'[i] = history[i]
                             /\ lock'[i] = lock[i] /\ work'[i] = work[i]
                             /\ pending'[i] = pending[i]
  BY ReleaseFacts DEF Commit, Held, TypeOK

\* COMMIT keeps the invariant: what it publishes has no gap.
LEMMA CommitRefine ==
    ASSUME RInv, NEW t \in Txn, Commit(t)
    PROVE  Strong'
  <1>1. ASSUME NEW i \in Id
        PROVE  /\ lock[i] = t => /\ live'[i] = work[i]
                                 /\ history'[i] = history[i] \union pending[i]
                                 /\ lock'[i] = NoTxn
               /\ lock[i] # t => /\ live'[i] = live[i] /\ history'[i] = history[i]
                                 /\ lock'[i] = lock[i] /\ work'[i] = work[i]
                                 /\ pending'[i] = pending[i]
    BY CommitFacts DEF RInv, IInv
  <1>2. start' = start /\ t # NoTxn
    BY NoTxnAssumption DEF Commit
  <1>3. Wholes'
    BY <1>1, <1>2 DEF RInv, Strong, Wholes
  <1>4. AgreesOpen'
    BY <1>1, <1>2 DEF RInv, Strong, AgreesOpen, AsOfOpen
  <1>5. Publishes'
    BY <1>1, <1>2 DEF RInv, Strong, Publishes
  <1>6. StartsInstant'
    BY DEF RInv, IInv, TypeOK, Strong, StartsInstant, Commit
  <1> QED BY <1>3, <1>4, <1>5, <1>6 DEF Strong

\* ROLLBACK leaves the rest as it was.
LEMMA AbortRefine ==
    ASSUME RInv, NEW t \in Txn, Abort(t)
    PROVE  Strong'
  <1>1. ASSUME NEW i \in Id
        PROVE  /\ live'[i] = live[i] /\ history'[i] = history[i]
               /\ lock'[i] # NoTxn => /\ lock'[i] = lock[i] /\ work'[i] = work[i]
                                      /\ pending'[i] = pending[i]
    BY ReleaseFacts DEF Abort, RInv, IInv
  <1>2. start' = start
    BY DEF Abort
  <1>3. Wholes'
    BY <1>1 DEF RInv, Strong, Wholes
  <1>4. AgreesOpen'
    BY <1>1, <1>2 DEF RInv, Strong, AgreesOpen, AsOfOpen
  <1>5. Publishes'
    BY <1>1, <1>2 DEF RInv, Strong, Publishes
  <1>6. StartsInstant'
    BY DEF RInv, IInv, TypeOK, Strong, StartsInstant, Abort
  <1> QED BY <1>3, <1>4, <1>5, <1>6 DEF Strong

\* The invariant is preserved by every step.
LEMMA RefineStep == RInv /\ [Next]_vars => RInv'
  <1> SUFFICES ASSUME RInv, [Next]_vars PROVE RInv'
    OBVIOUS
  <1>1. IInv'
    BY InvStep DEF RInv
  <1>2. CASE UNCHANGED vars
    BY <1>1, <1>2 DEF vars, RInv, Strong, Wholes, AgreesOpen, AsOfOpen, Publishes, StartsInstant
  <1> QED BY <1>1, <1>2, BeginRefine, StatementRefine, CommitRefine, AbortRefine DEF Next, RInv

\* The invariant holds in every behaviour.
THEOREM RefineInvariance == Spec => []RInv
  BY InitRefine, RefineStep, PTL DEF Spec

-----------------------------------------------------------------------------
(* Nothing is lost.                                                        *)

\* However the requests interleave, from the start of the first version of an entity
\* to its live row every instant has a version, for any number of entities and requests.
THEOREM GapFree == Spec => []NoGap
  <1>1. RInv => NoGap
    <2> SUFFICES ASSUME RInv, NEW i \in Id, NEW y \in Instant, NEW z \in Instant,
                        y < z, AsOf(i, z) # {}, NEW v \in history[i], v.from <= y
                 PROVE  AsOf(i, y) # {}
      BY DEF NoGap
    <2>1. y \in Nat /\ z \in Nat /\ Whole(history[i], live[i])
      BY InstantAssumption DEF RInv, Strong, Wholes
    <2>2. Seen(history[i], live[i], z) # {} => Seen(history[i], live[i], y) # {}
      BY <2>1 DEF Whole
    <2> QED BY <2>2 DEF AsOf
  <1> QED BY <1>1, RefineInvariance, PTL

-----------------------------------------------------------------------------
(* The temporal store.                                                     *)

\* An instant that is settled stays so.
LEMMA SettledGrows ==
    ASSUME IInv, [Next]_vars
    PROVE  Settled \subseteq Settled' /\ Settled' \subseteq Instant
  <1>1. Settled' \subseteq Instant
    BY DEF Settled
  <1>2. ASSUME NEW t \in Txn, NEW d \in Id \union {NoId}, Begin(t, d)
        PROVE  Settled \subseteq Settled'
    <2>1. clock \in Nat /\ clock' = clock + 1
      BY <1>2 DEF IInv, TypeOK, Begin
    <2>2. \A u \in Txn : /\ u = t => start'[u] = clock
                         /\ u # t => status'[u] = status[u] /\ start'[u] = start[u]
      BY <1>2 DEF IInv, TypeOK, Begin
    <2>3. \A x \in Instant : x < clock => x < clock'
      BY <2>1, InstantAssumption
    <2> QED BY <2>2, <2>3 DEF Settled, Active
  <1>3. CASE UNCHANGED <<clock, start, status>>
    BY <1>3 DEF Settled, Active
  <1>4. ASSUME NEW t \in Txn, Commit(t) \/ Abort(t)
        PROVE  Settled \subseteq Settled'
    <2>1. Active' \subseteq Active /\ clock' = clock /\ start' = start
      BY <1>4 DEF IInv, TypeOK, Commit, Abort, Active
    <2> QED BY <2>1 DEF Settled
  <1>5. \/ \E t \in Txn : \E d \in Id \union {NoId} : Begin(t, d)
        \/ UNCHANGED <<clock, start, status>>
        \/ \E t \in Txn : Commit(t) \/ Abort(t)
    BY StatementWrites DEF Next, vars
  <1> QED BY <1>1, <1>2, <1>3, <1>4, <1>5

\* The entities t rewrites from its start on: of those it holds all but the rows it only
\* changed in place.
Stamped(t) ==
    {i \in Held(t) : /\ \A v \in history[i] \union pending[i] : v.upto <= start[t]
                     /\ work[i] # NoRow => work[i].from <= start[t]}

Content(i) == IF work[i] = NoRow THEN {} ELSE {work[i].val}

\* COMMIT makes one entity what the store makes it.
LEMMA CommitContent ==
    ASSUME RInv, NEW t \in Txn, Commit(t), NEW i \in Id, NEW x \in Instant
    PROVE  AsOfOpen(i, x)' = IF i \in Stamped(t) /\ x >= start[t]
                             THEN Content(i) ELSE AsOfOpen(i, x)
  <1> DEFINE H == history[i] \union pending[i]
  <1>1. /\ lock[i] = t => live'[i] = work[i] /\ history'[i] = H
        /\ lock[i] # t => live'[i] = live[i] /\ history'[i] = history[i]
    BY CommitFacts DEF RInv, IInv
  <1>2. AsOfOpen(i, x)' = Seen(Open(history'[i]), live'[i], x)
    BY DEF AsOfOpen, Seen, Open
  <1>3. /\ x \in Nat /\ start[t] \in Nat /\ t # NoTxn
        /\ H \in SUBSET Version /\ work[i] \in Row \union {NoRow}
    BY InstantAssumption, NoTxnAssumption DEF RInv, IInv, TypeOK
  <1>4. AsOfOpen(i, x) = Seen(Open(history[i]), live[i], x)
    BY AsOfOpenSeen
  <1>5. CASE lock[i] # t
    BY <1>1, <1>2, <1>4, <1>5 DEF Stamped, Held
  <1>6. CASE lock[i] = t /\ x < start[t]
    <2>1. Seen(Open(H), work[i], x) = AsOfOpen(i, x)
      <3>1. \A y \in Nat : y < start[lock[i]] => Seen(Open(H), work[i], y) = AsOfOpen(i, y)
        BY <1>3, <1>6 DEF RInv, Strong, AgreesOpen
      <3> QED BY <1>3, <1>6, <3>1
    <2>2. ~(x >= start[t])
      BY <1>3, <1>6
    <2>3. live'[i] = work[i] /\ history'[i] = H
      BY <1>1, <1>6
    <2> QED BY <1>2, <2>1, <2>2, <2>3
  <1>7. CASE lock[i] = t /\ x >= start[t] /\ i \in Stamped(t)
    <2>1. \A v \in Open(H) : ~Covers(v, x)
      BY <1>3, <1>7 DEF Stamped, Open, Covers, Version
    <2>2. work[i] # NoRow => LiveCovers(work[i], x)
      BY <1>3, <1>7 DEF Stamped, LiveCovers, Row
    <2>3. Seen(Open(H), work[i], x) = Content(i)
      BY <2>1, <2>2 DEF Seen, Content, LiveCovers
    <2> QED BY <1>1, <1>2, <1>7, <2>3
  <1>8. CASE lock[i] = t /\ i \notin Stamped(t)
    <2>1. /\ pending[i] = {} /\ live[i] # NoRow /\ work[i] # NoRow
          /\ work[i].from = live[i].from /\ work[i].val = live[i].val
      BY <1>3, <1>8 DEF RInv, Strong, Publishes, Stamped, Held
    <2>2. H = history[i]
      BY <2>1
    <2>3. Seen(Open(history[i]), work[i], x) = Seen(Open(history[i]), live[i], x)
      BY <2>1 DEF Seen, LiveCovers
    <2> QED BY <1>1, <1>2, <1>4, <1>8, <2>2, <2>3
  <1> QED BY <1>3, <1>5, <1>6, <1>7, <1>8

\* COMMIT is a write of the store at the start of its transaction.
LEMMA CommitWrites ==
    ASSUME RInv, NEW t \in Txn, Commit(t)
    PROVE  Store!Next
  <1> DEFINE s == start[t]
             written == Stamped(t)
             content == [i \in written |-> Content(i)]
  <1>1. s \in Instant
    BY DEF RInv, Strong, StartsInstant, Commit
  <1>2. written \in SUBSET Id
    BY DEF Stamped, Held
  <1>3. content \in [written -> Store!Contents]
    BY <1>2 DEF RInv, IInv, TypeOK, Content, Row, Store!Contents
  <1>4. \A x \in Settled : x < s
    BY DEF Settled, Active, Commit
  <1>5. Settled \subseteq Settled' /\ Settled' \subseteq Instant
    BY SettledGrows DEF RInv, Next
  <1>6. \A i \in Id, x \in Instant :
           AsOfOpen(i, x)' = IF i \in written /\ x >= s THEN content[i] ELSE AsOfOpen(i, x)
    BY CommitContent
  <1>7. Store!Write(s, written, content)
    BY <1>4, <1>5, <1>6 DEF Store!Write
  <1> QED BY <1>1, <1>2, <1>3, <1>7 DEF Store!Next

\* The versioned tables implement the temporal store, for any number of entities and
\* requests: a commit rewrites what its transaction wrote from its own start on, all of
\* it at once, and nothing before.
THEOREM Implementation == Spec => ImplementsTemporalStore
  <1>1. Init => Store!Init
    BY DEF Init, Store!Init, AsOfOpen, LiveCovers, Settled
  <1>2. ASSUME RInv, [Next]_vars
        PROVE  [Store!Next]_(Store!vars)
    <2>1. Settled \subseteq Settled' /\ Settled' \subseteq Instant
      BY <1>2, SettledGrows DEF RInv
    <2>2. CASE UNCHANGED <<live, history>>
      <3>1. \A i \in Id, x \in Instant : AsOfOpen(i, x)' = AsOfOpen(i, x)
        BY <2>2 DEF AsOfOpen
      <3>2. Store!Settle
        BY <2>1, <3>1 DEF Store!Settle
      <3> QED BY <3>2 DEF Store!Next
    <2>3. UNCHANGED <<live, history>> \/ \E t \in Txn : Commit(t)
      BY <1>2, StatementWrites DEF Next, vars, Begin, Abort
    <2> QED BY <1>2, <2>2, <2>3, CommitWrites
  <1> QED BY <1>1, <1>2, RefineInvariance, PTL DEF Spec, ImplementsTemporalStore, Store!Spec
=============================================================================
