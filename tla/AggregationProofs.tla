-------------------------- MODULE AggregationProofs --------------------------
(***************************************************************************)
(* Theorems about Aggregation: its types, and that no write of the source  *)
(* is lost on the target, for any bucket interval and any number of        *)
(* writers, as long as writes and runs together take no longer than the    *)
(* overlap and no more buckets close between successes than a run          *)
(* recomputes.  And about Buckets: that the rows of a job are what a       *)
(* computation from scratch gives, and the target Datastream what a        *)
(* rebuild gives; and that the differences of times, which the statement   *)
(* computes, are the runs of missing slots (GapsAreFound).                 *)
(*                                                                         *)
(* AllCaught speaks of one run; what it rests on is left by the runs       *)
(* before (LInv): a version that was stamped before the cursor of the next *)
(* run is on the target, and an operator's run that could still overwrite  *)
(* it has seen it too.  RowsCurrent is about the end of a run: RowsInv     *)
(* says of every state that a row is current unless something it depends   *)
(* on was touched since, and the next run looks for exactly that.          *)
(***************************************************************************)
EXTENDS Aggregation, Buckets, WellFoundedInduction, TLAPS

Active(r) == run[r].pc \in {"started", "read", "written"}
HasRead(r) == run[r].pc \in {"read", "written"}
Begin(v) == writer[v[2]].start

\* Rows are those of requests that committed, and requests and runs are within the bounds.
Committed ==
    /\ \A o \in Writer : obs[o] # NoRow => writer[obs[o].by].pc = "done"
    /\ \A r \in Run, b \in Bucket : \A v \in run[r].rows[b] : writer[v[2]].pc = "done"

Timely ==
    /\ \A w \in Writer : writer[w].pc = "open" =>
          writer[w].start <= clock /\ clock <= writer[w].start + MaxWrite
    /\ \A r \in Run : Active(r) => run[r].start <= clock /\ clock <= run[r].start + MaxRun
    /\ stats # Never =>
         /\ stats.finish <= clock
         /\ BucketAt(clock) - stats.closed <= MaxGap
         /\ Active("job") => stats.finish <= run["job"].start

\* A version that the snapshot of a run has not seen began late.
Late ==
    \A r \in Run : HasRead(r) =>
        \A b \in Bucket : \A v \in Content(b) \ run[r].rows[b] :
            run[r].start <= Begin(v) + MaxWrite

\* What a job does not recompute is old.
Chosen ==
    run["job"].pc = "read" =>
        \A b \in Closed(run["job"].start) : \A v \in run["job"].rows[b] :
            b \in run["job"].set \/ run["job"].start <= Begin(v)
              \/ /\ stats # Never
                 /\ Begin(v) < stats.finish - Overlap
                 /\ b < stats.closed

\* The target has v, and so has the operator's run that could write the bucket next.
Safe(v, b) ==
    /\ v \in target[b].rows
    /\ run["manual"].pc = "read" /\ b \in run["manual"].set
         /\ target[b].since <= run["manual"].start => v \in run["manual"].rows[b]

\* What was stamped before the cursor is safe; so it is when the job has committed, and
\* its success is not yet recorded.
Caught ==
    /\ stats # Never =>
         \A b \in Bucket : b < stats.closed =>
             \A v \in Content(b) : Begin(v) < stats.finish - Overlap => Safe(v, b)
    /\ run["job"].pc = "written" =>
         \A b \in Closed(run["job"].start) : \A v \in Content(b) :
             Begin(v) + MaxWrite < run["job"].start => Safe(v, b)

LInv == TypeOK /\ Committed /\ Timely /\ Late /\ Chosen /\ Caught

\* A write and a run together take no longer than the overlap, and no more buckets close
\* between two successes, the run of the second included, than a run recomputes.
InBounds == /\ MaxWrite + MaxRun <= Overlap
            /\ MaxGap <= Recompute
            /\ MaxRun <= MaxGap * Interval

-----------------------------------------------------------------------------
(* Buckets.                                                                *)

LEMMA Types == /\ Clock \subseteq Nat /\ 0 \in Clock /\ Interval \in Nat \ {0}
               /\ Recompute \in Nat \ {0} /\ Overlap \in Nat /\ MaxWrite \in Nat
               /\ MaxRun \in Nat /\ MaxGap \in Nat /\ MaxClock \in Nat
               /\ Time \subseteq Clock \ {0} /\ Window \subseteq SUBSET Bucket
  BY IntervalAssumption, OverlapAssumption, WindowAssumption, BoundsAssumption DEF Clock

\* The bucket of a time is the one whose ends enclose it.
LEMMA Enclosed ==
    ASSUME NEW t \in Nat
    PROVE  /\ BucketAt(t) \in Nat
           /\ BucketAt(t) * Interval <= t /\ t < BucketAt(t) * Interval + Interval
  BY Types DEF BucketAt

LEMMA Multiples ==
    ASSUME NEW a \in Int, NEW b \in Int, a < b
    PROVE  a * Interval + Interval <= b * Interval
  <1>1. 0 <= (b - a - 1) * Interval
    BY Types
  <1> QED BY <1>1, Types

LEMMA OneBucket ==
    ASSUME NEW t \in Nat, NEW b \in Int, b * Interval <= t, t < b * Interval + Interval
    PROVE  BucketAt(t) = b
  <1> DEFINE c == BucketAt(t)
  <1>1. c \in Nat /\ c * Interval <= t /\ t < c * Interval + Interval
    BY Enclosed
  <1> HIDE DEF c
  <1>2. ~(c < b) /\ ~(b < c)
    BY <1>1, Multiples, Types
  <1> QED BY <1>1, <1>2 DEF c

LEMMA InTime ==
    ASSUME NEW t \in Nat, NEW u \in Nat, t <= u
    PROVE  BucketAt(t) <= BucketAt(u)
  <1> DEFINE b == BucketAt(t)
             c == BucketAt(u)
  <1>1. /\ b \in Nat /\ b * Interval <= t /\ t < b * Interval + Interval
        /\ c \in Nat /\ c * Interval <= u /\ u < c * Interval + Interval
    BY Enclosed
  <1> HIDE DEF b, c
  <1>2. ~(c < b)
    BY <1>1, Multiples, Types
  <1> QED BY <1>1, <1>2 DEF b, c

\* In MaxGap times the interval, MaxGap buckets close.
LEMMA Span ==
    ASSUME NEW t \in Nat, NEW u \in Nat, u <= t + MaxGap * Interval
    PROVE  BucketAt(u) <= BucketAt(t) + MaxGap
  <1> DEFINE b == BucketAt(t)
             c == BucketAt(u)
             d == b + MaxGap
  <1>1. /\ b \in Nat /\ b * Interval <= t /\ t < b * Interval + Interval
        /\ c \in Nat /\ c * Interval <= u /\ u < c * Interval + Interval
    BY Enclosed
  <1> HIDE DEF b, c
  <1>2. d \in Nat /\ d * Interval = b * Interval + MaxGap * Interval
    BY <1>1, Types
  <1>3. ~(d < c)
    <2> SUFFICES ASSUME d < c PROVE FALSE
      OBVIOUS
    <2>1. d * Interval + Interval <= c * Interval
      BY <1>1, <1>2, Multiples
    <2> DEFINE x == d * Interval
               y == c * Interval
               z == b * Interval
               g == MaxGap * Interval
    <2>2. x \in Int /\ y \in Int /\ z \in Int /\ g \in Int
      BY <1>1, <1>2, Types
    <2>3. x + Interval <= y /\ x = z + g /\ t < z + Interval /\ y <= u /\ u <= t + g
      BY <1>1, <1>2, <2>1
    <2> HIDE DEF x, y, z, g, d
    <2> QED BY <2>2, <2>3, Types
  <1> QED BY <1>1, <1>2, <1>3 DEF b, c, d

LEMMA ClockBucket ==
    ASSUME NEW t \in Clock
    PROVE  BucketAt(t) \in Bucket
  <1>1. t \in Nat /\ MaxClock \in Nat /\ t <= MaxClock
    BY Types DEF Clock
  <1>2. BucketAt(t) \in Nat /\ BucketAt(t) <= BucketAt(MaxClock)
    BY <1>1, Enclosed, InTime
  <1>3. BucketAt(MaxClock) \in Nat
    BY <1>1, Enclosed
  <1> QED BY <1>2, <1>3 DEF BucketAt, Bucket

LEMMA BucketRange == Bucket \subseteq Nat
  BY Types DEF Bucket

\* A row version lies in the bucket that the change cursor names for it.
LEMMA Found ==
    ASSUME NEW t \in Time, NEW b \in Bucket, Within(t, b)
    PROVE  BucketAt(t - (IF RightClosed THEN 1 ELSE 0)) = b
  <1>1. t \in Nat \ {0} /\ b \in Nat
    BY Types, BucketRange
  <1> DEFINE x == b * Interval
  <1>2. x \in Int
    BY <1>1, Types
  <1>3. CASE RightClosed
    <2>1. x < t /\ t <= x + Interval
      BY <1>3 DEF Within
    <2> HIDE DEF x
    <2>2. t - 1 \in Nat /\ x <= t - 1 /\ t - 1 < x + Interval
      BY <1>1, <1>2, <2>1, Types
    <2>3. BucketAt(t - 1) = b
      BY <1>1, <2>2, OneBucket DEF x
    <2> QED BY <1>3, <2>3
  <1>4. CASE ~RightClosed
    <2>1. x <= t /\ t < x + Interval
      BY <1>4 DEF Within
    <2>2. BucketAt(t) = b /\ t - 0 = t
      BY <1>1, <2>1, OneBucket
    <2> QED BY <1>4, <2>2
  <1> QED BY <1>3, <1>4

-----------------------------------------------------------------------------
(* Row versions.                                                           *)

\* A version in a bucket is the one of a row that is there.
LEMMA InContent ==
    ASSUME TypeOK, NEW b \in Bucket, NEW v \in Content(b)
    PROVE  /\ v \in Version /\ v[1] \in Writer /\ v[2] \in Writer
           /\ obs[v[1]] # NoRow /\ obs[v[1]].t \in Time /\ v[2] = obs[v[1]].by
           /\ Within(obs[v[1]].t, b)
           /\ Stamp(v[1]) = Begin(v) /\ Begin(v) \in Nat
  <1>1. PICK o \in Writer : obs[o] # NoRow /\ Within(obs[o].t, b) /\ v = <<o, obs[o].by>>
    BY DEF Content
  <1>2. obs[o] \in [t : Time, by : Writer]
    BY <1>1 DEF TypeOK
  <1>3. v[1] = o /\ v[2] = obs[o].by
    BY <1>1
  <1>4. writer[v[2]].start \in Nat
    BY <1>2, <1>3, Types DEF TypeOK
  <1> QED BY <1>1, <1>2, <1>3, <1>4 DEF Version, Stamp, Begin

LEMMA Known ==
    ASSUME LInv, NEW b \in Bucket, NEW v \in Content(b)
    PROVE  writer[v[2]].pc = "done"
  BY InContent DEF LInv, Committed

\* Rows that stay are the same versions.
LEMMA SameContent ==
    ASSUME UNCHANGED <<writer, obs>>
    PROVE  /\ \A b : Content(b)' = Content(b)
           /\ \A v : Begin(v)' = Begin(v)
  BY DEF Content, Begin

LEMMA LInit == Init => LInv
  <1> SUFFICES ASSUME Init PROVE LInv
    OBVIOUS
  <1>1. /\ \A o \in Writer : obs[o] = NoRow
        /\ \A w \in Writer : writer[w].pc = "idle"
        /\ \A r \in Run : run[r].pc = "idle" /\ \A b \in Bucket : run[r].rows[b] = {}
        /\ stats = Never
    BY DEF Init, Resting, NoRows
  <1>2. TypeOK
    <2>1. run \in [Run -> [pc : {"idle", "started", "read", "written", "done"},
                           start : Clock, set : SUBSET Bucket,
                           rows : [Bucket -> SUBSET Version]]]
      BY Types DEF Init, Resting, NoRows
    <2>2. target \in [Bucket -> Aggregate]
      BY Types DEF Init, NoAggregate, Aggregate
    <2>3. writer \in [Writer -> [pc : {"idle", "open", "done"}, start : Clock]]
      BY Types DEF Init
    <2> QED BY <2>1, <2>2, <2>3, Types DEF Init, TypeOK
  <1>3. Committed /\ Timely /\ Late /\ Chosen /\ Caught
    BY <1>1 DEF Committed, Timely, Active, Late, HasRead, Chosen, Caught, Run
  <1> QED BY <1>2, <1>3 DEF LInv

-----------------------------------------------------------------------------
(* Steps of the write requests.                                            *)

WriteStep(w) == BeginWrite(w) \/ CommitWrite(w) \/ AbortWrite(w)

LEMMA WriteTypes ==
    ASSUME TypeOK, NEW w \in Writer, WriteStep(w)
    PROVE  TypeOK'
  <1>1. writer' \in [Writer -> [pc : {"idle", "open", "done"}, start : Clock]]
    <2>1. CASE BeginWrite(w)
      BY <2>1 DEF BeginWrite, TypeOK
    <2>2. CASE CommitWrite(w)
      BY <2>2 DEF CommitWrite, TypeOK
    <2>3. CASE AbortWrite(w)
      BY <2>3, Types DEF AbortWrite, TypeOK
    <2> QED BY <2>1, <2>2, <2>3 DEF WriteStep
  <1>2. obs' \in [Writer -> [t : Time, by : Writer] \union {NoRow}]
    <2>1. CASE BeginWrite(w) \/ AbortWrite(w)
      BY <2>1 DEF BeginWrite, AbortWrite, TypeOK
    <2>2. CASE CommitWrite(w)
      <3>1. CASE \E o \in Writer, t \in Time : obs' = [obs EXCEPT ![o] = [t |-> t, by |-> w]]
        BY <3>1 DEF TypeOK
      <3>2. CASE \E o \in Writer : obs' = [obs EXCEPT ![o] = NoRow]
        BY <3>2 DEF TypeOK
      <3> QED BY <2>2, <3>1, <3>2 DEF CommitWrite
    <2> QED BY <2>1, <2>2 DEF WriteStep
  <1>3. UNCHANGED <<clock, run, target, stats>>
    BY DEF WriteStep, BeginWrite, CommitWrite, AbortWrite, RunsUnchanged
  <1> QED BY <1>1, <1>2, <1>3 DEF TypeOK

\* What is new in the source is of w, and began at most MaxWrite ago.
LEMMA NewVersions ==
    ASSUME LInv, NEW w \in Writer, WriteStep(w)
    PROVE  /\ \A x \in Writer : writer[x].pc = "done" => writer'[x] = writer[x]
           /\ \A x \in Writer : writer'[x].pc = "open" =>
                writer'[x].start <= clock /\ clock <= writer'[x].start + MaxWrite
           /\ \A o \in Writer : obs'[o] # NoRow => writer'[obs'[o].by].pc = "done"
           /\ \A b \in Bucket : \A v \in Content(b)' :
                /\ Begin(v)' \in Nat
                /\ \/ v \in Content(b) /\ Begin(v)' = Begin(v)
                   \/ clock <= Begin(v)' + MaxWrite
  <1>0. /\ TypeOK /\ TypeOK' /\ UNCHANGED clock /\ clock \in Nat /\ MaxWrite \in Nat
    BY WriteTypes, Types DEF LInv, WriteStep, BeginWrite, CommitWrite, AbortWrite, TypeOK
  <1>1. \A x \in Writer : x # w => writer'[x] = writer[x]
    BY <1>0 DEF TypeOK, WriteStep, BeginWrite, CommitWrite, AbortWrite
  <1>2. writer[w].pc # "done"
    BY DEF WriteStep, BeginWrite, CommitWrite, AbortWrite
  <1>3. /\ BeginWrite(w) => writer'[w] = [pc |-> "open", start |-> clock] /\ obs' = obs
        /\ AbortWrite(w) => writer'[w].pc = "done" /\ obs' = obs
        /\ CommitWrite(w) =>
             /\ writer'[w].pc = "done" /\ writer'[w].start = writer[w].start
             /\ \A o \in Writer : \/ obs'[o] = obs[o]
                                  \/ obs'[o] = NoRow
                                  \/ obs'[o].by = w
             /\ clock <= writer[w].start + MaxWrite
    <2>1. BeginWrite(w) => writer'[w] = [pc |-> "open", start |-> clock] /\ obs' = obs
      BY <1>0 DEF TypeOK, BeginWrite
    <2>2. AbortWrite(w) => writer'[w].pc = "done" /\ obs' = obs
      BY <1>0 DEF TypeOK, AbortWrite
    <2>3. ASSUME CommitWrite(w)
          PROVE  /\ writer'[w].pc = "done" /\ writer'[w].start = writer[w].start
                 /\ \A o \in Writer : \/ obs'[o] = obs[o]
                                      \/ obs'[o] = NoRow
                                      \/ obs'[o].by = w
                 /\ clock <= writer[w].start + MaxWrite
      <3>1. writer' = [writer EXCEPT ![w].pc = "done"] /\ writer[w].pc = "open"
        BY <2>3 DEF CommitWrite
      <3>2. writer'[w].pc = "done" /\ writer'[w].start = writer[w].start
        BY <1>0, <3>1 DEF TypeOK
      <3>3. \/ \E o \in Writer, t \in Time : obs' = [obs EXCEPT ![o] = [t |-> t, by |-> w]]
            \/ \E o \in Writer : obs' = [obs EXCEPT ![o] = NoRow]
        BY <2>3 DEF CommitWrite
      <3>4. \A o \in Writer : obs'[o] = obs[o] \/ obs'[o] = NoRow \/ obs'[o].by = w
        BY <1>0, <3>3 DEF TypeOK
      <3>5. clock <= writer[w].start + MaxWrite
        BY <3>1 DEF LInv, Timely
      <3> QED BY <3>2, <3>4, <3>5
    <2> QED BY <2>1, <2>2, <2>3
  <1>4. \A x \in Writer : writer[x].pc = "done" => writer'[x] = writer[x]
    BY <1>1, <1>2
  <1>5. \A x \in Writer : writer'[x].pc = "open" =>
          writer'[x].start <= clock /\ clock <= writer'[x].start + MaxWrite
    BY <1>0, <1>1, <1>3 DEF LInv, Timely, WriteStep
  <1>6. \A o \in Writer : obs'[o] # NoRow => writer'[obs'[o].by].pc = "done"
    <2> SUFFICES ASSUME NEW o \in Writer, obs'[o] # NoRow
                 PROVE  writer'[obs'[o].by].pc = "done"
      OBVIOUS
    <2>1. CASE obs'[o] = obs[o]
      <3>1. obs[o].by \in Writer /\ writer[obs[o].by].pc = "done"
        BY <1>0, <2>1 DEF LInv, Committed, TypeOK
      <3> QED BY <1>4, <2>1, <3>1
    <2>2. CASE obs'[o] # obs[o]
      BY <1>3, <2>2 DEF WriteStep
    <2> QED BY <2>1, <2>2
  <1>7. ASSUME NEW b \in Bucket, NEW v \in Content(b)'
        PROVE  /\ Begin(v)' \in Nat
               /\ \/ v \in Content(b) /\ Begin(v)' = Begin(v)
                  \/ clock <= Begin(v)' + MaxWrite
    <2>1. PICK o \in Writer : /\ obs'[o] # NoRow /\ Within(obs'[o].t, b)
                              /\ v = <<o, obs'[o].by>>
      BY DEF Content
    <2>2. Begin(v)' \in Nat
      <3>1. v[2] \in Writer
        BY <1>0, <2>1 DEF TypeOK
      <3> QED BY <1>0, <3>1, Types DEF TypeOK, Begin
    <2>3. CASE obs'[o] = obs[o]
      <3>1. v \in Content(b)
        BY <2>1, <2>3 DEF Content
      <3>2. v[2] \in Writer /\ writer[v[2]].pc = "done"
        BY <1>0, <3>1, InContent, Known
      <3>3. Begin(v)' = Begin(v)
        BY <1>4, <3>2 DEF Begin
      <3> QED BY <2>2, <3>1, <3>3
    <2>4. CASE obs'[o] # obs[o]
      <3>1. CommitWrite(w) /\ v[2] = w
        BY <1>3, <2>1, <2>4 DEF WriteStep
      <3>2. Begin(v)' = writer'[w].start
        BY <3>1 DEF Begin
      <3> QED BY <1>3, <2>2, <3>1, <3>2
    <2> QED BY <2>3, <2>4
  <1> QED BY <1>4, <1>5, <1>6, <1>7

LEMMA WriteKeeps ==
    ASSUME LInv, InBounds, NEW w \in Writer, WriteStep(w)
    PROVE  LInv'
  <1>0. /\ TypeOK /\ TypeOK' /\ UNCHANGED <<clock, run, target, stats>>
        /\ clock \in Nat /\ MaxWrite \in Nat /\ Overlap \in Nat /\ MaxRun \in Nat
    BY WriteTypes, Types DEF LInv, WriteStep, BeginWrite, CommitWrite, AbortWrite,
                             RunsUnchanged, TypeOK
  <1>1. /\ \A x \in Writer : writer[x].pc = "done" => writer'[x] = writer[x]
        /\ \A x \in Writer : writer'[x].pc = "open" =>
             writer'[x].start <= clock /\ clock <= writer'[x].start + MaxWrite
        /\ \A o \in Writer : obs'[o] # NoRow => writer'[obs'[o].by].pc = "done"
        /\ \A b \in Bucket : \A v \in Content(b)' :
             /\ Begin(v)' \in Nat
             /\ \/ v \in Content(b) /\ Begin(v)' = Begin(v)
                \/ clock <= Begin(v)' + MaxWrite
    BY NewVersions
  <1>2. \A r \in Run, b \in Bucket : \A v \in run[r].rows[b] :
          /\ v[2] \in Writer /\ writer[v[2]].pc = "done" /\ writer'[v[2]] = writer[v[2]]
          /\ Begin(v)' = Begin(v)
    <2> SUFFICES ASSUME NEW r \in Run, NEW b \in Bucket, NEW v \in run[r].rows[b]
                 PROVE  /\ v[2] \in Writer /\ writer[v[2]].pc = "done"
                        /\ writer'[v[2]] = writer[v[2]] /\ Begin(v)' = Begin(v)
      OBVIOUS
    <2>1. v \in Version
      BY <1>0 DEF TypeOK
    <2>2. v[2] \in Writer /\ writer[v[2]].pc = "done"
      BY <2>1 DEF Version, LInv, Committed
    <2> QED BY <1>1, <2>2 DEF Begin
  <1>3. Committed'
    BY <1>0, <1>1, <1>2 DEF Committed
  <1>4. Timely'
    BY <1>0, <1>1 DEF LInv, Timely, Active
  <1>5. Late'
    <2> SUFFICES ASSUME NEW r \in Run, HasRead(r), NEW b \in Bucket, NEW v \in Content(b)',
                        v \notin run[r].rows[b]
                 PROVE  run[r].start <= Begin(v)' + MaxWrite
      BY <1>0 DEF Late, HasRead
    <2>1. run[r].start \in Nat /\ run[r].start <= clock
      BY <1>0, Types DEF LInv, Timely, Active, HasRead, TypeOK
    <2>2. CASE clock <= Begin(v)' + MaxWrite
      BY <1>0, <1>1, <2>1, <2>2
    <2>3. CASE v \in Content(b) /\ Begin(v)' = Begin(v)
      BY <2>3 DEF LInv, Late
    <2> QED BY <1>1, <2>2, <2>3
  <1>6. Chosen'
    <2>1. \A b : Closed(b)' = Closed(b)
      BY DEF Closed
    <2>2. \A b \in Closed(run["job"].start) : b \in Bucket
      BY DEF Closed
    <2> QED BY <1>0, <1>2, <2>1, <2>2 DEF LInv, Chosen, Run
  <1>7. Caught'
    <2>1. \A v, b : Safe(v, b) => Safe(v, b)'
      BY <1>0 DEF Safe
    <2>2. ASSUME stats # Never, NEW b \in Bucket, b < stats.closed, NEW v \in Content(b)',
                 Begin(v)' < stats.finish - Overlap
          PROVE  Safe(v, b)'
      <3>1. stats.finish \in Nat /\ stats.finish <= clock
        BY <1>0, <2>2, Types DEF LInv, Timely, TypeOK
      <3>2. ~(clock <= Begin(v)' + MaxWrite)
        BY <1>0, <1>1, <2>2, <3>1 DEF InBounds
      <3>3. v \in Content(b) /\ Begin(v)' = Begin(v)
        BY <1>1, <3>2
      <3> QED BY <2>1, <2>2, <3>3 DEF LInv, Caught
    <2>3. ASSUME run["job"].pc = "written", NEW b \in Closed(run["job"].start),
                 NEW v \in Content(b)', Begin(v)' + MaxWrite < run["job"].start
          PROVE  Safe(v, b)'
      <3>0. b \in Bucket
        BY DEF Closed
      <3>1. run["job"].start \in Nat /\ run["job"].start <= clock
        BY <1>0, <2>3, Types DEF LInv, Timely, Active, TypeOK, Run
      <3>2. ~(clock <= Begin(v)' + MaxWrite)
        BY <1>0, <1>1, <2>3, <3>0, <3>1
      <3>3. v \in Content(b) /\ Begin(v)' = Begin(v)
        BY <1>1, <3>0, <3>2
      <3> QED BY <2>1, <2>3, <3>3 DEF LInv, Caught
    <2>4. \A t : Closed(t)' = Closed(t)
      BY DEF Closed
    <2> QED BY <1>0, <2>2, <2>3, <2>4 DEF Caught
  <1> QED BY <1>0, <1>3, <1>4, <1>5, <1>6, <1>7 DEF LInv

-----------------------------------------------------------------------------
(* Steps of the runs.                                                      *)

Progress(r) == Start(r) \/ Read(r) \/ Upsert(r) \/ Finish(r) \/ Fail(r)

Runs == [pc : {"idle", "started", "read", "written", "done"}, start : Clock,
         set : SUBSET Bucket, rows : [Bucket -> SUBSET Version]]

LEMMA Rests ==
    ASSUME NEW how \in {"idle", "done"}
    PROVE  Resting(how) \in Runs
  BY Types DEF Resting, Runs, NoRows

LEMMA RunTypes ==
    ASSUME TypeOK, NEW r \in Run, Progress(r)
    PROVE  /\ TypeOK' /\ UNCHANGED <<clock, writer, obs>>
           /\ \A q \in Run : q # r => run'[q] = run[q]
  <1>0. /\ UNCHANGED <<clock, writer, obs>>
        /\ \A q \in Run : q # r => run'[q] = run[q]
        /\ run \in [Run -> Runs]
    BY DEF Progress, Start, Read, Upsert, Finish, Fail, SourceUnchanged, TypeOK, Runs
  <1>1. run' \in [Run -> Runs]
    <2>1. CASE Start(r)
      <3>1. PICK set \in SUBSET Bucket :
              run' = [run EXCEPT ![r] = [pc |-> "started", start |-> clock,
                                         set |-> set, rows |-> NoRows]]
        <4>1. (IF r = "job" THEN {{}} ELSE Window) \subseteq SUBSET Bucket
          BY Types
        <4> QED BY <2>1, <4>1 DEF Start
      <3>2. [pc |-> "started", start |-> clock, set |-> set, rows |-> NoRows] \in Runs
        BY DEF Runs, NoRows, TypeOK
      <3> HIDE DEF Runs
      <3> QED BY <1>0, <3>1, <3>2
    <2>2. CASE Read(r)
      <3> DEFINE now == run[r].start
                 set == IF r = "job" THEN Recent(now) \union Changed(From(stats), now)
                        ELSE run[r].set
                 read == [b \in Bucket |-> Content(b)]
      <3>1. set \in SUBSET Bucket
        BY <1>0 DEF Recent, Changed, Closed, Runs
      <3>2. read \in [Bucket -> SUBSET Version]
        BY InContent
      <3>3. run' = [run EXCEPT ![r].pc = "read", ![r].set = set, ![r].rows = read]
        BY <2>2 DEF Read
      <3> HIDE DEF set, read
      <3>4. [pc |-> "read", start |-> now, set |-> set, rows |-> read] \in Runs
        BY <1>0, <3>1, <3>2 DEF Runs
      <3>5. run'[r] = [pc |-> "read", start |-> now, set |-> set, rows |-> read]
        BY <1>0, <3>3, ZenonT(60) DEF Runs
      <3>6. run' \in [Run -> {run'[q] : q \in Run}]
        BY <1>0, <3>3
      <3> HIDE DEF Runs
      <3> QED BY <1>0, <3>4, <3>5, <3>6
    <2>3. CASE Upsert(r)
      BY <1>0, <2>3 DEF Upsert, Runs
    <2>4. CASE Finish(r) \/ Fail(r)
      <3>1. PICK how \in {"idle", "done"} : run' = [run EXCEPT ![r] = Resting(how)]
        BY <2>4 DEF Finish, Fail
      <3> HIDE DEF Runs
      <3> QED BY <1>0, <3>1, Rests
    <2> QED BY <2>1, <2>2, <2>3, <2>4 DEF Progress
  <1>2. target' \in [Bucket -> Aggregate]
    <2>1. CASE Upsert(r)
      <3>1. \A b \in Bucket : [rows |-> run[r].rows[b], since |-> run[r].start] \in Aggregate
        BY <1>0 DEF Aggregate, Runs
      <3> QED BY <2>1, <3>1 DEF Upsert, TypeOK
    <2>2. CASE ~Upsert(r)
      BY <2>2 DEF Progress, Start, Read, Finish, Fail, TypeOK
    <2> QED BY <2>1, <2>2
  <1>3. stats' \in [finish : Clock, closed : Bucket] \union {Never}
    <2>1. CASE Finish(r)
      <3>1. BucketAt(run[r].start) \in Bucket
        BY <1>0, ClockBucket DEF Runs
      <3> QED BY <2>1, <3>1 DEF Finish, TypeOK
    <2>2. CASE ~Finish(r)
      BY <2>2 DEF Progress, Start, Read, Upsert, Fail, TypeOK
    <2> QED BY <2>1, <2>2
  <1> QED BY <1>0, <1>1, <1>2, <1>3 DEF TypeOK, Runs

\* What no run does to the others and to the source.
LEMMA Around ==
    ASSUME LInv, NEW r \in Run, Progress(r)
    PROVE  /\ TypeOK /\ TypeOK' /\ UNCHANGED <<clock, writer, obs>>
           /\ \A q \in Run : q # r => run'[q] = run[q]
           /\ \A b : Content(b)' = Content(b)
           /\ \A v : Begin(v)' = Begin(v)
           /\ \A t : Closed(t)' = Closed(t)
           /\ \A t : t \in Closed(run["job"].start) => t \in Bucket
           /\ clock \in Nat /\ \A q \in Run : run[q].start \in Nat
           /\ \A b \in Bucket : \A v \in Content(b) :
                Begin(v) \in Nat /\ writer[v[2]].pc = "done"
           /\ stats # Never => stats.finish \in Nat /\ stats.closed \in Nat
  <1>1. TypeOK /\ TypeOK' /\ UNCHANGED <<clock, writer, obs>>
        /\ \A q \in Run : q # r => run'[q] = run[q]
    BY RunTypes DEF LInv
  <1>2. /\ \A t : Closed(t)' = Closed(t)
        /\ \A t : t \in Closed(run["job"].start) => t \in Bucket
    BY DEF Closed
  <1>3. clock \in Nat /\ \A q \in Run : run[q].start \in Nat
    BY <1>1, Types DEF TypeOK
  <1>4. stats # Never => stats.finish \in Nat /\ stats.closed \in Nat
    BY <1>1, Types, BucketRange DEF TypeOK
  <1> QED BY <1>1, <1>2, <1>3, <1>4, SameContent, InContent, Known

LEMMA StartKeeps ==
    ASSUME LInv, NEW r \in Run, Start(r)
    PROVE  LInv'
  <1>0. /\ TypeOK /\ TypeOK' /\ UNCHANGED <<clock, writer, obs>>
        /\ \A q \in Run : q # r => run'[q] = run[q]
        /\ \A b : Content(b)' = Content(b)
        /\ \A v : Begin(v)' = Begin(v)
        /\ \A t : Closed(t)' = Closed(t)
        /\ clock \in Nat /\ \A q \in Run : run[q].start \in Nat
    BY Around DEF Progress
  <1>1. /\ UNCHANGED <<target, stats>>
        /\ run'[r].pc = "started" /\ run'[r].start = clock /\ run'[r].rows = NoRows
        /\ run[r].pc = "idle"
    BY <1>0 DEF Start, TypeOK
  <1>2. Committed'
    BY <1>0, <1>1 DEF LInv, Committed, NoRows
  <1>3. Timely'
    <2>1. \A q \in Run : Active(q)' => run'[q].start <= clock /\ clock <= run'[q].start + MaxRun
      BY <1>0, <1>1, Types DEF LInv, Timely, Active
    <2>2. stats # Never => (Active("job")' => stats.finish <= run'["job"].start)
      BY <1>0, <1>1 DEF LInv, Timely, Active, Run
    <2> QED BY <1>0, <1>1, <2>1, <2>2 DEF LInv, Timely, BucketAt
  <1>4. Late'
    BY <1>0, <1>1 DEF LInv, Late, HasRead
  <1>5. Chosen'
    BY <1>0, <1>1 DEF LInv, Chosen, Run
  <1>6. Caught'
    <2>1. \A v, b : Safe(v, b) => Safe(v, b)'
      BY <1>0, <1>1 DEF Safe, Run
    <2> QED BY <1>0, <1>1, <2>1 DEF LInv, Caught, Run
  <1> QED BY <1>0, <1>2, <1>3, <1>4, <1>5, <1>6 DEF LInv

LEMMA FailKeeps ==
    ASSUME LInv, NEW r \in Run, Fail(r)
    PROVE  LInv'
  <1>0. /\ TypeOK /\ TypeOK' /\ UNCHANGED <<clock, writer, obs>>
        /\ \A q \in Run : q # r => run'[q] = run[q]
        /\ \A b : Content(b)' = Content(b)
        /\ \A v : Begin(v)' = Begin(v)
        /\ \A t : Closed(t)' = Closed(t)
    BY Around DEF Progress
  <1>1. /\ UNCHANGED <<target, stats>>
        /\ run'[r].pc \in {"idle", "done"} /\ run'[r].rows = NoRows
    BY <1>0 DEF Fail, TypeOK, Resting
  <1>2. Committed'
    BY <1>0, <1>1 DEF LInv, Committed, NoRows
  <1>3. Timely'
    <2>1. \A q \in Run : Active(q)' => q # r
      BY <1>1 DEF Active
    <2> QED BY <1>0, <1>1, <2>1 DEF LInv, Timely, Active, BucketAt, Run
  <1>4. Late'
    BY <1>0, <1>1 DEF LInv, Late, HasRead
  <1>5. Chosen'
    BY <1>0, <1>1 DEF LInv, Chosen, Run
  <1>6. Caught'
    <2>1. \A v, b : Safe(v, b) => Safe(v, b)'
      BY <1>0, <1>1 DEF Safe, Run
    <2> QED BY <1>0, <1>1, <2>1 DEF LInv, Caught, Run
  <1> QED BY <1>0, <1>2, <1>3, <1>4, <1>5, <1>6 DEF LInv

LEMMA ReadKeeps ==
    ASSUME LInv, InBounds, NEW r \in Run, Read(r)
    PROVE  LInv'
  <1>0. /\ TypeOK /\ TypeOK' /\ UNCHANGED <<clock, writer, obs>>
        /\ \A q \in Run : q # r => run'[q] = run[q]
        /\ \A b : Content(b)' = Content(b)
        /\ \A v : Begin(v)' = Begin(v)
        /\ \A t : Closed(t)' = Closed(t)
        /\ \A t : t \in Closed(run["job"].start) => t \in Bucket
        /\ clock \in Nat /\ \A q \in Run : run[q].start \in Nat
        /\ \A b \in Bucket : \A v \in Content(b) :
             Begin(v) \in Nat /\ writer[v[2]].pc = "done"
        /\ stats # Never => stats.finish \in Nat /\ stats.closed \in Nat
    BY Around DEF Progress
  <1>1. /\ UNCHANGED <<target, stats>> /\ run[r].pc = "started"
        /\ run'[r].pc = "read" /\ run'[r].start = run[r].start
        /\ r = "job" => run'[r].set = Recent(run[r].start)
                                        \union Changed(From(stats), run[r].start)
        /\ \A b \in Bucket : run'[r].rows[b] = Content(b)
    BY <1>0 DEF Read, TypeOK
  <1>2. Committed'
    BY <1>0, <1>1 DEF LInv, Committed
  <1>3. Timely'
    <2>1. \A q \in Run : Active(q)' => Active(q) /\ run'[q].start = run[q].start
      BY <1>0, <1>1 DEF Active
    <2> QED BY <1>0, <1>1, <2>1 DEF LInv, Timely, BucketAt, Run
  <1>4. Late'
    BY <1>0, <1>1 DEF LInv, Late, HasRead
  <1>5. Chosen'
    <2>1. CASE r # "job"
      BY <1>0, <1>1, <2>1 DEF LInv, Chosen, Run
    <2>2. CASE r = "job"
      <3> DEFINE now == run["job"].start
      <3> SUFFICES ASSUME NEW b \in Closed(now), NEW v \in Content(b),
                          b \notin Recent(now) \union Changed(From(stats), now), Begin(v) < now
                   PROVE  /\ stats # Never
                          /\ Begin(v) < stats.finish - Overlap
                          /\ b < stats.closed
        BY <1>0, <1>1, <2>2 DEF Chosen
      <3>0. b \in Bucket /\ b \in Nat /\ Begin(v) \in Nat /\ now \in Nat
        <4>1. b \in Bucket /\ b \in Nat
          BY BucketRange DEF Closed
        <4> QED BY <1>0, <2>2, <4>1
      <3>1. /\ v[1] \in Writer /\ obs[v[1]] # NoRow /\ obs[v[1]].t \in Time
            /\ Within(obs[v[1]].t, b) /\ Stamp(v[1]) = Begin(v)
        BY <1>0, <3>0, InContent
      <3>2. BucketAt(obs[v[1]].t - (IF RightClosed THEN 1 ELSE 0)) = b
        BY <3>0, <3>1, Found
      <3>3. ~(From(stats) <= Begin(v))
        BY <3>1, <3>2 DEF Changed
      <3>4. stats # Never /\ Begin(v) < stats.finish - Overlap
        BY <1>0, <3>0, <3>3, Types DEF From
      <3>5. b < stats.closed
        <4> DEFINE p == BucketAt(now)
                   c == BucketAt(clock)
        <4>1. b < p - Recompute
          <5>1. p \in Nat
            BY <3>0, Enclosed
          <5> HIDE DEF p
          <5>2. ~(b >= p - Recompute)
            BY DEF Recent, p
          <5> QED BY <3>0, <5>1, <5>2, Types
        <4>2. p \in Nat /\ c \in Nat /\ p <= c
          <5>1. now <= clock
            BY <1>1, <2>2 DEF LInv, Timely, Active
          <5> QED BY <1>0, <3>0, <5>1, Enclosed, InTime
        <4>3. c - stats.closed <= MaxGap
          BY <3>4 DEF LInv, Timely
        <4> HIDE DEF p, c
        <4> QED BY <1>0, <3>0, <3>4, <4>1, <4>2, <4>3, Types DEF InBounds
      <3> QED BY <3>4, <3>5
    <2> QED BY <2>1, <2>2
  <1>6. Caught'
    <2>1. \A b \in Bucket : \A v \in Content(b) : Safe(v, b) => Safe(v, b)'
      BY <1>0, <1>1 DEF Safe, Run
    <2> QED BY <1>0, <1>1, <2>1 DEF LInv, Caught, Run
  <1> QED BY <1>0, <1>2, <1>3, <1>4, <1>5, <1>6 DEF LInv

\* The job commits: every version that was stamped before it started and that its
\* snapshot has seen is on the target, in each bucket that is closed.
LEMMA JobWrites ==
    ASSUME LInv, Upsert("job"), NEW b \in Closed(run["job"].start),
           NEW v \in run["job"].rows[b] \intersect Content(b), Begin(v) < run["job"].start
    PROVE  /\ v \in target'[b].rows
           /\ b \notin run["job"].set => Safe(v, b) /\ target'[b] = target[b]
  <1>0. TypeOK /\ "job" \in Run /\ b \in Bucket /\ Begin(v) \in Nat /\ run["job"].start \in Nat
    BY Around DEF Progress, Run, Closed
  <1>1. target'[b] = IF b \in run["job"].set
                     THEN [rows |-> run["job"].rows[b], since |-> run["job"].start]
                     ELSE target[b]
    BY <1>0 DEF Upsert
  <1>2. CASE b \in run["job"].set
    BY <1>1, <1>2
  <1>3. CASE b \notin run["job"].set
    <2>1. stats # Never /\ Begin(v) < stats.finish - Overlap /\ b < stats.closed
      BY <1>0, <1>3 DEF LInv, Chosen, Upsert
    <2>2. Safe(v, b)
      BY <1>0, <2>1 DEF LInv, Caught
    <2> QED BY <1>1, <1>3, <2>2 DEF Safe
  <1> QED BY <1>2, <1>3

LEMMA UpsertKeeps ==
    ASSUME LInv, InBounds, NEW r \in Run, Upsert(r)
    PROVE  LInv'
  <1>0. /\ TypeOK /\ TypeOK' /\ UNCHANGED <<clock, writer, obs>>
        /\ \A q \in Run : q # r => run'[q] = run[q]
        /\ \A b : Content(b)' = Content(b)
        /\ \A v : Begin(v)' = Begin(v)
        /\ \A t : Closed(t)' = Closed(t)
        /\ \A t : t \in Closed(run["job"].start) => t \in Bucket
        /\ clock \in Nat /\ \A q \in Run : run[q].start \in Nat
        /\ \A b \in Bucket : \A v \in Content(b) :
             Begin(v) \in Nat /\ writer[v[2]].pc = "done"
        /\ stats # Never => stats.finish \in Nat /\ stats.closed \in Nat
    BY Around DEF Progress
  <1>1. /\ UNCHANGED stats /\ run[r].pc = "read"
        /\ run'[r].pc = "written" /\ run'[r].start = run[r].start
        /\ run'[r].set = run[r].set /\ run'[r].rows = run[r].rows
        /\ \A b \in Bucket : target'[b] = IF b \in run[r].set
                                          THEN [rows |-> run[r].rows[b], since |-> run[r].start]
                                          ELSE target[b]
        /\ \A b \in run[r].set : target[b].since <= run[r].start
    BY <1>0 DEF Upsert, TypeOK
  <1>2. Committed'
    BY <1>0, <1>1 DEF LInv, Committed
  <1>3. Timely'
    <2>1. \A q \in Run : Active(q)' => Active(q) /\ run'[q].start = run[q].start
      BY <1>0, <1>1 DEF Active
    <2> QED BY <1>0, <1>1, <2>1 DEF LInv, Timely, BucketAt, Run
  <1>4. Late'
    BY <1>0, <1>1 DEF LInv, Late, HasRead
  <1>5. Chosen'
    BY <1>0, <1>1 DEF LInv, Chosen, Run
  <1>6. Caught'
    <2>1. CASE r = "manual"
      <3>1. ASSUME NEW b \in Bucket, NEW v, Safe(v, b)
            PROVE  Safe(v, b)'
        <4>1. run'["manual"].pc # "read"
          BY <1>1, <2>1
        <4>2. v \in target'[b].rows
          <5>1. CASE b \in run["manual"].set
            <6>1. v \in run["manual"].rows[b]
              BY <1>1, <2>1, <3>1, <5>1 DEF Safe
            <6>2. target'[b] = [rows |-> run["manual"].rows[b], since |-> run["manual"].start]
              BY <1>1, <2>1, <5>1
            <6> QED BY <6>1, <6>2
          <5>2. CASE b \notin run["manual"].set
            BY <1>1, <2>1, <3>1, <5>2 DEF Safe
          <5> QED BY <5>1, <5>2
        <4> QED BY <4>1, <4>2 DEF Safe
      <3> QED BY <1>0, <1>1, <2>1, <3>1 DEF LInv, Caught, Run
    <2>2. CASE r = "job"
      <3> DEFINE now == run["job"].start
      \* What is old when the job starts, its snapshot has seen, and the operator's too
      \* if that may still write.
      <3>1. ASSUME NEW b \in Bucket, NEW v \in Content(b), Begin(v) + MaxWrite < now,
                   b \in run["job"].set \/ Safe(v, b)
            PROVE  Safe(v, b)'
        <4>1. CASE b \notin run["job"].set
          BY <1>0, <1>1, <2>2, <3>1, <4>1 DEF Safe, Run
        <4>2. CASE b \in run["job"].set
          <5>1. v \in run["job"].rows[b]
            BY <1>0, <1>1, <2>2, <3>1, Types DEF LInv, Late, HasRead
          <5>2. target'[b] = [rows |-> run["job"].rows[b], since |-> now]
            BY <1>1, <2>2, <4>2
          <5>3. ASSUME run["manual"].pc = "read", now <= run["manual"].start
                PROVE  v \in run["manual"].rows[b]
            BY <1>0, <3>1, <5>3, Types DEF LInv, Late, HasRead, Run
          <5> QED BY <1>0, <2>2, <5>1, <5>2, <5>3 DEF Safe, Run
        <4> QED BY <4>1, <4>2
      <3>2. ASSUME stats # Never, NEW b \in Bucket, b < stats.closed, NEW v \in Content(b),
                   Begin(v) < stats.finish - Overlap
            PROVE  Safe(v, b)'
        <4>1. Safe(v, b)
          BY <3>2 DEF LInv, Caught
        <4>2. Begin(v) + MaxWrite < now
          <5>1. stats.finish <= now /\ Begin(v) \in Nat
            BY <1>0, <1>1, <2>2, <3>2 DEF LInv, Timely, Active
          <5> QED BY <1>0, <2>2, <3>2, <5>1, Types DEF InBounds
        <4> QED BY <3>1, <4>1, <4>2
      <3>3. ASSUME NEW b \in Closed(now), NEW v \in Content(b), Begin(v) + MaxWrite < now
            PROVE  Safe(v, b)'
        <4>1. b \in Bucket /\ Begin(v) \in Nat /\ Begin(v) < now
          BY <1>0, <2>2, <3>3, Types
        <4>2. v \in run["job"].rows[b]
          BY <1>0, <1>1, <2>2, <3>3, <4>1, Types DEF LInv, Late, HasRead
        <4>3. b \notin run["job"].set => Safe(v, b)
          BY <2>2, <4>1, <4>2, JobWrites
        <4> QED BY <3>1, <3>3, <4>1, <4>3
      <3> QED BY <1>0, <1>1, <2>2, <3>2, <3>3 DEF Caught
    <2> QED BY <2>1, <2>2 DEF Run
  <1> QED BY <1>0, <1>2, <1>3, <1>4, <1>5, <1>6 DEF LInv

LEMMA FinishKeeps ==
    ASSUME LInv, InBounds, NEW r \in Run, Finish(r)
    PROVE  LInv'
  <1>0. /\ TypeOK /\ TypeOK' /\ UNCHANGED <<clock, writer, obs>>
        /\ \A q \in Run : q # r => run'[q] = run[q]
        /\ \A b : Content(b)' = Content(b)
        /\ \A v : Begin(v)' = Begin(v)
        /\ \A t : Closed(t)' = Closed(t)
        /\ clock \in Nat /\ \A q \in Run : run[q].start \in Nat
        /\ \A b \in Bucket : \A v \in Content(b) :
             Begin(v) \in Nat /\ writer[v[2]].pc = "done"
    BY Around DEF Progress
  <1>1. /\ UNCHANGED target /\ run[r].pc = "written"
        /\ run'[r].pc \in {"idle", "done"} /\ run'[r].rows = NoRows
        /\ stats' = IF r = "job"
                    THEN [finish |-> clock, closed |-> BucketAt(run["job"].start)] ELSE stats
    BY <1>0 DEF Finish, TypeOK, Resting
  <1>2. Committed'
    BY <1>0, <1>1 DEF LInv, Committed, NoRows
  <1>3. Timely'
    <2>1. \A q \in Run : Active(q)' => q # r
      BY <1>1 DEF Active
    <2>2. CASE r # "job"
      BY <1>0, <1>1, <2>1, <2>2 DEF LInv, Timely, Active, BucketAt, Run
    <2>3. CASE r = "job"
      <3>1. stats'.finish = clock /\ stats'.closed = BucketAt(run["job"].start)
        BY <1>1, <2>3
      <3>2. BucketAt(clock) - BucketAt(run["job"].start) <= MaxGap
        <4>1. clock <= run["job"].start + MaxRun
          BY <1>1, <2>3 DEF LInv, Timely, Active
        <4>2. MaxGap * Interval \in Nat
          BY Types
        <4>3. clock <= run["job"].start + MaxGap * Interval
          BY <1>0, <2>3, <4>1, <4>2, Types DEF InBounds
        <4> DEFINE c == BucketAt(clock)
                   p == BucketAt(run["job"].start)
        <4>4. c <= p + MaxGap /\ c \in Nat /\ p \in Nat
          BY <1>0, <2>3, <4>3, Span, Enclosed
        <4> HIDE DEF c, p
        <4>5. c - p <= MaxGap
          BY <4>4, Types
        <4> QED BY <4>5 DEF c, p
      <3> QED BY <1>0, <1>1, <2>1, <2>3, <3>1, <3>2 DEF LInv, Timely, Active, BucketAt, Run
    <2> QED BY <2>2, <2>3
  <1>4. Late'
    BY <1>0, <1>1 DEF LInv, Late, HasRead
  <1>5. Chosen'
    BY <1>0, <1>1 DEF LInv, Chosen, Run
  <1>6. Caught'
    <2>1. \A v, b : Safe(v, b) => Safe(v, b)'
      BY <1>0, <1>1 DEF Safe, Run
    <2>2. CASE r # "job"
      BY <1>0, <1>1, <2>1, <2>2 DEF LInv, Caught, Run
    <2>3. CASE r = "job"
      <3>1. ASSUME NEW b \in Bucket, b < BucketAt(run["job"].start), NEW v \in Content(b),
                   Begin(v) < clock - Overlap
            PROVE  Safe(v, b)'
        <4>1. Begin(v) \in Nat /\ clock <= run["job"].start + MaxRun
          BY <1>0, <1>1, <2>3 DEF LInv, Timely, Active
        <4>2. Begin(v) + MaxWrite < run["job"].start
          BY <1>0, <2>3, <3>1, <4>1, Types DEF InBounds
        <4>3. b \in Closed(run["job"].start)
          BY <3>1 DEF Closed
        <4>4. Safe(v, b)
          BY <1>1, <2>3, <4>2, <4>3 DEF LInv, Caught
        <4> QED BY <2>1, <4>4
      <3>2. stats' = [finish |-> clock, closed |-> BucketAt(run["job"].start)]
        BY <1>1, <2>3
      <3>3. stats'.finish = clock /\ stats'.closed = BucketAt(run["job"].start)
        BY <3>2
      <3>4. \A b \in Bucket : b < stats'.closed =>
              \A v \in Content(b) : Begin(v) < stats'.finish - Overlap => Safe(v, b)'
        BY <3>1, <3>3
      <3>5. run'["job"].pc # "written"
        BY <1>1, <2>3
      <3> HIDE <3>2
      <3> QED BY <1>0, <3>4, <3>5 DEF Caught
    <2> QED BY <2>2, <2>3
  <1> QED BY <1>0, <1>2, <1>3, <1>4, <1>5, <1>6 DEF LInv

LEMMA TickKeeps ==
    ASSUME LInv, Tick
    PROVE  LInv'
  <1>0. UNCHANGED <<writer, obs, run, target, stats>> /\ clock' = clock + 1
    BY DEF Tick, SourceUnchanged, RunsUnchanged
  <1>1. clock \in Nat /\ clock + 1 \in Clock
    BY Types DEF LInv, TypeOK, Tick, Clock
  <1>2. TypeOK'
    BY <1>0, <1>1 DEF LInv, TypeOK
  <1>3. Committed' /\ Late' /\ Chosen'
    <2>1. Committed'
      BY <1>0 DEF LInv, Committed
    <2>2. Late'
      BY <1>0, SameContent DEF LInv, Late, HasRead
    <2>3. Chosen'
      BY <1>0, SameContent DEF LInv, Chosen, Closed
    <2> QED BY <2>1, <2>2, <2>3
  <1>4. Timely'
    <2>1. \A w \in Writer : writer[w].pc = "open" =>
            writer[w].start <= clock + 1 /\ clock + 1 <= writer[w].start + MaxWrite
      <3> SUFFICES ASSUME NEW w \in Writer, writer[w].pc = "open"
                   PROVE  /\ writer[w].start <= clock + 1
                          /\ clock + 1 <= writer[w].start + MaxWrite
        OBVIOUS
      <3>1. writer[w].start \in Nat /\ writer[w].start <= clock
            /\ clock < writer[w].start + MaxWrite
        BY Types DEF LInv, TypeOK, Timely, Tick
      <3> QED BY <1>1, <3>1, Types
    <2>2. \A r \in Run : Active(r) =>
            run[r].start <= clock + 1 /\ clock + 1 <= run[r].start + MaxRun
      <3> SUFFICES ASSUME NEW r \in Run, Active(r)
                   PROVE  run[r].start <= clock + 1 /\ clock + 1 <= run[r].start + MaxRun
        OBVIOUS
      <3>1. run[r].start \in Nat /\ run[r].start <= clock /\ clock < run[r].start + MaxRun
        BY Types DEF LInv, TypeOK, Timely, Tick, Active
      <3> QED BY <1>1, <3>1, Types
    <2>3. stats # Never =>
            /\ stats.finish <= clock + 1
            /\ BucketAt(clock + 1) - stats.closed <= MaxGap
            /\ Active("job") => stats.finish <= run["job"].start
      <3> SUFFICES ASSUME stats # Never
                   PROVE  /\ stats.finish <= clock + 1
                          /\ BucketAt(clock + 1) - stats.closed <= MaxGap
                          /\ Active("job") => stats.finish <= run["job"].start
        OBVIOUS
      <3>1. stats.finish \in Nat /\ stats.finish <= clock
        BY Types DEF LInv, TypeOK, Timely
      <3>2. stats.finish <= clock + 1
        BY <1>1, <3>1
      <3> QED BY <3>2 DEF LInv, Timely, Tick
    <2> QED BY <1>0, <2>1, <2>2, <2>3 DEF Timely, Active, BucketAt
  <1>5. Caught'
    <2>1. \A v, b : Safe(v, b)' <=> Safe(v, b)
      BY <1>0 DEF Safe
    <2> QED BY <1>0, <2>1, SameContent DEF LInv, Caught, Closed
  <1> QED BY <1>2, <1>3, <1>4, <1>5 DEF LInv

LEMMA LStep == InBounds /\ LInv /\ [Next]_vars => LInv'
  <1> SUFFICES ASSUME InBounds, LInv, [Next]_vars PROVE LInv'
    OBVIOUS
  <1>1. CASE Tick
    BY <1>1, TickKeeps
  <1>2. ASSUME NEW w \in Writer, BeginWrite(w) \/ CommitWrite(w) \/ AbortWrite(w)
        PROVE  LInv'
    BY <1>2, WriteKeeps DEF WriteStep
  <1>3. ASSUME NEW r \in Run, Start(r) \/ Read(r) \/ Upsert(r) \/ Finish(r) \/ Fail(r)
        PROVE  LInv'
    BY <1>3, StartKeeps, ReadKeeps, UpsertKeeps, FinishKeeps, FailKeeps
  <1>4. CASE UNCHANGED vars
    <2>1. TypeOK' /\ Committed' /\ Timely'
      BY <1>4 DEF vars, LInv, TypeOK, Committed, Timely, Active, BucketAt
    <2>2. Late' /\ Chosen'
      BY <1>4, SameContent DEF vars, LInv, Late, HasRead, Chosen, Closed
    <2>3. \A v, b : Safe(v, b)' <=> Safe(v, b)
      BY <1>4 DEF vars, Safe
    <2>4. Caught'
      BY <1>4, <2>3, SameContent DEF vars, LInv, Caught, Closed
    <2> QED BY <2>1, <2>2, <2>4 DEF LInv
  <1> QED BY <1>1, <1>2, <1>3, <1>4 DEF Next

-----------------------------------------------------------------------------
(* Theorems.                                                               *)

\* The state stays within its types, whatever the bounds.
THEOREM AggregationTypes == Spec => []TypeOK
  <1>1. Init => TypeOK
    BY LInit DEF LInv
  <1>2. TypeOK /\ [Next]_vars => TypeOK'
    <2> SUFFICES ASSUME TypeOK, [Next]_vars PROVE TypeOK'
      OBVIOUS
    <2>1. CASE Tick
      <3>1. clock + 1 \in Clock
        BY <2>1, Types DEF Tick, TypeOK, Clock
      <3> QED BY <2>1, <3>1 DEF Tick, TypeOK, SourceUnchanged, RunsUnchanged
    <2>2. ASSUME NEW w \in Writer, BeginWrite(w) \/ CommitWrite(w) \/ AbortWrite(w)
          PROVE  TypeOK'
      BY <2>2, WriteTypes DEF WriteStep
    <2>3. ASSUME NEW r \in Run, Start(r) \/ Read(r) \/ Upsert(r) \/ Finish(r) \/ Fail(r)
          PROVE  TypeOK'
      BY <2>3, RunTypes DEF Progress
    <2>4. CASE UNCHANGED vars
      BY <2>4 DEF vars, TypeOK
    <2> QED BY <2>1, <2>2, <2>3, <2>4 DEF Next
  <1> QED BY <1>1, <1>2, PTL DEF Spec

\* What the runs leave behind for the next ones holds in every state, within the bounds.
THEOREM Leaving ==
    ASSUME InBounds
    PROVE  Spec => []LInv
  <1>1. LInv /\ [Next]_vars => LInv'
    BY LStep, InBounds
  <1> QED BY LInit, <1>1, PTL DEF Spec

\* A job that commits leaves no version behind that was stamped before it started, although
\* it recomputes a few buckets only and an operator may rewrite others meanwhile.
THEOREM NothingLost ==
    ASSUME InBounds
    PROVE  Spec => AllCaught
  <1>1. LInv /\ [Next]_vars =>
          [JobCommits => \A b \in Closed(run["job"].start) : Due(b) \subseteq target'[b].rows]_vars
    <2> SUFFICES ASSUME LInv, [Next]_vars, JobCommits, NEW b \in Closed(run["job"].start),
                        NEW v \in Due(b)
                 PROVE  v \in target'[b].rows
      OBVIOUS
    <2>1. Upsert("job")
      <3>1. UNCHANGED run => ~JobCommits
        BY DEF JobCommits
      <3>2. \E r \in Run : Progress(r)
        BY <3>1 DEF Next, vars, Tick, BeginWrite, CommitWrite, AbortWrite, RunsUnchanged, Progress
      <3>3. PICK r \in Run : Progress(r)
        BY <3>2
      <3>4. r = "job"
        BY <3>3, RunTypes DEF JobCommits, LInv, Run
      <3>5. ~Start("job") /\ ~Finish("job")
        BY DEF JobCommits, Start, Finish
      <3>6. ~Read("job")
        BY DEF JobCommits, Read
      <3>7. ~Fail("job")
        BY DEF JobCommits, Fail, Resting, LInv, TypeOK, Run
      <3> QED BY <3>3, <3>4, <3>5, <3>6, <3>7 DEF Progress
    <2> QED BY <2>1, JobWrites DEF Due, Begin
  <1> QED BY Leaving, <1>1, PTL DEF AllCaught, Spec

-----------------------------------------------------------------------------
(* Numbers.                                                                *)

\* A set of numbers that is not empty has a smallest one: < is well-founded.
LEMMA LeastNumber ==
    ASSUME NEW S \in SUBSET Nat, S # {}
    PROVE  \E x \in S : \A y \in S : x <= y
  <1> DEFINE R == {ss \in Nat \X Nat : ss[1] < ss[2]}
  <1>1. IsWellFoundedOn(R, Nat)
    BY NatLessThanWellFounded DEF OpToRel
  <1> HIDE DEF R
  <1>2. PICK x \in S : \A y \in S : ~(<<y, x>> \in R)
    BY <1>1, WFMin
  <1>3. \A y \in S : ~(y < x)
    BY <1>2 DEF R
  <1> QED BY <1>3

\* Buckets are numbered from 0.
LEMMA BucketNumbers == BucketNo \subseteq Nat /\ MaxBucket \in Nat /\ \A b \in BucketNo : b < MaxBucket
  BY BucketBounds DEF BucketNo

\* The first bucket of a set.
LEMMA MinIs ==
    ASSUME NEW S \in SUBSET BucketNo, S # {}
    PROVE  Min(S) \in S /\ \A x \in S : Min(S) <= x
  <1>1. S \in SUBSET Nat
    BY BucketNumbers
  <1>2. \E x \in S : \A y \in S : x <= y
    BY <1>1, LeastNumber
  <1> QED BY <1>2 DEF Min

\* The last bucket of a set.
LEMMA MaxIs ==
    ASSUME NEW S \in SUBSET BucketNo, S # {}
    PROVE  Max(S) \in S /\ \A x \in S : x <= Max(S)
  <1> DEFINE R == {k \in Nat : \E x \in S : k = MaxBucket - x}
  <1>0. S \in SUBSET Nat /\ MaxBucket \in Nat /\ \A x \in S : x < MaxBucket
    BY BucketNumbers
  <1>1. PICK s \in S : TRUE
    OBVIOUS
  <1>2. MaxBucket - s \in R
    BY <1>0, <1>1
  <1>3. PICK m \in R : \A k \in R : m <= k
    BY <1>2, LeastNumber
  <1>4. PICK x \in S : m = MaxBucket - x
    BY <1>3
  <1>5. ASSUME NEW u \in S PROVE x >= u
    <2>1. MaxBucket - u \in R
      BY <1>0
    <2>2. m <= MaxBucket - u
      BY <1>3, <2>1
    <2> HIDE DEF R
    <2> QED BY <1>0, <1>4, <2>2
  <1>6. \E y \in S : \A u \in S : y >= u
    BY <1>5
  <1>7. Max(S) \in S /\ \A u \in S : Max(S) >= u
    BY <1>6 DEF Max
  <1> HIDE DEF R
  <1> QED BY <1>0, <1>7

\* The ends of two sets together are those of their ends.
LEMMA EndsOfBoth ==
    ASSUME NEW A \in SUBSET BucketNo, NEW B \in SUBSET BucketNo, A # {}, B # {}
    PROVE  /\ Min(A \union B) = Min({Min(A), Min(B)})
           /\ Max(A \union B) = Max({Max(A), Max(B)})
           /\ Max(A \union B) = IF Max(B) >= Max(A) THEN Max(B) ELSE Max(A)
           /\ Max(A) > Max(B) => Max(A) \notin B
  <1> DEFINE a == Max(A)
             b == Max(B)
             u == Max(A \union B)
             c == Min(A)
             d == Min(B)
             v == Min(A \union B)
  <1>1. /\ a \in A /\ b \in B /\ c \in A /\ d \in B
        /\ \A x \in A : c <= x /\ x <= a
        /\ \A x \in B : d <= x /\ x <= b
    BY MinIs, MaxIs
  <1>2. u \in A \union B /\ v \in A \union B /\ \A x \in A \union B : v <= x /\ x <= u
    BY MinIs, MaxIs
  <1>3. /\ Max({a, b}) \in {a, b} /\ a <= Max({a, b}) /\ b <= Max({a, b})
        /\ Min({c, d}) \in {c, d} /\ Min({c, d}) <= c /\ Min({c, d}) <= d
    BY <1>1, MinIs, MaxIs
  <1>4. \A x \in A \union B : x \in Nat
    BY BucketNumbers
  <1>5. {a, b, c, d, u, v} \subseteq Nat
    BY <1>1, <1>2, <1>4
  <1> HIDE DEF a, b, c, d, u, v
  <1>6. u = IF b >= a THEN b ELSE a
    BY <1>1, <1>2, <1>4, <1>5
  <1>7. v = IF c <= d THEN c ELSE d
    BY <1>1, <1>2, <1>4, <1>5
  <1>8. a > b => a \notin B
    BY <1>1, <1>4, <1>5
  <1>9. Max({a, b}) = u /\ Min({c, d}) = v
    BY <1>3, <1>5, <1>6, <1>7
  <1> QED BY <1>6, <1>8, <1>9 DEF a, b, c, d, u, v

-----------------------------------------------------------------------------
(* The target Datastream.                                                  *)

\* AsRebuilt is inductive together with the range of the buckets.
Rebuilt == DOMAIN rows \subseteq BucketNo /\ AsRebuilt

\* A run, a rewrite or a backfill leaves the ends and the FeatureOfInterest of its rows.
LEMMA UpsertRebuilds ==
    ASSUME Rebuilt, NEW set \in SUBSET BucketNo, NEW f, NEW job, UpsertBuckets(set, f, job)
    PROVE  Rebuilt'
  <1> DEFINE kept == {b \in set : Kept(b)}
             old == DOMAIN rows
  <1>1. CASE kept = {}
    BY <1>1 DEF UpsertBuckets, TargetUnchanged, Rebuilt, AsRebuilt, Hull
  <1>2. CASE kept # {}
    <2>1. /\ rows' = [b \in old \union kept |-> IF b \in kept THEN BucketRow(b, f, job) ELSE rows[b]]
          /\ extent' = WidenedTo(extent, kept) /\ lastFoi' = LastAfter(extent, kept, f)
      BY <1>2 DEF UpsertBuckets
    <2>2. /\ DOMAIN rows' = old \union kept
          /\ \A b \in kept : rows'[b].foi = f
          /\ \A b \in old \ kept : rows'[b] = rows[b]
      BY <2>1 DEF BucketRow
    <2>3. /\ kept \in SUBSET BucketNo /\ old \in SUBSET BucketNo
          /\ extent = Hull(old) /\ (old # {} => lastFoi = rows[Max(old)].foi)
      BY DEF Rebuilt, AsRebuilt
    <2> HIDE DEF kept, old
    <2>4. CASE old = {}
      <3>1. extent = Null /\ old \union kept = kept
        BY <2>3, <2>4 DEF Hull
      <3>2. extent' = Hull(kept) /\ lastFoi' = f
        BY <2>1, <3>1 DEF WidenedTo, LastAfter
      <3>3. Max(kept) \in kept
        BY <1>2, <2>3, MaxIs
      <3>4. rows'[Max(kept)].foi = f
        BY <2>2, <3>3
      <3> QED BY <2>2, <2>3, <3>1, <3>2, <3>4 DEF Rebuilt, AsRebuilt, Hull
    <2>5. CASE old # {}
      <3>1. extent = <<Min(old), Max(old)>> /\ Min(old) \in BucketNo /\ Max(old) \in BucketNo
        BY <2>3, <2>5, MinIs, MaxIs DEF Hull
      <3>2. extent # Null
        BY <3>1, NullAssumption
      <3>3. extent' = <<Min({Min(old), Min(kept)}), Max({Max(old), Max(kept)})>>
        BY <2>1, <3>1, <3>2 DEF WidenedTo
      <3>4. extent' = Hull(old \union kept)
        BY <1>2, <2>3, <2>5, <3>3, EndsOfBoth DEF Hull
      <3>5. Max(old \union kept) = IF Max(kept) >= Max(old) THEN Max(kept) ELSE Max(old)
        BY <1>2, <2>3, <2>5, EndsOfBoth
      <3>6. Max(old) \in old /\ Max(kept) \in kept /\ Max(old) \in Nat /\ Max(kept) \in Nat
        BY <1>2, <2>3, <2>5, MaxIs, BucketNumbers
      <3>7. CASE Max(kept) >= Max(old)
        <4>1. lastFoi' = f /\ rows'[Max(old \union kept)].foi = f
          BY <2>1, <2>2, <3>1, <3>5, <3>6, <3>7 DEF LastAfter
        <4> QED BY <2>2, <2>3, <3>4, <4>1 DEF Rebuilt, AsRebuilt, Hull
      <3>8. CASE ~(Max(kept) >= Max(old))
        <4>1. Max(old) > Max(kept)
          BY <3>6, <3>8
        <4>2. Max(old) \in old \ kept
          BY <1>2, <2>3, <2>5, <3>6, <4>1, EndsOfBoth
        <4>3. rows'[Max(old \union kept)] = rows[Max(old)]
          BY <2>2, <3>5, <3>8, <4>2
        <4>4. lastFoi' = lastFoi
          BY <2>1, <3>1, <3>2, <3>8 DEF LastAfter
        <4> QED BY <2>2, <2>3, <2>5, <3>4, <4>3, <4>4 DEF Rebuilt, AsRebuilt, Hull
      <3> QED BY <3>7, <3>8
    <2> QED BY <2>4, <2>5
  <1> QED BY <1>1, <1>2

\* A job recomputes closed buckets.
LEMMA JobBucketsAre ==
    ASSUME NEW cursor
    PROVE  JobBuckets(cursor) \in SUBSET BucketNo /\ \A b \in JobBuckets(cursor) : IsClosed(b)
  BY DEF JobBuckets, RecentBuckets, ChangedBuckets, ChangedAvailability

\* Every step keeps that.
LEMMA RebuiltStep == Rebuilt /\ [BucketNext]_bucketVars => Rebuilt'
  <1> SUFFICES ASSUME Rebuilt, [BucketNext]_bucketVars PROVE Rebuilt'
    OBVIOUS
  <1>1. CASE TargetUnchanged
    BY <1>1 DEF TargetUnchanged, Rebuilt, AsRebuilt, Hull
  <1>2. ASSUME NEW set \in SUBSET BucketNo, NEW c, NEW job, Write(set, c, job)
        PROVE  Rebuilt'
    BY <1>1, <1>2, UpsertRebuilds DEF Write
  <1>3. CASE JobRun
    <2>1. PICK cursor \in HasCursor : Write(JobBuckets(cursor), config.foi, TRUE)
      BY <1>3 DEF JobRun
    <2> QED BY <1>2, <2>1, JobBucketsAre
  <1>4. ASSUME NEW set \in Windows, RewriteWindow(set)
        PROVE  Rebuilt'
    <2>1. set \in SUBSET BucketNo
      BY BucketBounds
    <2> QED BY <1>2, <1>4, <2>1 DEF RewriteWindow
  <1>5. CASE UNCHANGED bucketVars
    BY <1>1, <1>5 DEF bucketVars, TargetUnchanged
  <1>6. CASE (\E t \in SourceTime : Observe(t)) \/ (\E t \in RefTime : Refer(t)) \/ Close
    BY <1>1, <1>6 DEF Observe, Refer, Close
  <1> QED BY <1>3, <1>4, <1>5, <1>6 DEF BucketNext

\* The extent and last_foi_id that aggregate_datastream keeps incrementally are those that
\* rebuild_datastream_extent would compute, whatever runs and rewrites are interleaved.
THEOREM TargetAsRebuilt == BucketSpec => []AsRebuilt
  <1>1. BucketInit => Rebuilt
    BY DEF BucketInit, Rebuilt, AsRebuilt, Hull
  <1>2. Rebuilt => AsRebuilt
    BY DEF Rebuilt
  <1> QED BY <1>1, <1>2, RebuiltStep, PTL DEF BucketSpec

-----------------------------------------------------------------------------
(* Every row of the job is what its bucket gives.                          *)

\* Since the last success of the job something changed that the bucket depends on.
Touched(b) ==
    \/ \E t \in newObs : b = BucketOf(t)
    \/ config.zero /\ \E t \in newRefs : b \in Proved(t)

\* The bucket has the row that it should have, unless an operator wrote it.
Current(b) ==
    /\ b \in DOMAIN rows /\ rows[b].job => rows[b] = BucketRow(b, rows[b].foi, TRUE)
    /\ Inferred(b) => b \in DOMAIN rows

BucketTypes ==
    /\ config \in JobConfig /\ closed \in Nat
    /\ sourceObs \in [SourceTime -> Reading \union {Null}]
    /\ refs \subseteq RefTime /\ newRefs \subseteq RefTime /\ newObs \subseteq SourceTime
    /\ ran # Null => ran \in [last : 0 .. closed, first : Nat \union {Null}]
    /\ DOMAIN rows \subseteq BucketNo

\* The job has succeeded with a FeatureOfInterest.
Started == ran # Null /\ ran.first # Null

\* Rows are of buckets that have something to tell, and those of the job are of buckets
\* that were closed when it last ran; it does not lose its FeatureOfInterest again.
Founded ==
    /\ \A b \in DOMAIN rows : Kept(b) /\ (rows[b].job => Started /\ b < ran.last)
    /\ Started => Resolved(config.foi) # {}

\* What the job leaves to its next run is only what is touched, or closed since.
Settled ==
    Started /\ config.incremental =>
        \A b \in Managed : b < ran.last /\ ~Touched(b) => Current(b)

RowsInv ==
    /\ BucketTypes /\ Founded /\ Settled
    /\ ran # Null => closed <= ran.last + MaxPause

\* What a quotient is.
LEMMA Quotient ==
    ASSUME NEW x \in Int
    PROVE  /\ BucketInterval \in Nat \ {0}
           /\ TimeBucket(x) \in Int
           /\ TimeBucket(x) * BucketInterval <= x
           /\ x < TimeBucket(x) * BucketInterval + BucketInterval
  <1>1. BucketInterval \in Nat \ {0}
    BY CadenceAssumption
  <1> QED BY <1>1, SMT DEF TimeBucket

\* The bucket of a time is the one it is in, and the others do not depend on it.
LEMMA InItsBucket ==
    ASSUME NEW t \in Int, NEW b \in Nat, InBucket(t, b)
    PROVE  b = BucketOf(t)
  <1> DEFINE x == IF config.rightClosed THEN t - 1 ELSE t
             d == TimeBucket(x)
  <1>0. BucketInterval \in Nat \ {0} /\ x \in Int
    BY CadenceAssumption
  <1>1. b * BucketInterval \in Int /\ b * BucketInterval <= x /\ x < b * BucketInterval + BucketInterval
    BY <1>0 DEF InBucket, Lower, Upper
  <1>2. d \in Int /\ d * BucketInterval <= x /\ x < d * BucketInterval + BucketInterval
    BY <1>0, Quotient
  <1> HIDE DEF x, d
  <1>3. CASE d < b
    <2>1. (b - d) \in Nat \ {0} /\ (b - d) * BucketInterval >= BucketInterval
      BY <1>0, <1>2, <1>3, SMT
    <2> QED BY <1>0, <1>1, <1>2, <2>1, SMT
  <1>4. CASE b < d
    <2>1. (d - b) \in Nat \ {0} /\ (d - b) * BucketInterval >= BucketInterval
      BY <1>0, <1>2, <1>4, SMT
    <2> QED BY <1>0, <1>1, <1>2, <2>1, SMT
  <1> QED BY <1>2, <1>3, <1>4 DEF d, x, BucketOf

\* An availability Observation is looked for at every bucket it proves active.
LEMMA InItsProof ==
    ASSUME NEW t \in Int, NEW b \in Nat, config.age \in Nat,
           Upper(b) - config.age <= t, t <= Upper(b)
    PROVE  b \in Proved(t)
  <1> DEFINE c == TimeBucket(t)
             d == TimeBucket(t + config.age)
             u == b * BucketInterval + BucketInterval
  <1>0. BucketInterval \in Nat \ {0}
    BY CadenceAssumption
  <1>1. u \in Int /\ u <= t + config.age /\ t <= u
    BY <1>0 DEF Upper, Lower
  <1>2. /\ c \in Int /\ c * BucketInterval <= t
        /\ d \in Int /\ t + config.age < d * BucketInterval + BucketInterval
    BY Quotient
  <1> HIDE DEF c, d
  <1>3. c - 1 <= b
    <2> SUFFICES ASSUME ~(c - 1 <= b) PROVE FALSE
      OBVIOUS
    <2>1. (c - b - 1) \in Nat \ {0} /\ (c - b - 1) * BucketInterval >= BucketInterval
      BY <1>0, <1>2, SMT
    <2> QED BY <1>0, <1>1, <1>2, <2>1, SMT
  <1>4. b <= d
    <2> SUFFICES ASSUME ~(b <= d) PROVE FALSE
      OBVIOUS
    <2>1. (b - d) \in Nat \ {0} /\ (b - d) * BucketInterval >= BucketInterval
      BY <1>0, <1>2, SMT
    <2> QED BY <1>0, <1>1, <1>2, <2>1, SMT
  <1>5. b \in (c - 1) .. d
    <2>1. c \in Int /\ d \in Int
      BY <1>2
    <2>2. c - 1 <= b /\ b <= d
      BY <1>3, <1>4
    <2> QED BY <2>1, <2>2
  <1>6. t <= Upper(b) /\ Upper(b) <= t + config.age
    BY <1>1 DEF Upper, Lower
  <1> QED BY <1>5, <1>6 DEF Proved, c, d

\* Two states that agree on a bucket give it the same row.
LEMMA SameBucket ==
    ASSUME NEW b, config' = config, Seen(b)' = Seen(b),
           \A t \in Seen(b) : sourceObs'[t] = sourceObs[t],
           Available(b)' <=> Available(b)
    PROVE  /\ \A f, job : BucketRow(b, f, job)' = BucketRow(b, f, job)
           /\ Inferred(b)' <=> Inferred(b)
           /\ Kept(b)' <=> Kept(b)
  <1>1. (\A q : Accepted(q)' <=> Accepted(q)) /\ Used(b)' = Used(b)
    BY DEF Accepted, Used
  <1>2. Numeric(b)' = Numeric(b) /\ Used(b) \subseteq Seen(b) /\ Numeric(b) \subseteq Seen(b)
    BY <1>1 DEF Numeric, Used
  <1>3. MissingRun(b)' = MissingRun(b)
    BY <1>2 DEF MissingRun, MissingRuns, Lower, Upper, Slots
  <1>4. Complete(b)' <=> Complete(b)
    BY <1>2, <1>3 DEF Complete
  <1>5. BucketQuality(b)' = BucketQuality(b)
    <2>1. {sourceObs[t].quality : t \in Used(b)}' = {sourceObs[t].quality : t \in Used(b)}
      BY <1>1, <1>2
    <2> QED BY <1>4, <2>1 DEF BucketQuality, Inferred
  <1>6. BucketValue(b)' = BucketValue(b)
    <2>1. [t \in Numeric(b) |-> sourceObs[t].number]' = [t \in Numeric(b) |-> sourceObs[t].number]
      BY <1>2
    <2>2. [t \in Used(b) |-> IF t \in Numeric(b) THEN sourceObs[t].number ELSE 1]'
            = [t \in Used(b) |-> IF t \in Numeric(b) THEN sourceObs[t].number ELSE 1]
      BY <1>1, <1>2
    <2> QED BY <1>1, <1>2, <2>1, <2>2 DEF BucketValue, NoValue
  <1>7. (Inferred(b)' <=> Inferred(b)) /\ (Kept(b)' <=> Kept(b))
    BY DEF Inferred, Kept
  <1> QED BY <1>4, <1>5, <1>6, <1>7 DEF BucketRow, NoValue

\* What the job resolves its FeatureOfInterest to is one.
LEMMA ResolvedIs ==
    ASSUME NEW c \in Foi \union {Null}, NEW f \in Resolved(c)
    PROVE  f # Null
  BY NullAssumption DEF Resolved

\* Once the job has a FeatureOfInterest it always has one.
LEMMA ResolvedStays ==
    ASSUME Resolved(config.foi) # {}, config' = config, Observed \subseteq Observed',
           lastFoi # Null => lastFoi' # Null
    PROVE  Resolved(config.foi)' # {}
  BY DEF Resolved

\* Nothing but source or availability Observations changes, or the clock goes on.
LEMMA SourceKeeps ==
    ASSUME RowsInv, BucketTypes', TargetUnchanged, UNCHANGED <<config, ran>>,
           ran # Null => closed' <= ran.last + MaxPause,
           Observed \subseteq Observed',
           \A b \in BucketNo : Kept(b) => Kept(b)',
           \A b \in BucketNo : Touched(b) => Touched(b)',
           \A b \in BucketNo : ~Touched(b)' /\ b < closed =>
               /\ \A f, job : BucketRow(b, f, job)' = BucketRow(b, f, job)
               /\ Inferred(b)' <=> Inferred(b)
    PROVE  RowsInv'
  <1>1. Founded'
    <2>1. Resolved(config.foi) # {} => Resolved(config.foi)' # {}
      BY ResolvedStays DEF TargetUnchanged
    <2> QED BY <2>1 DEF RowsInv, BucketTypes, Founded, Started, TargetUnchanged
  <1>2. ASSUME Started, config.incremental, NEW b \in Managed', b < ran.last, ~Touched(b)'
        PROVE  Current(b)'
    <2>1. /\ b \in BucketNo /\ b + BucketsToRecompute >= ran.first /\ ran.first # Null
      BY <1>2 DEF Managed, Started
    <2>4. b \in Nat /\ closed \in Nat /\ ran.last \in 0 .. closed
      BY <1>2, <2>1, BucketNumbers DEF Started, RowsInv, BucketTypes
    <2>5. b < closed
      BY <1>2, <2>4
    <2>2. b \in Managed /\ ~Touched(b)
      BY <1>2, <2>1, <2>5 DEF Managed, IsClosed
    <2>3. Current(b)
      BY <1>2, <2>2 DEF RowsInv, Settled
    <2>6. \A f, job : BucketRow(b, f, job)' = BucketRow(b, f, job)
      BY <1>2, <2>1, <2>5
    <2>7. Inferred(b)' <=> Inferred(b)
      BY <1>2, <2>1, <2>5
    <2> QED BY <2>3, <2>6, <2>7 DEF Current, TargetUnchanged
  <1>3. Settled'
    BY <1>2 DEF Settled, Started
  <1> QED BY <1>1, <1>3 DEF RowsInv

\* An Observation touches the bucket it is in, and no other.
LEMMA ObserveKeeps ==
    ASSUME RowsInv, NEW t \in SourceTime, Observe(t)
    PROVE  RowsInv'
  <1>0. /\ UNCHANGED <<config, closed, refs, newRefs, ran>> /\ TargetUnchanged
        /\ newObs' = newObs \union {t} /\ SourceTime \subseteq Int /\ BucketNo \subseteq Nat
    BY TimeAssumption, BucketNumbers DEF Observe
  <1>1. PICK q \in Reading : sourceObs' = [sourceObs EXCEPT ![t] = q]
    BY DEF Observe
  <1>2. q # Null /\ sourceObs \in [SourceTime -> Reading \union {Null}]
    BY NullAssumption DEF RowsInv, BucketTypes
  <1>3. BucketTypes'
    BY <1>0, <1>1, <1>2 DEF RowsInv, BucketTypes, TargetUnchanged
  <1>4. Observed \subseteq Observed'
    BY <1>1, <1>2 DEF Observed
  <1>5. ASSUME NEW b \in BucketNo PROVE Seen(b) \subseteq Seen(b)' /\ (Available(b)' <=> Available(b))
    BY <1>0, <1>1, <1>2 DEF Seen, InBucket, Lower, Upper, Available
  <1>6. ASSUME NEW b \in BucketNo PROVE (Kept(b) => Kept(b)') /\ (Touched(b) => Touched(b)')
    BY <1>0, <1>5 DEF Kept, Touched, BucketOf, Proved, TimeBucket, Lower, Upper
  <1>7. ASSUME NEW b \in BucketNo, ~Touched(b)'
        PROVE  /\ \A f, job : BucketRow(b, f, job)' = BucketRow(b, f, job)
               /\ Inferred(b)' <=> Inferred(b)
    <2>1. b # BucketOf(t)
      BY <1>0, <1>7 DEF Touched, BucketOf, TimeBucket
    <2>2. ~InBucket(t, b)
      BY <1>0, <2>1, InItsBucket
    <2>3. Seen(b)' = Seen(b) /\ \A u \in Seen(b) : sourceObs'[u] = sourceObs[u]
      BY <1>0, <1>1, <1>2, <2>2 DEF Seen, InBucket, Lower, Upper
    <2> QED BY <1>0, <1>5, <2>3, SameBucket
  <1>8. ran # Null => closed' <= ran.last + MaxPause
    BY <1>0 DEF RowsInv
  <1> QED BY <1>0, <1>3, <1>4, <1>6, <1>7, <1>8, SourceKeeps

\* An availability Observation touches the buckets it proves active.
LEMMA ReferKeeps ==
    ASSUME RowsInv, NEW t \in RefTime, Refer(t)
    PROVE  RowsInv'
  <1>0. /\ UNCHANGED <<config, closed, sourceObs, newObs, ran>> /\ TargetUnchanged
        /\ refs' = refs \union {t} /\ newRefs' = newRefs \union {t}
        /\ RefTime \subseteq Int /\ BucketNo \subseteq Nat
    BY TimeAssumption, BucketNumbers DEF Refer
  <1>1. config.zero => config.age \in Nat
    BY JobConfigAssumption DEF RowsInv, BucketTypes
  <1>3. BucketTypes'
    BY <1>0 DEF RowsInv, BucketTypes, TargetUnchanged
  <1>4. Observed' = Observed
    BY <1>0 DEF Observed
  <1>5. ASSUME NEW b \in BucketNo
        PROVE  /\ Seen(b)' = Seen(b) /\ \A u \in Seen(b) : sourceObs'[u] = sourceObs[u]
               /\ Available(b) => Available(b)'
    BY <1>0 DEF Seen, InBucket, Lower, Upper, Available
  <1>6. ASSUME NEW b \in BucketNo PROVE (Kept(b) => Kept(b)') /\ (Touched(b) => Touched(b)')
    BY <1>0, <1>5 DEF Kept, Touched, BucketOf, Proved, TimeBucket, Lower, Upper
  <1>7. ASSUME NEW b \in BucketNo, ~Touched(b)'
        PROVE  /\ \A f, job : BucketRow(b, f, job)' = BucketRow(b, f, job)
               /\ Inferred(b)' <=> Inferred(b)
    <2>1. config.zero => b \notin Proved(t)
      BY <1>0, <1>7 DEF Touched, Proved, TimeBucket, Lower, Upper
    <2>2. config.zero => ~(Upper(b) - config.age <= t /\ t <= Upper(b))
      BY <1>0, <1>1, <2>1, InItsProof
    <2>3. Available(b)' <=> Available(b)
      BY <1>0, <2>2 DEF Available, Lower, Upper
    <2> QED BY <1>0, <1>5, <2>3, SameBucket
  <1>8. ran # Null => closed' <= ran.last + MaxPause
    BY <1>0 DEF RowsInv
  <1> QED BY <1>0, <1>3, <1>4, <1>6, <1>7, <1>8, SourceKeeps

\* A bucket that closes is one the job has not had yet.
LEMMA CloseKeeps ==
    ASSUME RowsInv, Close
    PROVE  RowsInv'
  <1>0. /\ UNCHANGED <<config, sourceObs, refs, newObs, newRefs, ran>> /\ TargetUnchanged
        /\ closed' = closed + 1 /\ closed \in Nat
        /\ ran # Null => closed < ran.last + MaxPause
    BY DEF Close, ObservationsUnchanged, RowsInv, BucketTypes
  <1>1. ran # Null => ran.last \in 0 .. closed /\ ran \in [last : 0 .. closed, first : Nat \union {Null}]
    BY DEF RowsInv, BucketTypes
  <1>2. ran # Null => closed' <= ran.last + MaxPause
    BY <1>0, <1>1, BucketBounds
  <1>3. BucketTypes'
    <2>1. ran # Null => ran \in [last : 0 .. closed', first : Nat \union {Null}]
      <3>1. 0 .. closed \subseteq 0 .. closed'
        BY <1>0
      <3> QED BY <1>1, <3>1
    <2> QED BY <1>0, <2>1 DEF RowsInv, BucketTypes, TargetUnchanged
  <1>4. Observed' = Observed
    BY <1>0 DEF Observed
  <1>5. ASSUME NEW b \in BucketNo
        PROVE  /\ Seen(b)' = Seen(b) /\ \A u \in Seen(b) : sourceObs'[u] = sourceObs[u]
               /\ Available(b)' <=> Available(b)
    BY <1>0 DEF Seen, InBucket, Lower, Upper, Available
  <1>6. ASSUME NEW b \in BucketNo PROVE (Kept(b) => Kept(b)') /\ (Touched(b) => Touched(b)')
    BY <1>0, <1>5 DEF Kept, Touched, BucketOf, Proved, TimeBucket, Lower, Upper
  <1>7. ASSUME NEW b \in BucketNo
        PROVE  /\ \A f, job : BucketRow(b, f, job)' = BucketRow(b, f, job)
               /\ Inferred(b)' <=> Inferred(b)
    BY <1>0, <1>5, SameBucket
  <1> QED BY <1>0, <1>2, <1>3, <1>4, <1>6, <1>7, SourceKeeps

\* A run or a rewrite has computed the row of b.
Written(b, job) ==
    /\ b \in DOMAIN rows' /\ rows'[b].job = job
    /\ rows'[b] = BucketRow(b, rows'[b].foi, job)

\* Only the rows of a set are written, those of buckets that have something to tell.
LEMMA WriteIs ==
    ASSUME RowsInv, NEW set \in SUBSET BucketNo, NEW c \in Foi \union {Null}, NEW job,
           Write(set, c, job), UNCHANGED <<config, sourceObs, refs>>
    PROVE  /\ DOMAIN rows' \subseteq BucketNo /\ DOMAIN rows \subseteq DOMAIN rows'
           /\ \A b \in DOMAIN rows' :
                 \/ b \in DOMAIN rows /\ rows'[b] = rows[b]
                 \/ b \in set /\ Kept(b) /\ Written(b, job)
           /\ Resolved(c) # {} => \A b \in set : Kept(b) => Written(b, job)
           /\ Resolved(c) = {} => rows' = rows
           /\ lastFoi # Null => lastFoi' # Null
  <1> DEFINE kept == {b \in set : Kept(b)}
  <1>0. DOMAIN rows \subseteq BucketNo
    BY DEF RowsInv, BucketTypes
  <1>1. CASE TargetUnchanged /\ (Resolved(c) = {} \/ kept = {})
    BY <1>0, <1>1 DEF TargetUnchanged
  <1>2. ASSUME NEW f \in Resolved(c), kept # {},
               rows' = [b \in DOMAIN rows \union kept |->
                          IF b \in kept THEN BucketRow(b, f, job) ELSE rows[b]],
               lastFoi' = LastAfter(extent, kept, f)
        PROVE  /\ DOMAIN rows' \subseteq BucketNo /\ DOMAIN rows \subseteq DOMAIN rows'
               /\ \A b \in DOMAIN rows' :
                     \/ b \in DOMAIN rows /\ rows'[b] = rows[b]
                     \/ b \in set /\ Kept(b) /\ Written(b, job)
               /\ \A b \in set : Kept(b) => Written(b, job)
               /\ lastFoi # Null => lastFoi' # Null
    <2>1. f # Null
      BY ResolvedIs
    <2>2. lastFoi # Null => lastFoi' # Null
      BY <1>2, <2>1 DEF LastAfter
    <2>3. \A b : BucketRow(b, f, job).foi = f /\ BucketRow(b, f, job).job = job
      BY DEF BucketRow
    <2>4. DOMAIN rows' = DOMAIN rows \union kept
      BY <1>2
    <2>5. \A b \in kept : rows'[b] = BucketRow(b, f, job)
      BY <1>2
    <2>6. \A b \in DOMAIN rows \ kept : rows'[b] = rows[b]
      BY <1>2
    <2> QED BY <1>0, <2>2, <2>3, <2>4, <2>5, <2>6 DEF Written
  <1>3. \/ TargetUnchanged /\ (Resolved(c) = {} \/ kept = {})
        \/ \E f \in Resolved(c) :
              /\ kept # {}
              /\ rows' = [b \in DOMAIN rows \union kept |->
                            IF b \in kept THEN BucketRow(b, f, job) ELSE rows[b]]
              /\ lastFoi' = LastAfter(extent, kept, f)
    BY DEF Write, UpsertBuckets
  <1> QED BY <1>1, <1>2, <1>3

\* An operator's rows are not the job's.
LEMMA RewriteKeeps ==
    ASSUME RowsInv, NEW set \in SUBSET BucketNo, RewriteWindow(set)
    PROVE  RowsInv'
  <1>1. PICK c \in Foi \union {config.foi} : Write(set, c, FALSE)
    BY DEF RewriteWindow
  <1>2. UNCHANGED <<config, closed, ran, sourceObs, refs, newObs, newRefs>>
    BY DEF RewriteWindow, ObservationsUnchanged
  <1>3. c \in Foi \union {Null}
    BY <1>1, JobConfigAssumption DEF RowsInv, BucketTypes
  <1>4. /\ DOMAIN rows' \subseteq BucketNo /\ DOMAIN rows \subseteq DOMAIN rows'
        /\ \A b \in DOMAIN rows' :
              \/ b \in DOMAIN rows /\ rows'[b] = rows[b]
              \/ Kept(b) /\ rows'[b].job = FALSE
        /\ lastFoi # Null => lastFoi' # Null
    BY <1>1, <1>2, <1>3, WriteIs DEF Written
  <1>5. BucketTypes'
    BY <1>2, <1>4 DEF RowsInv, BucketTypes
  <1>6. \A b : /\ Kept(b)' <=> Kept(b)
               /\ Inferred(b)' <=> Inferred(b)
               /\ Touched(b)' <=> Touched(b)
    BY <1>2 DEF Kept, Inferred, Touched, Available, Seen, InBucket, Lower, Upper, BucketOf,
                TimeBucket, Proved
  <1>7. \A b, f, job : BucketRow(b, f, job)' = BucketRow(b, f, job)
    <2>1. ASSUME NEW b PROVE \A f, job : BucketRow(b, f, job)' = BucketRow(b, f, job)
      <3>1. /\ Seen(b)' = Seen(b) /\ \A u \in Seen(b) : sourceObs'[u] = sourceObs[u]
            /\ Available(b)' <=> Available(b)
        BY <1>2 DEF Seen, InBucket, Lower, Upper, Available
      <3> QED BY <1>2, <3>1, SameBucket
    <2> QED BY <2>1
  <1>8. Founded'
    <2>1. Resolved(config.foi) # {} => Resolved(config.foi)' # {}
      <3>1. Observed' = Observed
        BY <1>2 DEF Observed
      <3> QED BY <1>2, <1>4, <3>1, ResolvedStays
    <2> QED BY <1>2, <1>4, <1>6, <2>1 DEF RowsInv, Founded, Started
  <1>9. Settled'
    <2>1. ASSUME NEW b, Current(b) PROVE Current(b)'
      <3>1. CASE b \in DOMAIN rows' /\ ~(b \in DOMAIN rows /\ rows'[b] = rows[b])
        <4>1. rows'[b].job = FALSE
          BY <1>4, <3>1
        <4> QED BY <3>1, <4>1 DEF Current
      <3>2. CASE b \in DOMAIN rows /\ b \in DOMAIN rows' /\ rows'[b] = rows[b]
        BY <1>7, <2>1, <3>2 DEF Current
      <3>3. CASE b \notin DOMAIN rows'
        BY <1>4, <1>6, <2>1, <3>3 DEF Current
      <3> QED BY <3>1, <3>2, <3>3
    <2> QED BY <1>2, <1>6, <2>1 DEF RowsInv, Settled, Started, Managed, IsClosed
  <1> QED BY <1>2, <1>5, <1>8, <1>9 DEF RowsInv

\* An empty bucket that is proven active is not past the latest activity.
LEMMA InferredForward ==
    ASSUME BucketTypes, NEW b \in BucketNo, Inferred(b)
    PROVE  Kept(b) /\ Forward(b)
  <1>1. config.zero /\ config.age \in Nat /\ b \in Nat
    BY JobConfigAssumption, BucketNumbers DEF Inferred, Available, BucketTypes
  <1>2. PICK t \in refs : Upper(b) - config.age <= t
    BY DEF Inferred, Available
  <1>3. t \in Int /\ Upper(b) \in Int
    <2>1. t \in Int
      BY TimeAssumption DEF BucketTypes
    <2>2. BucketInterval \in Nat
      BY CadenceAssumption
    <2>3. b * BucketInterval \in Int
      BY <1>1, <2>2
    <2> QED BY <2>1, <2>2, <2>3 DEF Upper, Lower
  <1>4. Upper(b) <= t + config.age
    BY <1>1, <1>2, <1>3
  <1> QED BY <1>4 DEF Kept, Inferred, Forward

\* A run finds every bucket that is touched or closed since the last one.
LEMMA JobKeeps ==
    ASSUME MaxPause <= BucketsToRecompute, RowsInv, JobRun
    PROVE  RowsInv'
  <1> DEFINE n == IF ran # Null /\ ran.first # Null THEN ran.first
                  ELSE IF Resolved(config.foi) = {} THEN Null ELSE closed
  <1>a. PICK cursor \in HasCursor : Write(JobBuckets(cursor), config.foi, TRUE)
    BY DEF JobRun
  <1>b. Started => cursor = TRUE
    BY DEF HasCursor, Started
  <1>0. /\ Write(JobBuckets(cursor), config.foi, TRUE) /\ UNCHANGED <<config, closed, sourceObs, refs>>
        /\ newObs' = {} /\ newRefs' = {} /\ ran' = [last |-> closed, first |-> n]
        /\ closed \in Nat /\ BucketTypes
    BY <1>a DEF JobRun, RowsInv, BucketTypes
  <1>1. JobBuckets(cursor) \in SUBSET BucketNo /\ \A b \in JobBuckets(cursor) : b < closed
    BY JobBucketsAre DEF IsClosed
  <1>2. config.foi \in Foi \union {Null}
    BY <1>0, JobConfigAssumption DEF BucketTypes
  <1>3. /\ DOMAIN rows' \subseteq BucketNo /\ DOMAIN rows \subseteq DOMAIN rows'
        /\ \A b \in DOMAIN rows' :
              \/ b \in DOMAIN rows /\ rows'[b] = rows[b]
              \/ b \in JobBuckets(cursor) /\ Kept(b) /\ Written(b, TRUE)
        /\ Resolved(config.foi) # {} => \A b \in JobBuckets(cursor) : Kept(b) => Written(b, TRUE)
        /\ Resolved(config.foi) = {} => rows' = rows
        /\ lastFoi # Null => lastFoi' # Null
    <2>1. JobBuckets(cursor) \in SUBSET BucketNo
      BY <1>1
    <2>2. UNCHANGED <<config, sourceObs, refs>>
      BY <1>0
    <2>3. Write(JobBuckets(cursor), config.foi, TRUE)
      BY <1>0
    <2> HIDE DEF n
    <2> QED BY <1>2, <2>1, <2>2, <2>3, WriteIs
  <1>4. \A b : /\ Kept(b)' <=> Kept(b)
               /\ Inferred(b)' <=> Inferred(b)
    BY <1>0 DEF Kept, Inferred, Available, Seen, InBucket, Lower, Upper
  <1>5. ASSUME NEW b PROVE \A f, job : BucketRow(b, f, job)' = BucketRow(b, f, job)
    <2>1. /\ Seen(b)' = Seen(b) /\ \A u \in Seen(b) : sourceObs'[u] = sourceObs[u]
          /\ Available(b)' <=> Available(b)
      BY <1>0 DEF Seen, InBucket, Lower, Upper, Available
    <2> QED BY <1>0, <2>1, SameBucket
  <1>6. /\ n \in Nat \union {Null} /\ ran' # Null /\ ran'.last = closed /\ ran'.first = n
        /\ ran' \in [last : 0 .. closed, first : Nat \union {Null}]
    <2>1. n \in Nat \union {Null}
      BY <1>0 DEF BucketTypes
    <2> HIDE DEF n
    <2>2. ran' \in [last : 0 .. closed, first : Nat \union {Null}]
      BY <1>0, <2>1
    <2>3. ran' \in [last : Nat, first : Nat \union {Null}]
      BY <1>0, <2>1
    <2> QED BY <1>0, <2>1, <2>2, <2>3, NullAssumption
  <1>7. Started => Resolved(config.foi) # {} /\ n = ran.first
    BY DEF RowsInv, Founded, Started
  <1>8. n # Null => Resolved(config.foi) # {}
    BY <1>7 DEF Started
  <1> HIDE DEF n
  <1>9. BucketTypes'
    BY <1>0, <1>3, <1>6 DEF BucketTypes
  <1>10. Founded'
    <2>1. Started' => Resolved(config.foi)' # {}
      <3>1. Observed' = Observed
        BY <1>0 DEF Observed
      <3> QED BY <1>0, <1>3, <1>6, <1>8, <3>1, ResolvedStays DEF Started
    <2>2. ASSUME NEW b \in DOMAIN rows'
          PROVE  Kept(b)' /\ (rows'[b].job => Started' /\ b < closed)
      <3>1. CASE b \in DOMAIN rows /\ rows'[b] = rows[b]
        <4>1. Kept(b) /\ (rows[b].job => Started /\ b < ran.last)
          BY <3>1 DEF RowsInv, Founded
        <4>2. rows[b].job => Started'
          BY <1>6, <1>7, <4>1 DEF Started
        <4>3. rows[b].job => b < closed
          <5>1. b \in Nat
            BY <1>3, BucketNumbers
          <5>2. Started => ran.last \in 0 .. closed
            BY <1>0 DEF Started, BucketTypes
          <5> QED BY <1>0, <4>1, <5>1, <5>2
        <4> QED BY <1>4, <3>1, <4>1, <4>2, <4>3
      <3>2. CASE b \in JobBuckets(cursor) /\ Kept(b) /\ rows' # rows
        <4>1. Resolved(config.foi) # {}
          BY <1>3, <3>2
        <4>2. n # Null
          BY <1>0, <4>1, NullAssumption DEF n
        <4> QED BY <1>1, <1>4, <1>6, <3>2, <4>2 DEF Started
      <3> QED BY <1>3, <3>1, <3>2
    <2> QED BY <1>6, <2>1, <2>2 DEF Founded
  <1>11. Settled'
    <2> SUFFICES ASSUME Started', config.incremental, NEW b \in Managed' PROVE Current(b)'
      BY <1>0 DEF Settled
    <2>1. /\ b \in BucketNo /\ b \in Nat /\ b < closed /\ n # Null /\ b + BucketsToRecompute >= n
          /\ Resolved(config.foi) # {}
      BY <1>0, <1>6, <1>8, BucketNumbers DEF Managed, IsClosed, Started
    <2>2. CASE b \in JobBuckets(cursor)
      <3>1. CASE Kept(b)
        BY <1>3, <1>5, <2>1, <2>2, <3>1 DEF Current, Written
      <3>2. CASE ~Kept(b)
        <4>1. b \notin DOMAIN rows'
          BY <1>3, <3>2 DEF RowsInv, Founded
        <4>2. ~Inferred(b)
          BY <3>2 DEF Kept, Inferred
        <4> QED BY <1>4, <4>1, <4>2 DEF Current
      <3> QED BY <3>1, <3>2
    <2>3. CASE b \notin JobBuckets(cursor)
      <3>1. b \in DOMAIN rows' => b \in DOMAIN rows /\ rows'[b] = rows[b]
        BY <1>3, <2>3
      <3>2. ASSUME Current(b) PROVE Current(b)'
        BY <1>3, <1>4, <1>5, <3>1, <3>2 DEF Current
      <3>3. CASE b + BucketsToRecompute >= closed
        <4>1. ~Forward(b)
          <5>1. b >= closed - BucketsToRecompute
            BY <1>0, <2>1, <3>3, BucketsToRecomputeAssumption
          <5> QED BY <2>1, <2>3, <5>1 DEF JobBuckets, RecentBuckets, IsClosed
        <4>2. ~Inferred(b)
          BY <1>0, <2>1, <4>1, InferredForward
        <4>3. CASE Started /\ b < ran.last
          <5>1. n = ran.first
            BY <1>7, <4>3
          <5>2. b \in Managed
            BY <2>1, <4>3, <5>1 DEF Managed, IsClosed, Started
          <5>3. ~Touched(b)
            BY <1>b, <2>1, <2>3, <4>3 DEF JobBuckets, ChangedBuckets, ChangedAvailability, Touched,
                                    IsClosed, Started
          <5> QED BY <3>2, <4>3, <5>2, <5>3 DEF RowsInv, Settled
        <4>4. CASE ~(Started /\ b < ran.last)
          <5>1. b \in DOMAIN rows => ~rows[b].job
            BY <4>4 DEF RowsInv, Founded
          <5> QED BY <3>2, <4>2, <5>1 DEF Current
        <4> QED BY <4>3, <4>4
      <3>4. CASE ~(b + BucketsToRecompute >= closed)
        <4>1. Started
          BY <1>0, <2>1, <3>4 DEF n, Started
        <4>2. n = ran.first /\ closed <= ran.last + MaxPause /\ ran.last \in 0 .. closed
          BY <1>0, <1>7, <4>1 DEF RowsInv, BucketTypes, Started
        <4>3. b < ran.last
          BY <1>0, <2>1, <3>4, <4>2, BucketsToRecomputeAssumption, BucketBounds
        <4>4. b \in Managed
          BY <2>1, <4>1, <4>2 DEF Managed, IsClosed, Started
        <4>5. ~Touched(b)
          BY <1>b, <2>1, <2>3, <4>1 DEF JobBuckets, ChangedBuckets, ChangedAvailability, Touched,
                                  IsClosed, Started
        <4> QED BY <3>2, <4>1, <4>3, <4>4, <4>5 DEF RowsInv, Settled
      <3> QED BY <3>3, <3>4
    <2> QED BY <2>2, <2>3
  <1>12. closed' <= ran'.last + MaxPause
    BY <1>0, <1>6, BucketBounds
  <1> QED BY <1>9, <1>10, <1>11, <1>12 DEF RowsInv

\* At first there are no rows.
LEMMA RowsInit == BucketInit => RowsInv
  <1> SUFFICES ASSUME BucketInit PROVE RowsInv
    OBVIOUS
  <1>1. BucketTypes
    BY DEF BucketInit, BucketTypes
  <1> QED BY <1>1 DEF BucketInit, RowsInv, Founded, Settled, Started

\* Every step keeps that.
LEMMA RowsStep ==
    MaxPause <= BucketsToRecompute /\ RowsInv /\ [BucketNext]_bucketVars => RowsInv'
  <1> SUFFICES ASSUME MaxPause <= BucketsToRecompute, RowsInv, [BucketNext]_bucketVars
               PROVE  RowsInv'
    OBVIOUS
  <1>1. CASE UNCHANGED bucketVars
    <2>1. BucketTypes' /\ Founded'
      BY <1>1 DEF bucketVars, RowsInv, BucketTypes, Founded, Started, Kept, Seen, InBucket, Available,
                  Lower, Upper, Resolved, Observed
    <2>2. \A b : Current(b) => Current(b)'
      <3> SUFFICES ASSUME NEW b PROVE Current(b) => Current(b)'
        OBVIOUS
      <3>1. /\ Seen(b)' = Seen(b) /\ \A u \in Seen(b) : sourceObs'[u] = sourceObs[u]
            /\ (Available(b)' <=> Available(b)) /\ config' = config
        BY <1>1 DEF bucketVars, Seen, InBucket, Lower, Upper, Available
      <3>2. /\ \A f, job : BucketRow(b, f, job)' = BucketRow(b, f, job)
            /\ Inferred(b)' <=> Inferred(b)
        BY <3>1, SameBucket
      <3> QED BY <1>1, <3>2 DEF bucketVars, Current
    <2>3. Settled'
      BY <1>1, <2>2 DEF bucketVars, RowsInv, Settled, Started, Managed, IsClosed, Touched, BucketOf,
                        TimeBucket, Proved, Upper, Lower
    <2> QED BY <1>1, <2>1, <2>3 DEF bucketVars, RowsInv
  <1>2. ASSUME NEW set \in Windows, RewriteWindow(set) PROVE RowsInv'
    BY <1>2, BucketBounds, RewriteKeeps
  <1> QED BY <1>1, <1>2, ObserveKeeps, ReferKeeps, CloseKeeps, JobKeeps DEF BucketNext

\* A row that the job wrote is current unless its bucket is touched, for any bucket
\* interval, as long as the job pauses no longer than buckets_to_recompute makes up for.
THEOREM RowsInvariance ==
    ASSUME MaxPause <= BucketsToRecompute
    PROVE  BucketSpec => []RowsInv
  <1>1. RowsInv /\ [BucketNext]_bucketVars => RowsInv'
    BY RowsStep
  <1> QED BY <1>1, RowsInit, PTL DEF BucketSpec

\* After a run of aggregate_datastream none of its rows is stale or lacking: the change
\* cursor names every bucket that late or changed Observations and late proofs of
\* activity concern.
THEOREM RowsStayCurrent ==
    ASSUME MaxPause <= BucketsToRecompute
    PROVE  BucketSpec => []RowsCurrent
  <1>1. RowsInv => RowsCurrent
    <2> SUFFICES ASSUME RowsInv, Fresh, config.incremental, NEW b \in Managed PROVE Current(b)
      BY DEF RowsCurrent, Current
    <2>1. Started /\ b < ran.last /\ ~Touched(b)
      BY DEF Fresh, Managed, Started, IsClosed, Touched
    <2> QED BY <2>1 DEF RowsInv, Settled
  <1> QED BY <1>1, RowsInvariance, PTL

-----------------------------------------------------------------------------
(* The missing slots of a bucket.                                          *)

Positive(k) == IF k < 0 THEN 0 ELSE k

\* A bounded set of numbers has a greatest one, and a least one.
LEMMA Greatest ==
    ASSUME NEW S \in SUBSET Int, S # {}, NEW k \in Int, \A x \in S : x <= k
    PROVE  Max(S) \in S /\ \A x \in S : x <= Max(S)
  <1> DEFINE R == {n \in Nat : \E x \in S : n = k - x}
  <1>1. PICK s \in S : TRUE
    OBVIOUS
  <1>2. k - s \in R
    BY <1>1
  <1>3. PICK n \in R : \A m \in R : n <= m
    BY <1>2, LeastNumber
  <1>4. PICK x \in S : n = k - x
    BY <1>3
  <1>5. ASSUME NEW y \in S PROVE x >= y
    <2>1. k - y \in R
      OBVIOUS
    <2>2. n <= k - y
      BY <1>3, <2>1
    <2> QED BY <1>4, <2>2
  <1>6. \E z \in S : \A y \in S : z >= y
    BY <1>5
  <1>7. Max(S) \in S /\ \A y \in S : Max(S) >= y
    BY <1>6 DEF Max
  <1> QED BY <1>7

LEMMA Smallest ==
    ASSUME NEW S \in SUBSET Int, S # {}, NEW k \in Int, \A x \in S : k <= x
    PROVE  \E x \in S : \A y \in S : x <= y
  <1> DEFINE R == {n \in Nat : \E x \in S : n = x - k}
  <1>1. PICK s \in S : TRUE
    OBVIOUS
  <1>2. s - k \in R
    BY <1>1
  <1>3. PICK n \in R : \A m \in R : n <= m
    BY <1>2, LeastNumber
  <1>4. PICK x \in S : n = x - k
    BY <1>3
  <1>5. ASSUME NEW y \in S PROVE x <= y
    <2>1. y - k \in R
      OBVIOUS
    <2>2. n <= y - k
      BY <1>3, <2>1
    <2> QED BY <1>4, <2>2
  <1> QED BY <1>5

\* Two sets of numbers, each element of one below some of the other, have one maximum.
LEMMA SameMax ==
    ASSUME NEW A \in SUBSET Int, NEW B \in SUBSET Int, B # {}, NEW k \in Int,
           \A y \in B : y <= k,
           \A x \in A : \E y \in B : x <= y,
           \A y \in B : \E x \in A : y <= x
    PROVE  Max(A) = Max(B)
  <1>1. PICK b \in B : b = Max(B) /\ \A y \in B : y <= b
    BY Greatest
  <1>2. PICK x \in A : b <= x
    BY <1>1
  <1>3. \A y \in A : y <= k
    OBVIOUS
  <1>4. PICK a \in A : a = Max(A) /\ \A y \in A : y <= a
    BY <1>2, <1>3, Greatest
  <1>5. a \in Int /\ b \in Int /\ x \in Int
    OBVIOUS
  <1>6. PICK y \in B : a <= y
    OBVIOUS
  <1>7. y <= b /\ x <= a /\ y \in Int
    BY <1>1, <1>4
  <1> QED BY <1>1, <1>2, <1>4, <1>5, <1>6, <1>7

LEMMA Divides ==
    ASSUME NEW k \in Int, NEW m \in Nat \ {0}, NEW r \in 0 .. m - 1
    PROVE  (k * m + r) \div m = k
  <1> DEFINE x == k * m + r
             q == x \div m
  <1>1. x \in Int /\ q \in Int /\ q * m <= x /\ x < q * m + m
    BY SMT
  <1>2. x >= k * m /\ x < k * m + m /\ k * m \in Int
    BY SMT DEF x
  <1> HIDE DEF x, q
  <1>3. CASE q < k
    <2>1. (k - q) - 1 \in Nat /\ ((k - q) - 1) * m >= 0
      BY <1>1, <1>3, SMT
    <2>2. ((k - q) - 1) * m = k * m - q * m - m
      BY <1>1, SMT
    <2> QED BY <1>1, <1>2, <2>1, <2>2
  <1>4. CASE q > k
    <2>1. (q - k) - 1 \in Nat /\ ((q - k) - 1) * m >= 0
      BY <1>1, <1>4, SMT
    <2>2. ((q - k) - 1) * m = q * m - k * m - m
      BY <1>1, SMT
    <2> QED BY <1>1, <1>2, <2>1, <2>2
  <1> QED BY <1>1, <1>3, <1>4 DEF x, q

\* Rounding gives the number of slots that a time is about.
LEMMA Rounds ==
    ASSUME NEW k \in Int, NEW d \in Int, 2 * d < Spacing, -2 * d < Spacing
    PROVE  Slots(k * Spacing + d) = Positive(k)
  <1>1. Spacing \in Nat \ {0}
    BY CadenceAssumption
  <1> DEFINE p == k * Spacing
  <1>2. p \in Int /\ (k < 0 => p <= -Spacing) /\ (k = 0 => p = 0) /\ (k > 0 => p >= Spacing)
    <2>1. CASE k < 0
      <3>1. (-k) - 1 \in Nat /\ ((-k) - 1) * Spacing >= 0
        BY <1>1, <2>1, SMT
      <3> QED BY <1>1, <2>1, <3>1, SMT
    <2>2. CASE k = 0
      BY <1>1, <2>2
    <2>3. CASE k > 0
      <3>1. (k - 1) \in Nat /\ (k - 1) * Spacing >= 0
        BY <1>1, <2>3, SMT
      <3> QED BY <1>1, <2>3, <3>1, SMT
    <2> QED BY <2>1, <2>2, <2>3
  <1>3. CASE p + d < 0
    <2>1. k <= 0
      BY <1>1, <1>2, <1>3
    <2> QED BY <1>3, <2>1 DEF Slots, Positive
  <1>4. CASE p + d >= 0
    <2>1. k >= 0
      BY <1>1, <1>2, <1>4
    <2>2. 2 * (p + d) + Spacing = k * (2 * Spacing) + (2 * d + Spacing)
      BY <1>1, SMT
    <2>3. (k * (2 * Spacing) + (2 * d + Spacing)) \div (2 * Spacing) = k
      <3> DEFINE m == 2 * Spacing
                 r == 2 * d + Spacing
      <3>1. m \in Nat \ {0} /\ r \in 0 .. m - 1
        BY <1>1
      <3> HIDE DEF m, r
      <3>2. (k * m + r) \div m = k
        BY <3>1, Divides
      <3> QED BY <3>2 DEF m, r
    <2> DEFINE x == p + d
               y == k * (2 * Spacing) + (2 * d + Spacing)
               z == y \div (2 * Spacing)
    <2>4. Slots(x) = (2 * x + Spacing) \div (2 * Spacing)
      <3>1. ~(x < 0)
        BY <1>1, <1>2, <1>4
      <3> HIDE DEF x
      <3> QED BY <3>1 DEF Slots
    <2>5. 2 * x + Spacing = y
      BY <2>2
    <2>6. z = k
      BY <2>3
    <2>7. Slots(x) = z
      <3> HIDE DEF x, y
      <3> QED BY <2>4, <2>5
    <2> HIDE DEF z
    <2>8. Slots(x) = Positive(k)
      <3> HIDE DEF x
      <3> QED BY <2>1, <2>6, <2>7 DEF Positive
    <2> QED BY <2>8
  <1> QED BY <1>1, <1>2, <1>3, <1>4

\* The lengths of the runs of consecutive slots that are empty.
RunLengths(slots, empty) ==
    {0} \union {s[2] - s[1] + 1 : s \in {p \in slots \X slots : p[1] .. p[2] \subseteq empty}}

\* The slot of the time before t, of those in at.
SlotBefore(at, slot, first, t) ==
    LET earlier == {u \in at : u < t} IN IF earlier = {} THEN first ELSE slot[Max(earlier)]

\* Times in order between low and high, each at its slot between first and beyond, which are at
\* none; the gap of a time is the number of slots between its slot and the one before.
Placed(at, low, high, slot, first, beyond, gap) ==
    /\ at \subseteq Int /\ at # {} /\ low \in Int /\ high \in Int
    /\ \A t \in at : low <= t /\ t <= high
    /\ slot \in [at -> Int] /\ \A t, u \in at : t <= u => slot[t] <= slot[u]
    /\ first \in Int /\ beyond \in Int /\ first < beyond
    /\ \A t \in at : first <= slot[t] /\ slot[t] <= beyond
    /\ gap \in [at -> Int]
    /\ \A t \in at : gap[t] = Positive(slot[t] - SlotBefore(at, slot, first, t) - 1)

\* The longest gap, with the one after the last time.
LongestGap(at, slot, beyond, gap) ==
    Max({gap[t] : t \in at} \union {Positive(beyond - slot[Max(at)] - 1)})

\* The slots that no time is at.
Free(at, slot, slots) == {s \in slots : \A t \in at : slot[t] # s}

\* Gaps are the lengths of runs, and the longest run is among them.
LEMMA GapsAreRuns ==
    ASSUME NEW at, NEW low, NEW high, NEW slot, NEW first, NEW beyond, NEW gap,
           Placed(at, low, high, slot, first, beyond, gap),
           NEW slots, slots = first + 1 .. beyond - 1
    PROVE  LongestGap(at, slot, beyond, gap) = Max(RunLengths(slots, Free(at, slot, slots)))
  <1> DEFINE empty == Free(at, slot, slots)
             runs == RunLengths(slots, empty)
             tail == Positive(beyond - slot[Max(at)] - 1)
             gaps == {gap[t] : t \in at} \union {tail}
             earlier(t) == {u \in at : u < t}
  <1>0. \A k \in Int : Positive(k) = IF k < 0 THEN 0 ELSE k
    BY DEF Positive
  <1>p. /\ at \in SUBSET Int /\ at # {} /\ low \in Int /\ high \in Int
        /\ \A t \in at : low <= t /\ t <= high
        /\ slot \in [at -> Int] /\ \A t, u \in at : t <= u => slot[t] <= slot[u]
        /\ first \in Int /\ beyond \in Int /\ first < beyond
        /\ \A t \in at : first <= slot[t] /\ slot[t] <= beyond
        /\ gap \in [at -> Int]
    BY DEF Placed
  <1>e. empty = {s \in slots : \A t \in at : slot[t] # s}
    BY DEF Free
  <1> HIDE DEF empty
  <1>g. \A t \in at : gap[t] = Positive(slot[t] - SlotBefore(at, slot, first, t) - 1)
    BY DEF Placed
  <1> USE <1>p, <1>e
  <1> HIDE DEF runs
  <1>1. /\ Max(at) \in at /\ \A t \in at : t <= Max(at)
        /\ slot[Max(at)] \in Int
    <2>1. Max(at) \in at /\ \A t \in at : t <= Max(at)
      BY Greatest
    <2> QED BY <2>1
  <1>2. ASSUME NEW t \in at, earlier(t) # {}
        PROVE  Max(earlier(t)) \in earlier(t) /\ \A u \in earlier(t) : u <= Max(earlier(t))
    <2>1. earlier(t) \in SUBSET Int /\ \A u \in earlier(t) : u <= high
      OBVIOUS
    <2> HIDE DEF earlier
    <2> QED BY <1>2, <2>1, Greatest
  \* A run between two slots that are neighbours.
  <1>3. ASSUME NEW p \in Int, NEW q \in Int, first <= p, q <= beyond,
               \A t \in at : slot[t] <= p \/ slot[t] >= q
        PROVE  \E r \in runs : Positive(q - p - 1) <= r
    <2>1. CASE q - p - 1 <= 0
      <3>1. 0 \in runs
        BY DEF RunLengths, runs
      <3>2. Positive(q - p - 1) = 0
        BY <1>0, <1>3, <2>1
      <3> QED BY <3>1, <3>2
    <2>2. CASE q - p - 1 > 0
      <3>1. p + 1 \in slots /\ q - 1 \in slots
        BY <1>3, <2>2
      <3>2. ASSUME NEW s \in (p + 1) .. (q - 1) PROVE s \in empty
        <4>1. s \in Int /\ p < s /\ s < q
          BY <1>3
        <4>2. s \in slots
          BY <1>3, <4>1
        <4>3. \A t \in at : slot[t] # s
          BY <1>3, <4>1
        <4> QED BY <4>2, <4>3
      <3>3. <<p + 1, q - 1>> \in {x \in slots \X slots : x[1] .. x[2] \subseteq empty}
        BY <3>1, <3>2
      <3>4. (q - 1) - (p + 1) + 1 \in runs
        BY <3>3, SMTT(30) DEF RunLengths, runs
      <3>5. (q - 1) - (p + 1) + 1 = Positive(q - p - 1) /\ Positive(q - p - 1) \in Int
        BY <1>0, <1>3, <2>2
      <3>6. Positive(q - p - 1) \in runs /\ Positive(q - p - 1) <= Positive(q - p - 1)
        BY <3>4, <3>5
      <3> QED BY <3>6
    <2>3. q - p - 1 \in Int
      OBVIOUS
    <2>4. q - p - 1 <= 0 \/ q - p - 1 > 0
      BY <2>3
    <2> QED BY <2>1, <2>2, <2>4
  <1>4. ASSUME NEW t \in at PROVE \E r \in runs : gap[t] <= r
    <2> DEFINE p == IF earlier(t) = {} THEN first ELSE slot[Max(earlier(t))]
    <2>1. p \in Int /\ first <= p /\ \A u \in at : u < t => slot[u] <= p
      <3>1. CASE earlier(t) = {}
        BY <3>1
      <3>2. CASE earlier(t) # {}
        <4> DEFINE v == Max(earlier(t))
        <4>1. v \in at /\ v < t /\ \A u \in at : u < t => u <= v
          BY <1>2, <3>2
        <4>2. p = slot[v]
          BY <3>2
        <4> HIDE DEF p, v
        <4> QED BY <4>1, <4>2
      <3> QED BY <3>1, <3>2
    <2>2. \A u \in at : slot[u] <= p \/ slot[u] >= slot[t]
      BY <2>1
    <2>3. gap[t] = Positive(slot[t] - p - 1)
      BY <1>g DEF SlotBefore
    <2>4. slot[t] \in Int /\ slot[t] <= beyond
      OBVIOUS
    <2> DEFINE q == slot[t]
    <2> HIDE DEF p, q
    <2>5. \E r \in runs : Positive(q - p - 1) <= r
      BY <1>3, <2>1, <2>2, <2>4 DEF q
    <2> QED BY <2>3, <2>5 DEF q
  <1>5. \E r \in runs : tail <= r
    <2> DEFINE v == Max(at)
               p == slot[v]
    <2>1. v \in at /\ \A u \in at : u <= v
      BY <1>1
    <2> HIDE DEF v, earlier
    <2>2. p \in Int /\ first <= p
      BY <2>1
    <2>3. ASSUME NEW u \in at PROVE slot[u] <= p
      <3>1. u <= v
        BY <2>1
      <3> QED BY <2>1, <3>1
    <2> HIDE DEF p
    <2>4. beyond <= beyond /\ \A u \in at : slot[u] <= p \/ slot[u] >= beyond
      BY <2>3
    <2>5. \E r \in runs : Positive(beyond - p - 1) <= r
      BY <1>3, <2>2, <2>4
    <2> QED BY <2>5 DEF p, v
  <1>6. \A m \in gaps : \E r \in runs : m <= r
    <2> HIDE DEF tail
    <2> QED BY <1>4, <1>5
  \* A run lies between two neighbours.
  <1>7. ASSUME NEW p \in slots, NEW q \in slots, p <= q, p .. q \subseteq empty
        PROVE  \E m \in gaps : q - p + 1 <= m
    <2>0. p \in Int /\ q \in Int /\ first < p /\ q < beyond
      OBVIOUS
    <2>1. \A t \in at : slot[t] < p \/ slot[t] > q
      BY <1>7, <2>0
    <2> DEFINE after == {t \in at : slot[t] > q}
    <2>2. CASE after = {}
      <3>1. slot[Max(at)] < p
        BY <1>1, <2>1, <2>2
      <3>2. tail \in gaps /\ q - p + 1 <= tail
        BY <1>1, <2>0, <3>1 DEF Positive
      <3> QED BY <3>2
    <2>3. CASE after # {}
      <3>1. PICK t \in after : \A u \in after : t <= u
        <4>1. after \in SUBSET Int /\ \A u \in after : low <= u
          OBVIOUS
        <4> HIDE DEF after
        <4> QED BY <2>3, <4>1, Smallest
      <3>2. t \in at /\ slot[t] > q
        OBVIOUS
      <3> DEFINE before == IF earlier(t) = {} THEN first ELSE slot[Max(earlier(t))]
      <3>3. before \in Int /\ before < p
        <4>1. CASE earlier(t) = {}
          BY <2>0, <4>1
        <4>2. CASE earlier(t) # {}
          <5>1. Max(earlier(t)) \in at /\ Max(earlier(t)) < t
            BY <1>2, <3>2, <4>2
          <5>2. Max(earlier(t)) \notin after
            <6> DEFINE v == Max(earlier(t))
            <6>1. v \in Int /\ v < t /\ t \in Int
              BY <5>1
            <6> HIDE DEF v, after
            <6>2. v \notin after
              BY <3>1, <6>1
            <6> QED BY <6>2 DEF v
          <5>3. slot[Max(earlier(t))] < p
            BY <2>1, <5>1, <5>2
          <5> QED BY <4>2, <5>1, <5>3
        <4> QED BY <4>1, <4>2
      <3>4. gap[t] = Positive(slot[t] - before - 1)
        BY <1>g, <3>2 DEF SlotBefore
      <3> HIDE DEF before
      <3>5. q - p + 1 <= gap[t] /\ gap[t] \in gaps
        BY <2>0, <3>2, <3>3, <3>4, SMTT(30) DEF Positive
      <3> QED BY <3>5
    <2> QED BY <2>2, <2>3
  <1>8. ASSUME NEW r \in runs PROVE r \in Int /\ r <= beyond - first /\ \E m \in gaps : r <= m
    <2>1. tail \in gaps /\ tail \in Int /\ 0 <= tail
      BY <1>1 DEF Positive
    <2>2. CASE r = 0
      BY <2>1, <2>2
    <2>3. CASE r # 0
      <3>1. PICK s \in slots \X slots : s[1] .. s[2] \subseteq empty /\ r = s[2] - s[1] + 1
        BY <2>3 DEF RunLengths, runs
      <3>2. s[1] \in slots /\ s[2] \in slots /\ s[1] \in Int /\ s[2] \in Int
        OBVIOUS
      <3>3. CASE s[1] <= s[2]
        <4>1. \E m \in gaps : s[2] - s[1] + 1 <= m
          <5> HIDE DEF gaps
          <5> QED BY <1>7, <3>1, <3>2, <3>3
        <4> QED BY <3>1, <4>1
      <3>4. CASE s[1] > s[2]
        <4>1. r \in Int /\ r <= 0
          BY <3>1, <3>2, <3>4
        <4>2. r <= tail
          <5> HIDE DEF tail
          <5> QED BY <2>1, <4>1
        <4>3. r <= beyond - first
          BY <4>1
        <4> HIDE DEF tail, gaps
        <4> QED BY <2>1, <4>1, <4>2, <4>3
      <3>5. r \in Int /\ r <= beyond - first
        BY <3>1, <3>2
      <3> QED BY <3>2, <3>3, <3>4, <3>5
    <2> QED BY <2>2, <2>3
  <1>9. gaps \in SUBSET Int /\ runs # {}
    BY <1>1 DEF Positive, RunLengths, runs
  <1> HIDE DEF gaps
  <1>10. Max(gaps) = Max(runs)
    <2> DEFINE k == beyond - first
    <2>0. k \in Int
      OBVIOUS
    <2>1. runs \in SUBSET Int /\ \A r \in runs : r <= k
      BY <1>8
    <2>2. \A r \in runs : \E m \in gaps : r <= m
      BY <1>8
    <2> HIDE DEF k
    <2> QED BY <1>6, <1>9, <2>0, <2>1, <2>2, SameMax
  <1> QED BY <1>10 DEF runs, gaps, empty, LongestGap

\* Times close to their slots are in the order of the slots, and of no other slot.
LEMMA SlotOrder ==
    ASSUME NEW s \in Int, NEW u \in Int, NEW d \in Int, NEW e \in Int,
           4 * d < Spacing, -4 * e < Spacing,
           u * Spacing + e <= s * Spacing + d
    PROVE  u <= s
  <1>1. Spacing \in Nat \ {0}
    BY CadenceAssumption
  <1> SUFFICES ASSUME ~(u <= s) PROVE FALSE
    OBVIOUS
  <1>2. (u - s) - 1 \in Nat /\ ((u - s) - 1) * Spacing >= 0
    BY <1>1, SMT
  <1>3. ((u - s) - 1) * Spacing = u * Spacing - s * Spacing - Spacing
    BY <1>1, SMT
  <1>4. u * Spacing \in Int /\ s * Spacing \in Int
    BY <1>1
  <1> QED BY <1>1, <1>2, <1>3, <1>4

\* The distances between slots.
LEMMA Distances ==
    ASSUME NEW s \in Int, NEW u \in Int
    PROVE  /\ s * Spacing \in Int /\ u * Spacing \in Int
           /\ (s - 1) * Spacing = s * Spacing - Spacing
           /\ (s - u) * Spacing = s * Spacing - u * Spacing
           /\ (s - u - 1) * Spacing = s * Spacing - u * Spacing - Spacing
  <1>1. Spacing \in Nat \ {0}
    BY CadenceAssumption
  <1> QED BY <1>1, SMT

\* The differences between the times, in slots.
LEMMA RoundedDistances ==
    ASSUME NEW s \in Int, NEW u \in Int, NEW d \in Int, NEW e \in Int,
           4 * d < Spacing, -4 * d < Spacing, 4 * e < Spacing, -4 * e < Spacing
    PROVE  /\ Slots(s * Spacing + d) = Positive(s)
           /\ Slots(s * Spacing + d - Spacing) = Positive(s - 1)
           /\ Slots((s * Spacing + d) - (u * Spacing + e) - Spacing) = Positive(s - u - 1)
           /\ Slots(u * Spacing - (s * Spacing + d)) = Positive(u - s)
  <1>1. Spacing \in Nat \ {0}
    BY CadenceAssumption
  <1>2. /\ s * Spacing \in Int /\ u * Spacing \in Int
        /\ (s - 1) * Spacing = s * Spacing - Spacing
        /\ (u - s) * Spacing = u * Spacing - s * Spacing
        /\ (s - u - 1) * Spacing = s * Spacing - u * Spacing - Spacing
    BY Distances
  <1>3. 2 * d < Spacing /\ -2 * d < Spacing /\ 2 * (d - e) < Spacing /\ -2 * (d - e) < Spacing
        /\ 2 * (-d) < Spacing /\ -2 * (-d) < Spacing
    BY <1>1
  <1>4. Slots(s * Spacing + d) = Positive(s)
    BY <1>3, Rounds
  <1>5. Slots((s - 1) * Spacing + d) = Positive(s - 1)
    BY <1>3, Rounds
  <1>6. (s - 1) * Spacing + d = s * Spacing + d - Spacing
    BY <1>1, <1>2
  <1>7. Slots((s - u - 1) * Spacing + (d - e)) = Positive(s - u - 1)
    BY <1>3, Rounds
  <1>8. (s - u - 1) * Spacing + (d - e) = (s * Spacing + d) - (u * Spacing + e) - Spacing
    BY <1>1, <1>2
  <1>9. Slots((u - s) * Spacing + (-d)) = Positive(u - s)
    BY <1>3, Rounds
  <1>10. (u - s) * Spacing + (-d) = u * Spacing - (s * Spacing + d)
    BY <1>1, <1>2
  <1>11. Slots(s * Spacing + d - Spacing) = Positive(s - 1)
    BY <1>5, <1>6, Zenon
  <1>12. Slots((s * Spacing + d) - (u * Spacing + e) - Spacing) = Positive(s - u - 1)
    BY <1>7, <1>8, Zenon
  <1>13. Slots(u * Spacing - (s * Spacing + d)) = Positive(u - s)
    BY <1>9, <1>10, Zenon
  <1> QED BY <1>4, <1>11, <1>12, <1>13, Zenon

\* The intervals of a job: nominal slots fill its buckets.
Filled == \E k \in Nat : BucketInterval = k * Spacing

LEMMA SlotsPerBucket ==
    ASSUME Filled
    PROVE  /\ BucketInterval \div Spacing \in Nat \ {0}
           /\ (BucketInterval \div Spacing) * Spacing = BucketInterval
  <1>1. BucketInterval \in Nat \ {0} /\ Spacing \in Nat \ {0}
    BY CadenceAssumption
  <1>2. PICK k \in Nat : BucketInterval = k * Spacing
    BY DEF Filled
  <1>3. k * Spacing + 0 = BucketInterval
    BY <1>1, <1>2
  <1>4. (k * Spacing + 0) \div Spacing = k
    <2>1. 0 \in 0 .. Spacing - 1 /\ k \in Int
      BY <1>1
    <2> QED BY <1>1, <2>1, Divides
  <1>5. BucketInterval \div Spacing = k
    BY <1>3, <1>4, Zenon
  <1>6. k # 0
    <2> SUFFICES ASSUME k = 0 PROVE FALSE
      OBVIOUS
    <2>1. BucketInterval = 0 * Spacing /\ 0 * Spacing = 0
      BY <1>1, <1>2
    <2> QED BY <1>1, <2>1
  <1>7. k \in Nat \ {0} /\ k * Spacing = BucketInterval
    BY <1>2, <1>6
  <1> QED BY <1>5, <1>7, Zenon

\* No number in the bucket: all its slots are one run.
LEMMA EmptyBucket ==
    ASSUME Filled, NEW b \in BucketNo, Numeric(b) = {}
    PROVE  MissingRun(b) = LongestRun(b)
  <1> DEFINE n == BucketInterval \div Spacing
             empty == {s \in SlotsOf : \A t \in Numeric(b) : ~Near(b, t, s)}
             runs == RunLengths(SlotsOf, empty)
  <1>1. n \in Nat \ {0} /\ n * Spacing = BucketInterval /\ Spacing \in Nat \ {0}
    BY SlotsPerBucket, CadenceAssumption
  <1>2. MissingRun(b) = n
    <2> HIDE DEF n
    <2>0. n \in Int /\ 0 \in Int /\ 2 * 0 < Spacing /\ -2 * 0 < Spacing
      BY <1>1
    <2>1. Slots(n * Spacing + 0) = Positive(n)
      BY <2>0, Rounds
    <2>2. n * Spacing + 0 = BucketInterval /\ Positive(n) = n
      BY <1>1 DEF Positive
    <2>3. Slots(BucketInterval) = n
      BY <2>1, <2>2, Zenon
    <2> QED BY <2>3 DEF MissingRun
  <1>3. LongestRun(b) = Max(runs)
    BY DEF LongestRun, RunLengths
  <1>4. PICK first \in Int : SlotsOf = first + 1 .. first + n
    <2>1. CASE config.rightClosed
      BY <1>1, <2>1 DEF SlotsOf
    <2>2. CASE ~config.rightClosed
      <3>1. SlotsOf = (-1) + 1 .. (-1) + n
        BY <1>1, <2>2 DEF SlotsOf
      <3> QED BY <3>1
    <2> QED BY <2>1, <2>2
  <1> HIDE DEF n
  <1>5. empty = SlotsOf
    OBVIOUS
  <1> HIDE DEF empty
  <1>6. n \in runs
    <2>1. <<first + 1, first + n>> \in {p \in SlotsOf \X SlotsOf : p[1] .. p[2] \subseteq empty}
      BY <1>1, <1>4, <1>5
    <2>2. (first + n) - (first + 1) + 1 \in runs
      BY <2>1 DEF RunLengths
    <2> QED BY <1>1, <2>2
  <1>7. \A r \in runs : r \in Int /\ r <= n
    BY <1>1, <1>4 DEF RunLengths
  <1> HIDE DEF runs
  <1>8. Max(runs) \in runs /\ \A r \in runs : r <= Max(runs)
    <2>1. runs \in SUBSET Int /\ runs # {} /\ n \in Int
      BY <1>1, <1>6, <1>7
    <2> QED BY <1>7, <2>1, Greatest
  <1>9. Max(runs) = n
    <2> DEFINE m == Max(runs)
    <2>1. m \in runs /\ n <= m
      BY <1>6, <1>8
    <2> HIDE DEF m
    <2>2. m = n
      BY <1>1, <1>7, <2>1
    <2> QED BY <2>2 DEF m
  <1> QED BY <1>2, <1>3, <1>9

\* Numbers that come on time.
LEMMA BucketWithNumbers ==
    ASSUME Filled, NEW b \in BucketNo, Numeric(b) # {},
           \A t \in Numeric(b) : \E s \in 0 .. BucketInterval \div Spacing : Near(b, t, s)
    PROVE  MissingRun(b) = LongestRun(b)
  <1> DEFINE n == BucketInterval \div Spacing
             at == Numeric(b)
             low == Lower(b)
             earlier(t) == {u \in at : u < t}
             slot == [t \in at |-> CHOOSE s \in 0 .. n : Near(b, t, s)]
             off(t) == t - low - slot[t] * Spacing
             first == IF config.rightClosed THEN 0 ELSE -1
             beyond == IF config.rightClosed THEN n + 1 ELSE n
             gap == [t \in at |->
                      Slots(t - (IF earlier(t) = {} THEN low ELSE Max(earlier(t)))
                              - (IF earlier(t) = {} /\ ~config.rightClosed THEN 0 ELSE Spacing))]
             empty == {s \in SlotsOf : \A t \in at : ~Near(b, t, s)}
             last == Slots(Upper(b) - Max(at))
  <1>1. /\ n \in Nat \ {0} /\ n * Spacing = BucketInterval /\ Spacing \in Nat \ {0}
        /\ low \in Int /\ Upper(b) = low + n * Spacing /\ Upper(b) \in Int
    <2>1. n \in Nat \ {0} /\ n * Spacing = BucketInterval /\ Spacing \in Nat \ {0}
      BY SlotsPerBucket, CadenceAssumption
    <2>2. low \in Int /\ BucketInterval \in Nat
      BY BucketNumbers, CadenceAssumption DEF Lower
    <2> QED BY <2>1, <2>2 DEF Upper
  <1>2. at \in SUBSET Int /\ \A t \in at : low <= t /\ t <= Upper(b)
    <2>1. at \in SUBSET Int
      BY TimeAssumption DEF Numeric, Used, Seen
    <2>2. \A t \in at : InBucket(t, b)
      BY DEF Numeric, Used, Seen
    <2> QED BY <1>1, <2>1, <2>2 DEF InBucket
  <1>3. ASSUME NEW t \in at
        PROVE  slot[t] \in 0 .. n /\ Near(b, t, slot[t])
    <2>1. \E s \in 0 .. n : Near(b, t, s)
      OBVIOUS
    <2> QED BY <2>1
  <1>4. ASSUME NEW t \in at
        PROVE  /\ slot[t] \in Int /\ off(t) \in Int /\ t = low + (slot[t] * Spacing + off(t))
               /\ 4 * off(t) < Spacing /\ -4 * off(t) < Spacing
    <2> DEFINE s == slot[t]
    <2>1. s \in 0 .. n /\ Near(b, t, s)
      BY <1>3
    <2>2. 4 * (t - low - s * Spacing) < Spacing /\ -4 * (t - low - s * Spacing) < Spacing
      BY <2>1 DEF Near
    <2> HIDE DEF s, low
    <2>3. s \in Int /\ s * Spacing \in Int
      BY <1>1, <2>1
    <2> QED BY <1>1, <1>2, <2>2, <2>3 DEF s
  <1> HIDE DEF n, at, low, slot, off
  <1>5. \A t, u \in at : t <= u => slot[t] <= slot[u]
    <2> SUFFICES ASSUME NEW t \in at, NEW u \in at, t <= u
                 PROVE  slot[t] <= slot[u]
      OBVIOUS
    <2>1. slot[t] * Spacing \in Int /\ slot[u] * Spacing \in Int
      BY <1>4, Distances
    <2>2. slot[t] * Spacing + off(t) <= slot[u] * Spacing + off(u)
      BY <1>1, <1>2, <1>4, <2>1
    <2> QED BY <1>4, <2>2, SlotOrder
  <1>6. first \in Int /\ beyond \in Int /\ first < beyond /\ SlotsOf = first + 1 .. beyond - 1
        /\ \A t \in at : first <= slot[t] /\ slot[t] <= beyond
    <2>1. \A t \in at : slot[t] \in 0 .. n
      BY <1>3
    <2>2. SlotsOf = first + 1 .. beyond - 1
      <3>1. CASE config.rightClosed
        BY <1>1, <3>1 DEF SlotsOf, n
      <3>2. CASE ~config.rightClosed
        BY <1>1, <3>2 DEF SlotsOf, n
      <3> QED BY <3>1, <3>2
    <2> QED BY <1>1, <2>1, <2>2
  <1>7. ASSUME NEW t \in at, earlier(t) # {}
        PROVE  Max(earlier(t)) \in at
    <2>1. earlier(t) \in SUBSET Int /\ \A u \in earlier(t) : u <= Upper(b)
      BY <1>2
    <2>2. Max(earlier(t)) \in earlier(t)
      <3> HIDE DEF earlier
      <3> QED BY <1>1, <1>7, <2>1, Greatest
    <2> QED BY <2>2
  <1>8. ASSUME NEW t \in at
        PROVE  gap[t] = Positive(slot[t] - (IF earlier(t) = {} THEN first ELSE slot[Max(earlier(t))]) - 1)
    <2> DEFINE s == slot[t]
               d == off(t)
    <2>1. s \in Int /\ d \in Int /\ t = low + (s * Spacing + d) /\ s * Spacing \in Int
          /\ 4 * d < Spacing /\ -4 * d < Spacing
      BY <1>4, Distances
    <2> HIDE DEF s, d
    <2>2. CASE earlier(t) = {} /\ config.rightClosed
      <3>1. gap[t] = Slots(t - low - Spacing)
        BY <2>2
      <3>2. t - low - Spacing = s * Spacing + d - Spacing
        BY <1>1, <2>1
      <3>3. Slots(s * Spacing + d - Spacing) = Positive(s - 1)
        BY <2>1, RoundedDistances
      <3>4. s - first - 1 = s - 1
        BY <2>1, <2>2
      <3>5. gap[t] = Positive(s - 1)
        BY <3>1, <3>2, <3>3, Zenon
      <3> QED BY <2>2, <3>4, <3>5 DEF s
    <2>3. CASE earlier(t) = {} /\ ~config.rightClosed
      <3>1. gap[t] = Slots(t - low - 0)
        BY <2>3
      <3>2. t - low - 0 = s * Spacing + d
        BY <1>1, <2>1
      <3>3. Slots(s * Spacing + d) = Positive(s)
        BY <2>1, RoundedDistances
      <3>4. s - first - 1 = s
        BY <2>1, <2>3
      <3>5. gap[t] = Positive(s)
        BY <3>1, <3>2, <3>3, Zenon
      <3> QED BY <2>3, <3>4, <3>5 DEF s
    <2>4. CASE earlier(t) # {}
      <3> DEFINE v == Max(earlier(t))
                 u == slot[v]
                 e == off(v)
      <3>1. v \in at
        BY <1>7, <2>4
      <3>2. u \in Int /\ e \in Int /\ v = low + (u * Spacing + e) /\ u * Spacing \in Int
            /\ 4 * e < Spacing /\ -4 * e < Spacing
        BY <1>4, <3>1, Distances
      <3>3. gap[t] = Slots(t - v - Spacing)
        BY <2>4
      <3> HIDE DEF v, u, e
      <3>4. t - v - Spacing = (s * Spacing + d) - (u * Spacing + e) - Spacing
        BY <1>1, <2>1, <3>2
      <3>5. Slots((s * Spacing + d) - (u * Spacing + e) - Spacing) = Positive(s - u - 1)
        BY <2>1, <3>2, RoundedDistances
      <3>6. gap[t] = Positive(s - u - 1)
        BY <3>3, <3>4, <3>5, Zenon
      <3> QED BY <2>4, <3>6 DEF s, u, v
    <2> QED BY <2>2, <2>3, <2>4
  <1>9. (IF config.rightClosed \/ last = 0 THEN last ELSE last - 1)
           = Positive(beyond - slot[Max(at)] - 1)
    <2> DEFINE v == Max(at)
               s == slot[v]
               d == off(v)
    <2>1. v \in at
      BY <1>1, <1>2, Greatest DEF at
    <2>2. s \in Int /\ d \in Int /\ v = low + (s * Spacing + d) /\ s * Spacing \in Int
          /\ 4 * d < Spacing /\ -4 * d < Spacing /\ s \in 0 .. n
      BY <1>3, <1>4, <2>1, Distances
    <2> HIDE DEF s, d, v
    <2>3. Upper(b) - v = n * Spacing - (s * Spacing + d)
      BY <1>1, <2>2
    <2>4. Slots(n * Spacing - (s * Spacing + d)) = Positive(n - s)
      <3>1. n \in Int
        BY <1>1
      <3> QED BY <2>2, <3>1, RoundedDistances
    <2>5. last = Positive(n - s)
      BY <2>3, <2>4, Zenon DEF v
    <2>6. last = n - s
      BY <1>1, <2>2, <2>5 DEF Positive
    <2> HIDE DEF last
    <2>7. (IF config.rightClosed \/ last = 0 THEN last ELSE last - 1) = Positive(beyond - s - 1)
      BY <1>1, <2>2, <2>6 DEF Positive
    <2> QED BY <2>7 DEF s, v
  <1>10. empty = {s \in SlotsOf : \A t \in at : slot[t] # s}
    <2> SUFFICES ASSUME NEW s \in SlotsOf, NEW t \in at
                 PROVE  ~Near(b, t, s) <=> slot[t] # s
      OBVIOUS
    <2>1. s \in Int
      BY <1>6
    <2>2. slot[t] = s => Near(b, t, s)
      BY <1>3
    <2>3. ASSUME Near(b, t, s) PROVE slot[t] = s
      <3> DEFINE d == t - low - s * Spacing
                 e == off(t)
                 u == slot[t]
      <3>1. s * Spacing \in Int /\ d \in Int /\ 4 * d < Spacing /\ -4 * d < Spacing
        <4>1. s * Spacing \in Int
          BY <1>1, <2>1
        <4>2. 4 * d < Spacing /\ -4 * d < Spacing
          BY <2>3 DEF Near, low
        <4>3. d \in Int
          BY <1>1, <1>2, <4>1
        <4> QED BY <4>1, <4>2, <4>3
      <3>2. u \in Int /\ e \in Int /\ u * Spacing \in Int /\ t = low + (u * Spacing + e)
            /\ 4 * e < Spacing /\ -4 * e < Spacing
        BY <1>4, Distances
      <3>3. u * Spacing + e = s * Spacing + d
        BY <1>1, <1>2, <3>1, <3>2
      <3> HIDE DEF d, e, u
      <3>4. u * Spacing + e <= s * Spacing + d /\ s * Spacing + d <= u * Spacing + e
        BY <3>1, <3>2, <3>3
      <3>5. u <= s
        BY <2>1, <3>1, <3>2, <3>4, SlotOrder
      <3>6. s <= u
        BY <2>1, <3>1, <3>2, <3>4, SlotOrder
      <3> QED BY <2>1, <3>2, <3>5, <3>6 DEF u
    <2> QED BY <2>2, <2>3
  <1>11. MissingRun(b) = Max({gap[t] : t \in at} \union {Positive(beyond - slot[Max(at)] - 1)})
    <2>1. MissingRuns(b) = {gap[t] : t \in at}
            \union {IF config.rightClosed \/ last = 0 THEN last ELSE last - 1}
      BY DEF MissingRuns, at, low
    <2> QED BY <1>9, <2>1 DEF MissingRun, at
  <1>12. LongestRun(b) = Max(RunLengths(SlotsOf, empty))
    BY DEF LongestRun, RunLengths, at
  <1>13. slot \in [at -> Int] /\ gap \in [at -> Int]
    <2>1. \A t \in at : gap[t] \in Int
      <3> SUFFICES ASSUME NEW t \in at PROVE gap[t] \in Int
        OBVIOUS
      <3> DEFINE p == IF earlier(t) = {} THEN first ELSE slot[Max(earlier(t))]
      <3>1. p \in Int /\ slot[t] \in Int
        <4>1. first \in Int /\ slot[t] \in Int
          BY <1>4, <1>6
        <4>2. earlier(t) # {} => slot[Max(earlier(t))] \in Int
          BY <1>4, <1>7
        <4> HIDE DEF first, earlier
        <4> QED BY <4>1, <4>2
      <3> HIDE DEF p
      <3>2. Positive(slot[t] - p - 1) \in Int
        BY <3>1 DEF Positive
      <3> QED BY <1>8, <3>2 DEF p
    <2>2. \A t \in at : slot[t] \in Int
      BY <1>4
    <2>3. slot = [t \in at |-> slot[t]] /\ gap = [t \in at |-> gap[t]]
      BY DEF slot
    <2> HIDE DEF gap
    <2> QED BY <2>1, <2>2, <2>3
  <1>14. at # {}
    BY DEF at
  <1> DEFINE upper == Upper(b)
  <1>15. upper \in Int /\ \A t \in at : low <= t /\ t <= upper
    BY <1>1, <1>2
  <1>16. \A t \in at : gap[t] = Positive(slot[t] - SlotBefore(at, slot, first, t) - 1)
    <2> SUFFICES ASSUME NEW t \in at
                 PROVE  gap[t] = Positive(slot[t] - SlotBefore(at, slot, first, t) - 1)
      OBVIOUS
    <2> HIDE DEF gap, first
    <2> QED BY <1>8 DEF SlotBefore
  <1> DEFINE slots == SlotsOf
  <1>17. slots = first + 1 .. beyond - 1 /\ empty = Free(at, slot, slots)
    BY <1>6, <1>10 DEF Free
  <1>18. /\ first \in Int /\ beyond \in Int /\ first < beyond
         /\ \A t \in at : first <= slot[t] /\ slot[t] <= beyond
    BY <1>6
  <1> HIDE DEF gap, empty, first, beyond, earlier, last, upper, slots
  <1>19. low \in Int /\ at \in SUBSET Int
    BY <1>1, <1>2
  <1>20. Placed(at, low, upper, slot, first, beyond, gap)
    BY <1>5, <1>13, <1>14, <1>15, <1>16, <1>18, <1>19 DEF Placed
  <1>21. LongestGap(at, slot, beyond, gap) = Max(RunLengths(slots, Free(at, slot, slots)))
    BY <1>17, <1>20, GapsAreRuns
  <1> QED BY <1>11, <1>12, <1>17, <1>21 DEF slots, LongestGap

\* missing_runs and gap_statistics find the longest run of missing slots, in both boundary
\* modes, for any intervals of which one is a multiple of the other and any numbers that
\* came on time.
THEOREM GapsAreFound ==
    ASSUME \E k \in Nat : BucketInterval = k * Spacing
    PROVE  BucketSpec => []GapsFound
  <1>1. GapsFound
    <2>1. Filled
      BY DEF Filled
    <2> QED BY <2>1, EmptyBucket, BucketWithNumbers DEF GapsFound
  <1> QED BY <1>1, PTL
=============================================================================
