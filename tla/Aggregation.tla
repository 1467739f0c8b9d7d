---------------------------- MODULE Aggregation -----------------------------
(***************************************************************************)
(* The incremental aggregation of a source Datastream into a target one.   *)
(*                                                                         *)
(* A scheduled job recomputes the last closed buckets of time, and those   *)
(* that contain an Observation stamped since it last succeeded, less an    *)
(* overlap.  An Observation is stamped with the start of the transaction   *)
(* that wrote it (SystemTime) and seen from its commit on.  A run is one   *)
(* transaction: one statement reads the source and writes one aggregate    *)
(* per bucket with INSERT ... ON CONFLICT DO UPDATE.  An operator may       *)
(* rewrite a window of buckets at the same time.                           *)
(*                                                                         *)
(* An aggregate is represented by the row versions it was computed from.   *)
(***************************************************************************)
EXTENDS Integers, FiniteSets

CONSTANTS
    Writer,       \* write requests; the Observation that w inserts is named w
    Interval,     \* bucket_interval
    Recompute,    \* buckets_to_recompute
    Overlap,      \* system_time_overlap
    RightClosed,  \* boundary_mode: buckets are (start, end], or else [start, end)
    Time,         \* phenomenon times of Observations
    Window,       \* the windows an operator may ask for
    MaxClock,     \* bound: the clock stops
    MaxWrite,     \* bound: how long a write request stays open
    MaxRun,       \* bound: how long a run takes
    MaxGap,       \* bound: buckets that close between two successful runs
    NoRow, Never

Clock == 0 .. MaxClock
Bucket == 0 .. MaxClock \div Interval

ASSUME IntervalAssumption == Interval \in Nat \ {0} /\ Recompute \in Nat \ {0}
ASSUME OverlapAssumption == Overlap \in Nat /\ RightClosed \in BOOLEAN
ASSUME WindowAssumption == Time \subseteq Clock \ {0} /\ Window \subseteq SUBSET Bucket
ASSUME BoundsAssumption == /\ MaxClock \in Nat /\ MaxWrite \in Nat
                           /\ MaxRun \in Nat /\ MaxGap \in Nat

Run == {"job", "manual"}
NoAggregate == [rows |-> {}, since |-> 0]

VARIABLES
    clock,
    writer,  \* writer[w]: whether w is idle, open or done, and when it started
    obs,     \* obs[o]: the committed source Observation, or NoRow
    run,     \* run[r]: the transaction of the job, or of an operator
    target,  \* target[b]: the aggregate of b: its rows and when its writer started
    stats    \* of the last successful run: when it finished, buckets then closed

vars == <<clock, writer, obs, run, target, stats>>

\* A row version: the Observation and the request that wrote it.
Version == Writer \X Writer
Aggregate == [rows : SUBSET Version, since : Clock]

TypeOK ==
    /\ clock \in Clock
    /\ writer \in [Writer -> [pc : {"idle", "open", "done"}, start : Clock]]
    /\ obs \in [Writer -> [t : Time, by : Writer] \union {NoRow}]
    /\ run \in [Run -> [pc : {"idle", "started", "read", "written", "done"},
                        start : Clock, set : SUBSET Bucket,
                        rows : [Bucket -> SUBSET Version]]]
    /\ target \in [Bucket -> Aggregate]
    /\ stats \in [finish : Clock, closed : Bucket] \union {Never}

NoRows == [b \in Bucket |-> {}]
Resting(how) == [pc |-> how, start |-> 0, set |-> {}, rows |-> NoRows]

Init ==
    /\ clock = 0
    /\ writer = [w \in Writer |-> [pc |-> "idle", start |-> 0]]
    /\ obs = [w \in Writer |-> NoRow]
    /\ run = [r \in Run |-> Resting("idle")]
    /\ target = [b \in Bucket |-> NoAggregate]
    /\ stats = Never

-----------------------------------------------------------------------------
(* Buckets: bucket b is the time from b * Interval to (b + 1) * Interval.  *)

\* time_bucket.
BucketAt(t) == t \div Interval

\* The buckets closed at t are those before this one.
Closed(t) == {b \in Bucket : b < BucketAt(t)}

\* The join of the statement.
Within(t, b) ==
    LET lower == b * Interval
        upper == lower + Interval IN
    IF RightClosed THEN lower < t /\ t <= upper ELSE lower <= t /\ t < upper

Content(b) ==
    {<<o, obs[o].by>> : o \in {p \in Writer : obs[p] # NoRow /\ Within(obs[p].t, b)}}

Stamp(o) == writer[obs[o].by].start

FromFinish(s) == IF s = Never THEN 0 ELSE s.finish

\* The change cursor: last_successful_finish - v_system_time_overlap; the beginning
\* of time for a job that never succeeded.
From(s) == IF s = Never \/ s.finish < Overlap THEN 0 ELSE s.finish - Overlap

\* _changed_observation_buckets: one microsecond less when right closed.
Changed(from, to) ==
    {BucketAt(obs[o].t - (IF RightClosed THEN 1 ELSE 0)) :
        o \in {p \in Writer : obs[p] # NoRow /\ from <= Stamp(p) /\ Stamp(p) < to}}
      \intersect Closed(to)

\* The last closed buckets.
Recent(now) == {b \in Closed(now) : b >= BucketAt(now) - Recompute}

-----------------------------------------------------------------------------
(* Write requests on the source.                                           *)

SourceUnchanged == UNCHANGED <<writer, obs>>
RunsUnchanged == UNCHANGED <<run, target, stats>>

BeginWrite(w) ==
    /\ writer[w].pc = "idle"
    /\ writer' = [writer EXCEPT ![w] = [pc |-> "open", start |-> clock]]
    /\ UNCHANGED <<clock, obs>> /\ RunsUnchanged

\* The request commits an insert, a PATCH (of the time or of something else) or a
\* DELETE.  The trigger refuses a row that a younger request wrote.
CommitWrite(w) ==
    /\ writer[w].pc = "open"
    /\ \/ \E t \in Time : obs' = [obs EXCEPT ![w] = [t |-> t, by |-> w]]
       \/ \E o \in Writer :
            /\ obs[o] # NoRow /\ Stamp(o) <= writer[w].start
            /\ \/ \E t \in Time : obs' = [obs EXCEPT ![o] = [t |-> t, by |-> w]]
               \/ obs' = [obs EXCEPT ![o] = NoRow]
    /\ writer' = [writer EXCEPT ![w].pc = "done"]
    /\ UNCHANGED clock /\ RunsUnchanged

AbortWrite(w) ==
    /\ writer[w].pc = "open"
    /\ writer' = [writer EXCEPT ![w] = [pc |-> "done", start |-> 0]]
    /\ UNCHANGED <<clock, obs>> /\ RunsUnchanged

-----------------------------------------------------------------------------
(* Runs.                                                                   *)

\* A run starts: an operator's rewrites a window.
Start(r) ==
    /\ run[r].pc = "idle"
    /\ \E set \in IF r = "job" THEN {{}} ELSE Window :
         run' = [run EXCEPT ![r] = [pc |-> "started", start |-> clock,
                                    set |-> set, rows |-> NoRows]]
    /\ UNCHANGED <<clock, target, stats>> /\ SourceUnchanged

\* The statement takes its snapshot.
Read(r) ==
    LET now == run[r].start IN
    /\ run[r].pc = "started"
    /\ run' = [run EXCEPT
         ![r].pc = "read",
         ![r].set = IF r = "job" THEN Recent(now) \union Changed(From(stats), now) ELSE @,
         ![r].rows = [b \in Bucket |-> Content(b)]]
    /\ UNCHANGED <<clock, target, stats>> /\ SourceUnchanged

\* ... writes every bucket of its set and commits.  The target is versioned too: a
\* row that a run started later has written is refused.
Upsert(r) ==
    /\ run[r].pc = "read"
    /\ \A b \in run[r].set : target[b].since <= run[r].start
    /\ target' = [b \in Bucket |->
                    IF b \in run[r].set
                    THEN [rows |-> run[r].rows[b], since |-> run[r].start]
                    ELSE target[b]]
    /\ run' = [run EXCEPT ![r].pc = "written"]
    /\ UNCHANGED <<clock, stats>> /\ SourceUnchanged

\* The scheduler records the success of the job.
Finish(r) ==
    /\ run[r].pc = "written"
    /\ stats' = IF r = "job"
                THEN [finish |-> clock, closed |-> BucketAt(run[r].start)] ELSE stats
    /\ run' = [run EXCEPT ![r] = Resting(IF r = "job" THEN "idle" ELSE "done")]
    /\ UNCHANGED <<clock, target>> /\ SourceUnchanged

\* An error, or the worker dies, before or after the commit.
Fail(r) ==
    /\ run[r].pc \in {"started", "read", "written"}
    /\ run' = [run EXCEPT ![r] = Resting(IF r = "job" THEN "idle" ELSE "done")]
    /\ UNCHANGED <<clock, target, stats>> /\ SourceUnchanged

-----------------------------------------------------------------------------

\* Time passes, within the bounds on requests, runs and outages.
Tick ==
    /\ clock < MaxClock
    /\ \A w \in Writer : writer[w].pc = "open" => clock < writer[w].start + MaxWrite
    /\ \A r \in Run : run[r].pc \in {"started", "read", "written"} =>
                          clock < run[r].start + MaxRun
    /\ stats # Never => BucketAt(clock + 1) - stats.closed <= MaxGap
    /\ clock' = clock + 1
    /\ SourceUnchanged /\ RunsUnchanged

Next ==
    \/ Tick
    \/ \E w \in Writer : BeginWrite(w) \/ CommitWrite(w) \/ AbortWrite(w)
    \/ \E r \in Run : Start(r) \/ Read(r) \/ Upsert(r) \/ Finish(r) \/ Fail(r)

Spec == Init /\ [][Next]_vars

-----------------------------------------------------------------------------
(* Properties.                                                             *)

\* The job commits its statement.
JobCommits == run["job"].pc = "read" /\ run'["job"].pc = "written"

\* The row versions of b that were stamped before the job started, that its
\* snapshot saw and that are still there.
Due(b) == {v \in run["job"].rows[b] \intersect Content(b) :
             writer[v[2]].start < run["job"].start}

\* When the job commits, the target has every version due in every bucket closed by
\* then, although the job recomputed only a few buckets and an operator may have
\* rewritten others from an older snapshot: of the writes of the source none is
\* lost on the target, as long as a write request and a run together take no longer
\* than the overlap, and no more buckets close between two successes than the job
\* recomputes.
AllCaught ==
    [][JobCommits => \A b \in Closed(run["job"].start) : Due(b) \subseteq target'[b].rows]_vars

\* database/functions.sql:434-436: in job mode, "also recompute buckets containing
\* source Observations inserted or updated since the previous successful execution":
\* a closed bucket the job does not recompute lacks nothing on the target.
ChangesRecomputed ==
    [][JobCommits => \A b \in Closed(run["job"].start) \ run["job"].set :
                         Due(b) \subseteq target[b].rows]_vars
=============================================================================
