------------------------------ MODULE Buckets -------------------------------
(***************************************************************************)
(* What aggregate_datastream writes: the value and the quality of one      *)
(* bucket (quality filter, completeness, empty buckets, aggregate), the    *)
(* buckets a run recomputes, and what it makes of the target Datastream.   *)
(*                                                                         *)
(* Aggregation has the transactions of writers and runs; here each run is  *)
(* one step, and an Observation changed since the last success of the job  *)
(* is one whose row version started since (the change cursor).             *)
(* An Observation of a Datastream is known by its phenomenon time (UNIQUE).*)
(***************************************************************************)
EXTENDS Integers, FiniteSets, FiniteSetsExt, Functions

CONSTANTS
    BucketInterval,      \* bucket_interval
    Spacing,             \* expected_observation_interval
    BucketsToRecompute,  \* buckets_to_recompute
    SourceTime,          \* phenomenon times of source Observations
    Reading,             \* what a source Observation says: a number or Null, a quality
    RefTime,             \* phenomenon times of Observations of availability Datastreams
    JobConfig,           \* the configurations of a job
    Foi,
    Windows,             \* sets of buckets an operator rewrites
    MaxBucket,           \* bound: the buckets there are
    MaxObs,              \* bound: source Observations
    MaxPause,            \* bound: buckets that close between two successes of the job
    Null

BucketNo == 0 .. MaxBucket - 1

ASSUME CadenceAssumption == BucketInterval \in Nat \ {0} /\ Spacing \in 1 .. BucketInterval
ASSUME BucketsToRecomputeAssumption == BucketsToRecompute \in Nat \ {0}
ASSUME TimeAssumption == SourceTime \subseteq Int /\ RefTime \subseteq Int
\* empty_bucket_policy zero_when_available needs an availability_max_age.
ASSUME JobConfigAssumption ==
    \A c \in JobConfig :
        /\ c.age \in Nat \union {Null} /\ (c.zero => c.age # Null)
        /\ c.foi \in Foi \union {Null}
ASSUME BucketBounds ==
    MaxBucket \in Nat /\ MaxPause \in Nat /\ Windows \subseteq SUBSET BucketNo
ASSUME NullAssumption ==
    /\ Null \notin Reading /\ Null \notin Foi /\ Null \notin Nat
    /\ Null \notin BucketNo \X BucketNo
    /\ Null \notin [last : Nat, first : Nat \union {Null}]

VARIABLES
    config,     \* the configuration of the job
    closed,     \* the buckets before this one are closed
    sourceObs,  \* sourceObs[t]: the source Observation at t, or Null
    refs,       \* times of availability Observations
    newObs,     \* times of Observations stamped since the job last succeeded
    newRefs,
    ran,        \* the buckets closed when the job last succeeded, and when it first
                \* did so with a FeatureOfInterest; or Null
    rows,       \* the aggregates there are: rows[b] for the bucket b
    extent,     \* phenomenonTime of the target: first and last bucket, or Null
    lastFoi     \* last_foi_id of the target, or Null

bucketVars == <<config, closed, sourceObs, refs, newObs, newRefs, ran, rows, extent, lastFoi>>

BucketInit ==
    /\ config \in JobConfig
    /\ closed = 0
    /\ sourceObs = [t \in SourceTime |-> Null] /\ refs = {}
    /\ newObs = {} /\ newRefs = {}
    /\ ran = Null
    /\ rows = [b \in {} |-> Null]
    /\ extent = Null /\ lastFoi = Null

-----------------------------------------------------------------------------
(* One bucket.                                                             *)

Lower(b) == b * BucketInterval
Upper(b) == Lower(b) + BucketInterval

\* The join with the source, as boundary_mode says.
InBucket(t, b) ==
    IF config.rightClosed THEN Lower(b) < t /\ t <= Upper(b)
                          ELSE Lower(b) <= t /\ t < Upper(b)

\* source_obs.
Seen(b) == {t \in SourceTime : sourceObs[t] # Null /\ InBucket(t, b)}

\* result_quality_allowed, _min and _max: an unknown quality passes no filter.
Accepted(q) ==
    /\ config.allowed # Null => q \in config.allowed
    /\ config.least # Null => q # Null /\ q >= config.least
    /\ config.most # Null => q # Null /\ q <= config.most

\* filtered_obs, and those that carry a number.
Used(b) == {t \in Seen(b) : Accepted(sourceObs[t].quality)}
Numeric(b) == {t \in Used(b) : sourceObs[t].number # Null}

SlotsBegun(x) == IF x < 0 THEN 0 ELSE x \div Spacing

\* ROUND(x / expected interval), at least 0.
Slots(x) == IF x < 0 THEN 0 ELSE (2 * x + Spacing) \div (2 * Spacing)

\* missing_runs: before each number, from the one before it (LAG) or the beginning of the
\* bucket, and after the last one.
MissingRuns(b) ==
    LET at == Numeric(b)
        earlier(t) == {u \in at : u < t}
        before(t) ==
            Slots(t - (IF earlier(t) = {} THEN Lower(b) ELSE Max(earlier(t)))
                    - (IF earlier(t) = {} /\ ~config.rightClosed THEN 0 ELSE Spacing))
        last == Slots(Upper(b) - Max(at)) IN
    {before(t) : t \in at} \union {IF config.rightClosed \/ last = 0 THEN last ELSE last - 1}

\* max_consecutive_missing_found.
MissingRun(b) == IF Numeric(b) = {} THEN Slots(BucketInterval) ELSE Max(MissingRuns(b))

\* completeness.
Complete(b) ==
    /\ config.minObs # Null => Cardinality(Numeric(b)) >= config.minObs
    /\ config.maxMissing # Null => MissingRun(b) <= config.maxMissing

\* bucket_availability: an Observation of the station shortly before the end.
Available(b) ==
    config.zero /\ \E t \in refs : Upper(b) - config.age <= t /\ t <= Upper(b)

\* empty_bucket_filled.
Inferred(b) == Seen(b) = {} /\ Available(b)

NoValue == <<>>  \* -999.9

\* An aggregate is <<sum, count>>: all that AVG needs.
BucketValue(b) ==
    LET numbers == [t \in Numeric(b) |-> sourceObs[t].number]
        orOne == [t \in Used(b) |-> IF t \in Numeric(b) THEN sourceObs[t].number ELSE 1] IN
    CASE config.function = "COUNT" ->
           IF Used(b) = {} THEN NoValue ELSE <<Cardinality(Used(b)), 1>>
      [] config.function = "SUM_NULL_AS_ONE" ->
           IF Used(b) = {} THEN NoValue ELSE <<SumFunction(orOne), 1>>
      [] Numeric(b) = {} -> NoValue
      [] config.function = "SUM" -> <<SumFunction(numbers), 1>>
      [] config.function = "AVG" -> <<SumFunction(numbers), Cardinality(Numeric(b))>>
      [] config.function = "MIN" -> <<Min(Range(numbers)), 1>>
      [] config.function = "MAX" -> <<Max(Range(numbers)), 1>>

QualityOrNull(b) ==
    LET known == {sourceObs[t].quality : t \in Used(b)} \ {Null} IN
    IF known = {} THEN Null ELSE Min(known)

\* The worst quality used; 0 for a missing value.
BucketQuality(b) ==
    LET known == {sourceObs[t].quality : t \in Used(b)} \ {Null} IN
    CASE ~Complete(b) -> 0
      [] Complete(b) /\ Inferred(b) -> config.emptyQuality
      [] OTHER -> IF known = {} THEN 0 ELSE Min(known)

\* aggregated: the row of b, with the FeatureOfInterest f; its parameters name the job.
BucketRow(b, f, job) ==
    [value |-> CASE ~Complete(b) -> NoValue
                 [] Complete(b) /\ Inferred(b) -> <<0, 1>>
                 [] OTHER -> BucketValue(b),
     quality |-> BucketQuality(b), foi |-> f, job |-> job]

\* zero_when_available skips an empty bucket when nothing proves the station active.
Kept(b) == config.zero => Seen(b) # {} \/ Available(b)

-----------------------------------------------------------------------------
(* The buckets of a run.                                                   *)

\* time_bucket, and one microsecond less when right closed.
TimeBucket(t) == t \div BucketInterval
BucketOf(t) == TimeBucket(IF config.rightClosed THEN t - 1 ELSE t)

IsClosed(b) == b < closed

\* Past the latest activity of the station, plus availability_max_age, the job
\* writes nothing.
Forward(b) ==
    config.age # Null =>
        \E t \in refs \union {s \in SourceTime : sourceObs[s] # Null} :
            Upper(b) <= t + config.age

RecentBuckets ==
    {b \in BucketNo : IsClosed(b) /\ b >= closed - BucketsToRecompute /\ Forward(b)}

\* _changed_observation_buckets.
ChangedBuckets == {b \in BucketNo : IsClosed(b) /\ \E t \in newObs : b = BucketOf(t)}

ProvedFromOwnBucket(t) ==
    {b \in TimeBucket(t) .. TimeBucket(t + config.age) :
        t <= Upper(b) /\ Upper(b) <= t + config.age}

\* The buckets an availability Observation at t proves active.
Proved(t) ==
    {b \in (TimeBucket(t) - 1) .. TimeBucket(t + config.age) :
        t <= Upper(b) /\ Upper(b) <= t + config.age}

\* _changed_availability_buckets.
ChangedAvailability ==
    IF config.zero
    THEN {b \in BucketNo : IsClosed(b) /\ \E t \in newRefs : b \in Proved(t)}
    ELSE {}

\* Whether there is a system-time cursor: after a success always; before the first, the
\* statistics of the scheduler may say nothing or -infinity, which is before every change.
HasCursor == IF ran = Null THEN BOOLEAN ELSE {TRUE}

\* The recent buckets end with the run's now(), the changed ones with clock_timestamp(); no
\* bucket closes between the two, as a run is one step.
JobBuckets(cursor) ==
    RecentBuckets \union
      (IF cursor /\ config.incremental THEN ChangedBuckets \union ChangedAvailability ELSE {})

-----------------------------------------------------------------------------
(* Steps.                                                                  *)

ObservationsUnchanged == UNCHANGED <<sourceObs, refs, newObs, newRefs>>
TargetUnchanged == UNCHANGED <<rows, extent, lastFoi>>

Observed == {t \in SourceTime : sourceObs[t] # Null}

\* A source Observation is inserted, at once or late, or changed in place.
Observe(t) ==
    /\ t <= Upper(closed)
    /\ Cardinality(Observed \union {t}) <= MaxObs
    /\ \E r \in Reading : r # sourceObs[t] /\ sourceObs' = [sourceObs EXCEPT ![t] = r]
    /\ newObs' = newObs \union {t}
    /\ UNCHANGED <<config, closed, refs, newRefs, ran>> /\ TargetUnchanged

\* An Observation of an availability Datastream.
Refer(t) ==
    /\ t <= Upper(closed) /\ t \notin refs
    /\ refs' = refs \union {t} /\ newRefs' = newRefs \union {t}
    /\ UNCHANGED <<config, closed, sourceObs, newObs, ran>> /\ TargetUnchanged

Close ==
    /\ closed < MaxBucket
    /\ ran # Null => closed < ran.last + MaxPause
    /\ closed' = closed + 1
    /\ UNCHANGED <<config, ran>> /\ ObservationsUnchanged /\ TargetUnchanged

Hull(bs) == IF bs = {} THEN Null ELSE <<Min(bs), Max(bs)>>

FoiOfRun(old, set, f) == f

\* The update of the target: a backfill leaves the latest FeatureOfInterest.
LastAfter(old, set, f) ==
    IF old = Null \/ Max(set) >= old[2] THEN f ELSE lastFoi

WidenedTo(old, set) ==
    IF old = Null THEN Hull(set)
    ELSE <<Min({old[1], Min(set)}), Max({old[2], Max(set)})>>

\* The statement: every bucket of the set is computed, those kept are upserted.
UpsertBuckets(set, f, job) ==
    LET kept == {b \in set : Kept(b)} IN
    IF kept = {} THEN TargetUnchanged
    ELSE /\ rows' = [b \in DOMAIN rows \union kept |->
                      IF b \in kept THEN BucketRow(b, f, job) ELSE rows[b]]
         /\ extent' = WidenedTo(extent, kept)
         /\ lastFoi' = LastAfter(extent, kept, f)

\* The FeatureOfInterest: the configured one, that of the target, or one of the
\* source, which has one as soon as it has an Observation.  Without, the run ends.
Resolved(configured) ==
    IF configured # Null THEN {configured}
    ELSE IF lastFoi # Null THEN {lastFoi}
    ELSE IF Observed = {} THEN {} ELSE Foi

Write(set, configured, job) ==
    \/ \E f \in Resolved(configured) : UpsertBuckets(set, f, job)
    \/ Resolved(configured) = {} /\ TargetUnchanged

\* A run of the job that succeeds; one that fails changes nothing.
JobRun ==
    /\ \E cursor \in HasCursor : Write(JobBuckets(cursor), config.foi, TRUE)
    /\ ran' = [last |-> closed,
               first |-> IF ran # Null /\ ran.first # Null THEN ran.first
                         ELSE IF Resolved(config.foi) = {} THEN Null ELSE closed]
    /\ newObs' = {} /\ newRefs' = {}
    /\ UNCHANGED <<config, closed, sourceObs, refs>>

\* An operator rewrites a window.
RewriteWindow(set) ==
    /\ \E f \in Foi \union {config.foi} : Write(set, f, FALSE)
    /\ UNCHANGED <<config, closed, ran>> /\ ObservationsUnchanged

BucketNext ==
    \/ \E t \in SourceTime : Observe(t)
    \/ \E t \in RefTime : Refer(t)
    \/ Close
    \/ JobRun
    \/ \E set \in Windows : RewriteWindow(set)

BucketSpec == BucketInit /\ [][BucketNext]_bucketVars

-----------------------------------------------------------------------------
(* Properties.                                                             *)

BucketTypeOK ==
    /\ config \in JobConfig /\ closed \in 0 .. MaxBucket
    /\ sourceObs \in [SourceTime -> Reading \union {Null}]
    /\ refs \subseteq RefTime /\ newRefs \subseteq refs /\ newObs \subseteq Observed
    /\ ran \in [first : 0 .. MaxBucket \union {Null}, last : 0 .. MaxBucket] \union {Null}
    /\ DOMAIN rows \subseteq BucketNo
    /\ \A b \in DOMAIN rows :
          /\ rows[b].value = NoValue \/ rows[b].value \in Int \X (Nat \ {0})
          /\ rows[b].quality \in Nat /\ rows[b].foi \in Foi

\* The nominal slots of a bucket, and whether a reading at t came within a quarter of
\* the spacing of slot s.
SlotsOf == IF config.rightClosed THEN 1 .. BucketInterval \div Spacing
                                 ELSE 0 .. BucketInterval \div Spacing - 1
Near(b, t, s) ==
    LET late == t - Lower(b) - s * Spacing IN 4 * late < Spacing /\ -4 * late < Spacing

\* The longest run of consecutive slots without a number.
LongestRun(b) ==
    LET empty == {s \in SlotsOf : \A t \in Numeric(b) : ~Near(b, t, s)} IN
    Max({0} \union {s[2] - s[1] + 1 :
                      s \in {p \in SlotsOf \X SlotsOf : p[1] .. p[2] \subseteq empty}})

\* For numbers that come on time, the differences that the statement computes instead
\* of the slots give the longest run of missing ones, leading and trailing ones
\* included, in both boundary modes.
GapsFound ==
    \A b \in BucketNo :
        (\A t \in Numeric(b) : \E s \in 0 .. BucketInterval \div Spacing : Near(b, t, s))
            => MissingRun(b) = LongestRun(b)

\* The job has just run.
Fresh == ran # Null /\ ran.last = closed /\ newObs = {} /\ newRefs = {}

\* The closed buckets the job is responsible for once it ran with a
\* FeatureOfInterest.
Managed ==
    IF ran.first = Null THEN {}
    ELSE {b \in BucketNo : IsClosed(b) /\ b + BucketsToRecompute >= ran.first}

\* After a run of an incremental job none of its aggregates is stale or lacking: whatever
\* Observations of the source or of the availability Datastreams came late, changed or
\* arrived between two runs, each row it wrote is what a computation from scratch
\* gives, and an empty bucket that is proven active has its zero.  (Not so a row that
\* an operator wrote before the first run, or while its bucket was open.)
RowsCurrent ==
    Fresh /\ config.incremental => \A b \in Managed :
                 /\ b \in DOMAIN rows /\ rows[b].job => rows[b] = BucketRow(b, rows[b].foi, TRUE)
                 /\ Inferred(b) => b \in DOMAIN rows

\* The extent and the FeatureOfInterest of the target, kept incrementally by runs and
\* backfills in any order, are those rebuild_datastream_extent would compute.
AsRebuilt ==
    /\ extent = Hull(DOMAIN rows)
    /\ DOMAIN rows # {} => lastFoi = rows[Max(DOMAIN rows)].foi
=============================================================================
