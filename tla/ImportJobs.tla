----------------------------- MODULE ImportJobs -----------------------------
(***************************************************************************)
(* The scheduled jobs of src/utils/jobs that load Observations into one    *)
(* existing Datastream of istSOS4:                                         *)
(*                                                                         *)
(*   copy     istsos4_to_istsos4.py: blocks of the source's Observations,  *)
(*            each after one query for what the target already has;        *)
(*   istsos2  istsos2_to_istsos4.py: one time window of the procedure at a *)
(*            time, averaged over bins when the job says so, inserted or   *)
(*            (override) patched over what is stored;                      *)
(*   sheet    xlsx2istsos/observations.py: chunks of one sheet, inserted   *)
(*            with or without force;                                       *)
(*   qc       qc_historical.py: fills the gaps of PERIOD with no-data      *)
(*            Observations, then patches every resultQuality that changes. *)
(*                                                                         *)
(* Every step is one HTTP request to the target.  Jobs run side by side    *)
(* with each other and with a sensor that posts; a job may be killed       *)
(* between two requests and started again from its first line.  The source *)
(* of a job does not change while it is read.                              *)
(*                                                                         *)
(* A phenomenonTime is named by the instant it starts at: no two that      *)
(* start together are modelled.                                            *)
(***************************************************************************)
EXTENDS Integers, Sequences, FiniteSets

CONSTANTS
    Job,       \* the runs
    Conf,      \* the configurations a run may have
    Horizon,   \* instants are 0..Horizon
    Day,       \* instants of a UTC day
    Chunk,     \* MAX_ROWS_PER_BULK
    Source,    \* the source's Observations
    NoData,    \* those whose result is NODATA_VALUE
    Sheet,     \* instants of the sheet's rows
    Step,      \* step_days
    Bin,       \* the aggregate window, when a job has one
    Period,    \* PERIOD of the quality control, [from, to]
    Sampling,  \* samplingFrequency
    BufferWindow,    \* the constraint's window
    Need,      \* min_periods: values its window must hold
    Stored,    \* sets of instants, one of which the target holds at first
    MaxRuns,   \* bound: times a run is started, all together
    MaxPosts,  \* bound: Observations the sensor posts
    NoReading      \* no Observation at this instant

ASSUME JobAssumption ==
    /\ {Horizon, Day, Chunk, Step, Bin, Sampling, BufferWindow, Need, MaxRuns,
        MaxPosts} \subseteq Nat
    /\ 0 \notin {Day, Chunk, Step, Bin, Sampling}
    /\ (Source \cup Sheet \cup UNION Stored) \subseteq 0..Horizon
    /\ NoData \subseteq Source
    /\ Period.from \in 0..Horizon /\ Period.to \in Period.from..Horizon

ASSUME ConfAssumption ==
    Conf \subseteq [kind : {"copy", "istsos2", "sheet", "qc"}, drop : BOOLEAN,
                    bin : BOOLEAN, override : BOOLEAN, force : BOOLEAN, fill : BOOLEAN,
                    until : [0..Horizon -> Nat]]

(* until: the ends of the phenomenonTimes of the Datastreams.  A copy moves *)
(* intervals too; the other jobs make instants, and the quality control    *)
(* reads nothing else.                                                     *)
ASSUME UntilAssumption ==
    \A c \in Conf, t \in 0..Horizon :
        c.until[t] >= t /\ (c.kind # "copy" => c.until[t] = t)

VARIABLES
    store,  \* sensorthings."Observation" of the Datastream, by phenomenonTime
    job,    \* the runs
    runs,   \* times a run was started: the id of its rows
    posts   \* Observations the sensor has posted

importVars == <<store, job, runs, posts>>

Instants == 0..Horizon

(* An Observation: who wrote it (its id: 0 for those stored at first and   *)
(* the sensor's), the source instants its result averages, whether the     *)
(* result is data, and its resultQuality.                                  *)
Row == [by: 0..MaxRuns, of: SUBSET Instants, data: BOOLEAN, q: {0, 3, 15, 100}]
ASSUME ReadingAssumption == NoReading \notin Row
Measured == [by |-> 0, of |-> {}, data |-> TRUE, q |-> 100]

Held(t) == store[t] # NoReading

(* The batch a run is about to send: a function from instants to rows.     *)
None == [t \in {} |-> NoReading]
SrcRow(j, t) == [by |-> job[j].run, of |-> {}, data |-> t \notin NoData, q |-> 100]

LeastIn(S) == CHOOSE t \in S : \A u \in S : t <= u
MostIn(S) == CHOOSE t \in S : \A u \in S : t >= u

(* chunked: the elements in order, at most Chunk at a time.                *)
Place(S, t) == Cardinality({u \in S : u < t})
Chunks(S) ==
    [i \in 1..((Cardinality(S) + Chunk - 1) \div Chunk) |->
        {t \in S : Place(S, t) \div Chunk = i - 1}]

-----------------------------------------------------------------------------
(* istsos4_to_istsos4: what the query for the UTC days of a block's starts *)
(* can answer: "ge" compares the start of a phenomenonTime, "le" its end   *)
(* (FilterVisitor.compare_phenomenon_time).                                *)
DaySpan(block, until) ==
    {t \in Instants : /\ t \div Day >= LeastIn(block) \div Day
                      /\ until[t] \div Day <= MostIn(block) \div Day}

(* What of the block is missing from the target and is worth importing.    *)
PendingByDay(block, existing, drop) ==
    {t \in block : /\ \A u \in existing : u \div Day # t \div Day
                   /\ drop => t \notin NoData}
Pending(block, existing, drop) ==
    {t \in block : t \notin existing /\ (drop => t \notin NoData)}

-----------------------------------------------------------------------------
(* istsos2_to_istsos4: iter_time_windows over the clamped interval.        *)
TimeWindows(from, to) ==
    [i \in 1..((to - from + Step - 1) \div Step) |->
        [from |-> from + (i - 1) * Step,
         to |-> IF from + i * Step > to THEN to ELSE from + i * Step]]

(* The rows istSOS2 returns for a window.  It is another system: whether   *)
(* the first instant belongs to the window is its choice.                  *)
Fetched(w, closed) ==
    {t \in Source : t <= w.to /\ (t > w.from \/ (closed /\ t = w.from))}

BinEnd(t) == ((t + Bin - 1) \div Bin) * Bin

(* build_data_array, the no-data filter, and aggregate_data_array: one row *)
(* per epoch-aligned bin (start, end], at the end of the bin.  The average *)
(* covers the rows fetched, whatever else the bin holds.                   *)
ArrayOf(j, c, fetched) ==
    LET kept == {t \in fetched : c.drop => t \notin NoData}
        ends == {e \in {BinEnd(t) : t \in kept} : e \in Instants}
    IN  IF c.bin
        THEN [e \in ends |-> [by |-> job[j].run, of |-> {t \in kept : BinEnd(t) = e},
                              data |-> TRUE, q |-> 100]]
        ELSE [t \in kept |-> SrcRow(j, t)]

-----------------------------------------------------------------------------
(* qc_historical: how many rows a buffer holds (compute_N).                *)
BufferSize == (BufferWindow + Sampling - 1) \div Sampling + 3

InPeriod == Period.from..Period.to

(* The rows of PERIOD and the n - 1 rows before it.                        *)
Rows(s) == {t \in Instants : s[t] # NoReading}
Earlier(s, t) == {u \in Rows(s) : u < t}
ReadRows(s) ==
    {t \in Rows(s) :
        \/ t \in InPeriod
        \/ /\ t < Period.from
           /\ Cardinality({u \in Rows(s) : t < u /\ u < Period.from})
                < BufferSize - 1}
Snapshot == [t \in Instants |-> IF t \in ReadRows(store) THEN store[t] ELSE NoReading]

(* fill_missing: the grid, anchored to the last row before PERIOD, else to *)
(* its first row, else to its start; and whether a stored row is off it.   *)
Anchor(s) ==
    IF Earlier(s, Period.from) # {} THEN MostIn(Earlier(s, Period.from))
    ELSE IF Rows(s) # {} THEN LeastIn(Rows(s)) ELSE Period.from
OnGrid(s) == {t \in InPeriod : (t - Anchor(s)) % Sampling = 0}
Missing(s) == OnGrid(s) \ Rows(s)
Misaligned(s) == (Rows(s) \cap InPeriod) \ OnGrid(s) # {}

(* quality: slot 0 says whether there is data, slot 1 whether the          *)
(* constraint ran: only over a full window of history with enough values.  *)
(* 3 is data with the slot 00, 15 data that passed, 0 no data.             *)
Buffer(s, t) ==
    {u \in Earlier(s, t) \cup {t} :
        Cardinality({v \in Earlier(s, t) : u < v}) + 1 < BufferSize}
Quality(s, t) ==
    LET count == Cardinality({u \in Rows(s) : /\ s[u].data
                                              /\ u > t - BufferWindow /\ u <= t})
    IN  IF ~s[t].data THEN 0
        ELSE IF count >= Need /\ t - LeastIn(Buffer(s, t)) >= BufferWindow
             THEN 15 ELSE 3

(* PATCH only what changes.                                                *)
Regraded(s) ==
    {t \in Rows(s) \cap InPeriod : s[t].q # Quality(s, t)}

-----------------------------------------------------------------------------
(* A job of this run changes its own record; a write to the Datastream     *)
(* tells every other run under way or ended that it was not alone.         *)
Advance(j, f) == job' = [job EXCEPT ![j] = f]
Written(j, f) ==
    job' = [k \in Job |->
              IF k = j THEN f
              ELSE IF job[k].pc = "ready" THEN job[k]
              ELSE [job[k] EXCEPT !.alone = FALSE]]

Ready(c) == [conf |-> c, pc |-> "ready", run |-> 0, alone |-> FALSE,
             todo |-> <<>>, batch |-> None, seen |-> None]

(* The first request of a run, and the next one when a piece is finished.  *)
FirstStep(kind) ==
    CASE kind = "copy" -> "check" [] kind = "istsos2" -> "fetch"
      [] kind = "sheet" -> "chunk" [] kind = "qc" -> "read"
Pieces(c) ==
    CASE c.kind = "copy" -> Chunks(Source)
      [] c.kind = "istsos2" ->
            IF Cardinality(Source) < 2 THEN <<>>
            ELSE TimeWindows(LeastIn(Source), MostIn(Source))
      [] c.kind = "sheet" -> Chunks(Sheet)
      [] c.kind = "qc" -> <<InPeriod>>
Following(f) ==
    LET rest == Tail(f.todo)
    IN  [f EXCEPT !.todo = rest, !.batch = None,
                  !.pc = IF rest = <<>> THEN "done" ELSE FirstStep(f.conf.kind)]
With(f, batch, pc) ==
    IF DOMAIN batch = {} THEN Following(f)
    ELSE [f EXCEPT !.batch = batch, !.pc = pc]

StartJob(j) ==
    /\ job[j].pc = "ready" /\ runs < MaxRuns
    /\ runs' = runs + 1
    /\ LET todo == Pieces(job[j].conf)
       IN  Advance(j, [job[j] EXCEPT !.todo = todo, !.alone = TRUE,
                         !.run = runs',
                         !.pc = IF todo = <<>> THEN "done"
                                ELSE FirstStep(job[j].conf.kind)])
    /\ UNCHANGED <<store, posts>>

(* copy_datastream_observations: the anti-duplicate query of one block.    *)
Check(j) ==
    LET f == job[j]
        block == Head(f.todo)
        existing == {t \in DaySpan(block, f.conf.until) : Held(t)}
        pending == Pending(block, existing, f.conf.drop)
    IN  /\ f.pc = "check"
        /\ Advance(j, With(f, [t \in pending |-> SrcRow(j, t)], "send"))
        /\ UNCHANGED <<store, runs, posts>>

(* import_procedure: the source's rows of one window.                      *)
Fetch(j) ==
    LET f == job[j]
    IN  /\ f.pc = "fetch"
        /\ \E closed \in BOOLEAN :
             Advance(j, With(f, ArrayOf(j, f.conf, Fetched(Head(f.todo), closed)),
                             IF f.conf.override THEN "lookup" ELSE "send"))
        /\ UNCHANGED <<store, runs, posts>>

(* import_observations: the next chunk of the sheet.                       *)
NextChunk(j) ==
    LET f == job[j]
    IN  /\ f.pc = "chunk"
        /\ Advance(j, With(f, [t \in Head(f.todo) |->
                                 [by |-> job[j].run, of |-> {}, data |-> TRUE,
                                  q |-> 100]], "send"))
        /\ UNCHANGED <<store, runs, posts>>

(* POST /BulkObservations: with force, the stored rows between the first   *)
(* and the last of the batch are deleted first; a row already there is 409.*)
ClearedAlways(force, batch) ==
    {t \in Instants : t >= LeastIn(DOMAIN batch) /\ t <= MostIn(DOMAIN batch)}
Cleared(force, batch) ==
    IF force
    THEN {t \in Instants : t >= LeastIn(DOMAIN batch) /\ t <= MostIn(DOMAIN batch)}
    ELSE {}

Forced(c) == c.kind = "sheet" /\ c.force

AfterSend(f) ==
    IF f.conf.kind = "qc" THEN [f EXCEPT !.pc = "reread", !.batch = None]
    ELSE Following(f)

Send(j) ==
    LET f == job[j]
        cleared == Cleared(Forced(f.conf), f.batch)
    IN  /\ f.pc = "send"
        /\ IF \E t \in DOMAIN f.batch : Held(t) /\ t \notin cleared
           THEN /\ Advance(j, [f EXCEPT !.pc = "failed"])
                /\ UNCHANGED store
           ELSE /\ store' = [t \in Instants |->
                               IF t \in DOMAIN f.batch THEN f.batch[t]
                               ELSE IF t \in cleared THEN NoReading ELSE store[t]]
                /\ Written(j, AfterSend(f))
        /\ UNCHANGED <<runs, posts>>

(* override: the Observation at the row's phenomenonTime, if there is one. *)
Lookup(j) ==
    LET f == job[j]
        t == LeastIn(DOMAIN f.batch)
        rest == [u \in DOMAIN f.batch \ {t} |-> f.batch[u]]
    IN  /\ f.pc = "lookup"
        /\ Advance(j, IF Held(t)
                      THEN [f EXCEPT !.seen = [u \in {t} |-> store[t]],
                                     !.pc = "replace"]
                      ELSE With(f, rest, "lookup"))
        /\ UNCHANGED <<store, runs, posts>>

(* PATCH by id: a row deleted since is 404, which ends the run.            *)
StillThere(f, t) == Held(t) /\ store[t].by = f.seen[t].by

Replace(j) ==
    LET f == job[j]
        t == LeastIn(DOMAIN f.batch)
        rest == [u \in DOMAIN f.batch \ {t} |-> f.batch[u]]
    IN  /\ f.pc = "replace"
        /\ IF StillThere(f, t)
           THEN /\ store' = [store EXCEPT ![t].of = f.batch[t].of,
                                          ![t].data = f.batch[t].data,
                                          ![t].q = f.batch[t].q]
                /\ Written(j, With([f EXCEPT !.seen = None], rest, "lookup"))
           ELSE /\ Advance(j, [f EXCEPT !.pc = "failed"])
                /\ UNCHANGED store
        /\ UNCHANGED <<runs, posts>>

-----------------------------------------------------------------------------
(* check_datastream: read the buffers, and what fill_missing would create. *)
ReadSource(j) ==
    LET f == job[j]
    IN  /\ f.pc = "read"
        /\ Advance(j,
             IF f.conf.fill /\ Misaligned(Snapshot)
             THEN [f EXCEPT !.pc = "failed"]
             ELSE LET g == [f EXCEPT !.seen = Snapshot, !.pc = "grade"]
                      gaps == IF f.conf.fill THEN Missing(Snapshot) ELSE {}
                  IN  IF gaps = {} THEN g
                      ELSE [g EXCEPT !.pc = "send",
                              !.batch = [t \in gaps |->
                                 [by |-> job[j].run, of |-> {}, data |-> FALSE,
                                  q |-> 0]]])
        /\ UNCHANGED <<store, runs, posts>>

(* Read the rows of PERIOD again once some were created.                   *)
Reread(j) ==
    LET f == job[j]
        seen == [t \in Instants |-> IF t \in InPeriod THEN store[t] ELSE f.seen[t]]
    IN  /\ f.pc = "reread"
        /\ Advance(j, [f EXCEPT !.seen = seen, !.pc = "grade"])
        /\ UNCHANGED <<store, runs, posts>>

Grade(j) ==
    LET f == job[j]
    IN  /\ f.pc = "grade"
        /\ Advance(j, With(f, [t \in Regraded(f.seen) |->
                                 [f.seen[t] EXCEPT !.q = Quality(f.seen, t)]],
                           "mark"))
        /\ UNCHANGED <<store, runs, posts>>

Mark(j) ==
    LET f == job[j]
        t == LeastIn(DOMAIN f.batch)
        rest == [u \in DOMAIN f.batch \ {t} |-> f.batch[u]]
    IN  /\ f.pc = "mark"
        /\ IF StillThere(f, t)
           THEN /\ store' = [store EXCEPT ![t].q = f.batch[t].q]
                /\ Written(j, With(f, rest, "mark"))
           ELSE /\ Advance(j, [f EXCEPT !.pc = "failed"])
                /\ UNCHANGED store
        /\ UNCHANGED <<runs, posts>>

(* A run is killed, or ends and is started again by its scheduler.         *)
Rerun(j) ==
    /\ job[j].pc # "ready" /\ runs < MaxRuns
    /\ Advance(j, Ready(job[j].conf))
    /\ UNCHANGED <<store, runs, posts>>

(* A sensor posts an Observation at an instant that has none.              *)
SensorPost(t) ==
    /\ ~Held(t) /\ posts < MaxPosts
    /\ store' = [store EXCEPT ![t] = Measured]
    /\ job' = [k \in Job |-> IF job[k].pc = "ready" THEN job[k]
                             ELSE [job[k] EXCEPT !.alone = FALSE]]
    /\ posts' = posts + 1
    /\ UNCHANGED runs

-----------------------------------------------------------------------------
ImportInit ==
    /\ \E held \in Stored :
         store = [t \in Instants |->
                    IF t \in held THEN Measured ELSE NoReading]
    /\ job \in [Job -> {Ready(c) : c \in Conf}]
    /\ \A j, k \in Job : job[j].conf.until = job[k].conf.until
    /\ runs = 0
    /\ posts = 0

ImportNext ==
    \/ \E j \in Job :
         \/ StartJob(j) \/ Check(j) \/ Fetch(j) \/ NextChunk(j) \/ Send(j)
         \/ Lookup(j) \/ Replace(j) \/ ReadSource(j) \/ Reread(j) \/ Grade(j)
         \/ Mark(j) \/ Rerun(j)
    \/ \E t \in Instants : SensorPost(t)

ImportSpec == ImportInit /\ [][ImportNext]_importVars

-----------------------------------------------------------------------------
(* Every stored row is an Observation, and a run that is about to patch    *)
(* (check_datastream and import_procedure) has read each row it names.     *)
ImportTypeOK ==
    /\ \A t \in Instants : Held(t) => store[t] \in Row
    /\ \A j \in Job :
         /\ job[j].pc \in {"ready", "check", "fetch", "chunk", "send", "lookup",
                           "replace", "read", "reread", "grade", "mark", "done",
                           "failed"}
         /\ job[j].pc \in {"mark", "replace"} =>
              LeastIn(DOMAIN job[j].batch) \in DOMAIN job[j].seen
         /\ job[j].pc \in {"mark", "send", "lookup", "replace"} =>
              DOMAIN job[j].batch # {}

(* A copy that has the target to itself, also after an earlier run was     *)
(* killed half-way, leaves out nothing: when it ends the target has every  *)
(* Observation of the source but the no-data ones it drops, and it meets a *)
(* 409 only over an interval that is stored and ends on a later day than   *)
(* it starts, which the query of its day does not return                   *)
(* (copy_datastream_observations).                                         *)
Overnight(f, t) == f.conf.until[t] \div Day > t \div Day
CopyCompletes(f) ==
    /\ f.pc = "failed" => \E t \in Instants : Held(t) /\ Overnight(f, t)
    /\ f.pc = "done" => \A t \in Source : Held(t) \/ (f.conf.drop /\ t \in NoData)

(* When a quality control of a Datastream nobody else wrote to ends, every *)
(* resultQuality of PERIOD is the one its window gives now, with the       *)
(* no-data rows it created, so that a second run patches nothing           *)
(* (check_datastream; qc_historical/README.md).                            *)
GradesSettled(f) == f.pc = "done" => Regraded(Snapshot) = {}

(* A copy and a quality control that nobody disturbs do all their work,    *)
(* however often they were killed before; a copy of intervals that end     *)
(* past midnight may stop at one it has already copied.                    *)
AloneComplete ==
    \A j \in Job : job[j].alone =>
        /\ job[j].conf.kind = "copy" => CopyCompletes(job[j])
        /\ job[j].conf.kind = "qc" => GradesSettled(job[j])

(* Only a forced sheet or an override replaces what someone else measured: *)
(* a gap that a sensor fills after fill_missing read it keeps the          *)
(* measurement.                                                            *)
MeasurementsKept ==
    [][\A t \in Instants :
         (Held(t) /\ store[t].data) =>
            \/ /\ store'[t] # NoReading
               /\ store'[t] = [store[t] EXCEPT !.q = store'[t].q]
            \/ \E j \in Job : /\ Forced(job[j].conf) \/ job[j].conf.override
                              /\ job'[j] # job[j]]_importVars
=============================================================================
