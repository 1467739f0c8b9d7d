----------------------------- MODULE FtpImport ------------------------------
(***************************************************************************)
(* ftp2istsos: a cron job that downloads the zip files of an FTP           *)
(* directory, posts their rows as Observations and moves each file to the  *)
(* sent or to the error directory.  Rows already there are skipped by a    *)
(* copy of the Datastreams' time ranges (append), by a query (backfill),   *)
(* or patched (overwrite_observations, here the policy "update").          *)
(*                                                                         *)
(* Cron starts a run every hour whether or not the last one has ended, a   *)
(* run may be killed, calls may fail and other clients post too.  A zip    *)
(* has one member; the dry run is left out.                                *)
(***************************************************************************)
EXTENDS Naturals, SequencesExt

CONSTANTS
    Run,          \* the runs that may be alive at once
    File,         \* the zip files
    Content,      \* the rows of each file: a sequence of [stream, time, value]
    Policy,       \* "append", "backfill" and "update"
    MaxTime,      \* bound: the times of rows
    BulkAbove,    \* rows above which /BulkObservations is used: 5
    BatchSize,    \* BULK_OBSERVATION_BATCH_SIZE
    MaxStart,     \* bound: runs started
    MaxFault,     \* bound: calls that fail, and kills
    Foreign,      \* bound: the Observations other clients may post, as <<stream, time>>
    NoRow, NoFile

Stream == UNION {{row.stream : row \in ToSet(Content[f])} : f \in File}
Time == 1 .. MaxTime
RowValue == {"v1", "v2", "other"}
Row == [stream : Stream, time : Time, value : RowValue]

ASSUME FtpAssumption ==
    /\ Content \in [File -> Seq(Row)]
    /\ MaxTime \in Nat /\ BulkAbove \in Nat /\ BatchSize \in Nat \ {0}
    /\ MaxStart \in Nat /\ MaxFault \in Nat /\ Foreign \subseteq Stream \X Time
    /\ NoRow \notin RowValue

VARIABLES
    policy,   \* the policy of the source
    table,    \* the Observations of the server: value by Datastream and time
    box,      \* where each file is: "inbox", "sent", "error"
    job,      \* the runs
    started, faults   \* how often it happened

ftpVars == <<policy, table, box, job, started, faults>>

Off == [at |-> "off", todo |-> {}, file |-> NoFile, cached |-> [s \in Stream |-> 0],
        parsed |-> <<>>, patches |-> <<>>, posts |-> <<>>, singles |-> <<>>,
        bulk |-> FALSE]

FtpTypeOK ==
    /\ policy \in Policy
    /\ table \in [Stream -> [Time -> RowValue \union {NoRow}]]
    /\ box \in [File -> {"inbox", "sent", "error"}]
    /\ \A r \in Run :
         /\ job[r].at \in {"off", "list", "next", "query", "patch", "post", "sent", "error"}
         /\ job[r].todo \subseteq File /\ job[r].file \in File \union {NoFile}
         /\ job[r].cached \in [Stream -> 0 .. MaxTime]
         /\ Len(job[r].singles) <= BatchSize \/ Len(job[r].singles) <= BulkAbove
    /\ started <= MaxStart /\ faults <= MaxFault

FtpInit ==
    /\ policy \in Policy
    /\ table = [s \in Stream |-> [t \in Time |-> NoRow]]
    /\ box = [f \in File |-> "inbox"]
    /\ job = [r \in Run |-> Off]
    /\ started = 0 /\ faults = 0

-----------------------------------------------------------------------------
(* Rows and ranges.                                                        *)

Stored(row) == table[row.stream][row.time] # NoRow

\* The ends of the Datastreams' phenomenonTime on the server, as load_datastreams
\* reads them; 0: there is none.
Ranges(tab) == [s \in Stream |-> Max({0} \union {t \in Time : tab[s][t] # NoRow})]

\* The table with the rows in it.
With(rows) ==
    [s \in Stream |-> [t \in Time |->
        LET hits == {i \in DOMAIN rows : rows[i].stream = s /\ rows[i].time = t}
        IN  IF hits = {} THEN table[s][t] ELSE rows[Max(hits)].value]]

\* The rows at the given places, in their order.
RowsAt(rows, places) ==
    [k \in 1 .. Cardinality(places) |->
        rows[CHOOSE i \in places : Cardinality({j \in places : j <= i}) = k]]

\* The first n rows, or all.
FirstRows(rows, n) == SubSeq(rows, 1, Min({n, Len(rows)}))

\* datastream_phenomenon_time_end
Covered(cached, row) == row.time <= cached[row.stream]

ParseSkipsAlways(rows, cached) == {i \in DOMAIN rows : ~Covered(cached, rows[i])}

\* sensor_things_observations, as the places of the rows in the file: only an update keeps
\* the rows of the cached range.
Parse(rows, cached) ==
    {i \in DOMAIN rows : policy = "update" \/ ~Covered(cached, rows[i])}

\* deduplicate_observations: the first row of a Datastream and time stays.
SameObservation(row, other) == row.stream = other.stream /\ row.time = other.time
Deduplicate(rows, places) ==
    {i \in places : \A j \in places : j < i => ~SameObservation(rows[j], rows[i])}

\* record_observation_times
Record(cached, rows) ==
    [s \in Stream |-> Max({cached[s]} \union
        {rows[i].time : i \in {j \in DOMAIN rows : rows[j].stream = s}})]

-----------------------------------------------------------------------------
(* A run.                                                                  *)

Become(r, state) == job' = [job EXCEPT ![r] = state]

\* Cron starts a run: the first call loads the Datastreams.
Start(r) ==
    /\ job[r].at = "off" /\ started < MaxStart
    /\ started' = started + 1
    /\ Become(r, [Off EXCEPT !.at = "list", !.cached = Ranges(table)])
    /\ UNCHANGED <<policy, table, box, faults>>

\* nlst
ListFiles(r) ==
    /\ job[r].at = "list"
    /\ Become(r, [job[r] EXCEPT !.at = "next", !.todo = {f \in File : box[f] = "inbox"}])
    /\ UNCHANGED <<policy, table, box, started, faults>>

EndRun(r) ==
    /\ job[r].at = "next" /\ job[r].todo = {}
    /\ Become(r, Off)
    /\ UNCHANGED <<policy, table, box, started, faults>>

\* download_ftp_file and the parser.  A file another run has moved cannot be read;
\* one that has no row at all is an error.
Download(r, f) ==
    /\ job[r].at = "next" /\ f \in job[r].todo
    /\ LET file == Content[f]
           rows == RowsAt(file, Deduplicate(file, Parse(file, job[r].cached)))
           read == [job[r] EXCEPT !.todo = @ \ {f}, !.file = f]
       IN  Become(r,
             IF box[f] # "inbox" \/ file = <<>> THEN [read EXCEPT !.at = "error"]
             ELSE IF rows = <<>> THEN [read EXCEPT !.at = "sent"]
             ELSE IF policy = "append" THEN [read EXCEPT !.at = "post", !.posts = rows]
             ELSE [read EXCEPT !.at = "query", !.parsed = rows])
    /\ UNCHANGED <<policy, table, box, started, faults>>

\* existing_observations_by_time, for the Datastream of the first row left.  In an
\* update the rows of this Datastream are patched and posted before the next query.
QueryWindow(r) ==
    /\ job[r].at = "query"
    /\ LET parsed  == job[r].parsed
           s       == Head(parsed).stream
           group   == {i \in DOMAIN parsed : parsed[i].stream = s}
           missing == {i \in group : ~Stored(parsed[i])}
           changed == {i \in group \ missing : table[s][parsed[i].time] # parsed[i].value}
           rest    == RowsAt(parsed, DOMAIN parsed \ group)
       IN  Become(r, [job[r] EXCEPT
             !.parsed = rest,
             !.patches = IF policy = "update" THEN RowsAt(parsed, changed) ELSE <<>>,
             !.posts = @ \o RowsAt(parsed, missing),
             !.at = IF policy = "update" THEN "patch"
                    ELSE IF rest = <<>> THEN "post" ELSE "query"])
    /\ UNCHANGED <<policy, table, box, started, faults>>

\* patch_observation
Patch(r) ==
    /\ job[r].at = "patch"
    /\ IF job[r].patches = <<>>
       THEN Become(r, [job[r] EXCEPT !.at = "post"]) /\ UNCHANGED table
       ELSE /\ table' = With(<<Head(job[r].patches)>>)
            /\ Become(r, [job[r] EXCEPT !.patches = Tail(@)])
    /\ UNCHANGED <<policy, box, started, faults>>

\* The rows of the next request to /BulkObservations.
Batch(r) == FirstRows(job[r].posts, BatchSize)

\* Decided once for a file, or for a Datastream of an update.
InBulk(r) == job[r].bulk \/ Len(job[r].posts) > BulkAbove

AfterDuplicateAgain(r) == [job[r] EXCEPT !.bulk = TRUE]

\* A batch with a row that is there is refused as a whole and sent row by row.
AfterDuplicate(r) == [job[r] EXCEPT !.bulk = TRUE, !.singles = Batch(r)]

\* post_bulk_observations
PostBulk(r) ==
    /\ job[r].at = "post" /\ job[r].posts # <<>> /\ job[r].singles = <<>> /\ InBulk(r)
    /\ IF \E row \in ToSet(Batch(r)) : Stored(row)
       THEN Become(r, AfterDuplicate(r)) /\ UNCHANGED table
       ELSE /\ table' = With(Batch(r))
            /\ Become(r, [job[r] EXCEPT
                 !.bulk = TRUE,
                 !.posts = SubSeq(@, BatchSize + 1, Len(@)),
                 !.cached = Record(@, Batch(r))])
    /\ UNCHANGED <<policy, box, started, faults>>

\* Few rows are posted one by one.
PostFew(r) ==
    /\ job[r].at = "post" /\ job[r].posts # <<>> /\ job[r].singles = <<>> /\ ~InBulk(r)
    /\ Become(r, [job[r] EXCEPT !.singles = job[r].posts])
    /\ UNCHANGED <<policy, table, box, started, faults>>

\* post_observations_individually: a row that is there is skipped.  After the last
\* one the ranges are loaded again, or the rows recorded when there was no batch.
PostSingle(r) ==
    /\ job[r].at = "post" /\ job[r].singles # <<>>
    /\ LET row  == Head(job[r].singles)
           last == Len(job[r].singles) = 1
       IN  /\ table' = IF Stored(row) THEN table ELSE With(<<row>>)
           /\ Become(r, [job[r] EXCEPT
                !.singles = Tail(@),
                !.posts = IF ~last THEN @
                          ELSE IF job[r].bulk THEN SubSeq(@, BatchSize + 1, Len(@)) ELSE <<>>,
                !.cached = IF ~last THEN @
                           ELSE IF job[r].bulk THEN Ranges(table')
                           ELSE Record(@, job[r].posts)])
    /\ UNCHANGED <<policy, box, started, faults>>

\* All posted: the next Datastream of an update, or the archive.
FilePosted(r) ==
    /\ job[r].at = "post" /\ job[r].posts = <<>>
    /\ Become(r, [job[r] EXCEPT !.at = IF job[r].parsed # <<>> THEN "query" ELSE "sent",
                                !.bulk = FALSE])
    /\ UNCHANGED <<policy, table, box, started, faults>>

NextFile(r) == [Off EXCEPT !.at = "next", !.todo = job[r].todo, !.cached = job[r].cached]

\* archive_ftp_file: rename fails when the file is gone.
Move(r) ==
    box' = IF box[job[r].file] = "inbox" THEN [box EXCEPT ![job[r].file] = job[r].at] ELSE box

Archive(r) ==
    /\ job[r].at \in {"sent", "error"}
    /\ Move(r)
    /\ Become(r, NextFile(r))
    /\ UNCHANGED <<policy, table, started, faults>>

RunStep(r) ==
    \/ ListFiles(r) \/ EndRun(r) \/ QueryWindow(r) \/ Patch(r)
    \/ PostBulk(r) \/ PostFew(r) \/ PostSingle(r) \/ FilePosted(r) \/ Archive(r)
    \/ \E f \in File : Download(r, f)

-----------------------------------------------------------------------------
(* Faults.                                                                 *)

\* The rows of the request a run makes next.
Sending(r) ==
    CASE job[r].at = "patch" -> FirstRows(job[r].patches, 1)
      [] job[r].at = "post" /\ job[r].singles # <<>> -> FirstRows(job[r].singles, 1)
      [] job[r].at = "post" /\ job[r].singles = <<>> /\ InBulk(r) -> Batch(r)
      [] OTHER -> <<>>

\* A call raises: before the server stored anything, or with the answer lost.
CallFails(r) ==
    /\ faults < MaxFault /\ job[r].at \in {"query", "patch", "post"}
    /\ \/ UNCHANGED table
       \/ /\ job[r].at = "patch" \/ \A row \in ToSet(Sending(r)) : ~Stored(row)
          /\ table' = With(Sending(r))
    /\ faults' = faults + 1
    /\ Become(r, [job[r] EXCEPT !.at = "error"])
    /\ UNCHANGED <<policy, box, started>>

\* The file cannot be moved: it stays for the next run.
MoveFails(r) ==
    /\ faults < MaxFault /\ job[r].at \in {"sent", "error"}
    /\ faults' = faults + 1
    /\ Become(r, NextFile(r))
    /\ UNCHANGED <<policy, table, box, started>>

\* The container is killed, or the host restarts.
KillRun(r) ==
    /\ faults < MaxFault /\ job[r].at # "off"
    /\ faults' = faults + 1
    /\ Become(r, Off)
    /\ UNCHANGED <<policy, table, box, started>>

\* Another client posts an Observation.
ForeignPost(s, t) ==
    /\ <<s, t>> \in Foreign /\ table[s][t] = NoRow
    /\ table' = [table EXCEPT ![s][t] = "other"]
    /\ UNCHANGED <<policy, box, job, started, faults>>

-----------------------------------------------------------------------------

FtpNext ==
    \/ \E r \in Run : Start(r) \/ RunStep(r) \/ CallFails(r) \/ MoveFails(r) \/ KillRun(r)
    \/ \E s \in Stream, t \in Time : ForeignPost(s, t)

\* A run goes on; cron starts another one as long as the bound allows.
FtpFairness == \A r \in Run : WF_ftpVars(RunStep(r)) /\ WF_ftpVars(Start(r))

FtpSpec == FtpInit /\ [][FtpNext]_ftpVars /\ FtpFairness

-----------------------------------------------------------------------------
(* Properties.                                                             *)

\* A file is not archived as sent before its rows are dealt with, whatever was killed,
\* refused or answered too late: every row of an update is stored, and of a file that was
\* appended or backfilled no row lies after the range of its Datastream.  A row within the
\* range may be missing for ever, under backfill too: GapsFilled.
SentCovered ==
    \A f \in File : box[f] = "sent" =>
        \A row \in ToSet(Content[f]) :
            IF policy = "update" THEN Stored(row) ELSE row.time <= Ranges(table)[row.stream]

\* What README.md:361-364 of the importer says of backfill: of a file it has sent no row
\* is missing, also one that fills a gap in the range of its Datastream.
GapsFilled ==
    \A f \in File : policy = "backfill" /\ box[f] = "sent" =>
        \A row \in ToSet(Content[f]) : Stored(row)

\* The inbox is emptied when a run starts after the last fault, kill or not, overlap
\* or not.
InboxEmptied == (faults = MaxFault /\ started < MaxStart) ~> (\A f \in File : box[f] # "inbox")
=============================================================================
