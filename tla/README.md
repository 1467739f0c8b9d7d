# A TLA+ model of istSOS4

istSOS4 is an OGC SensorThings API: a FastAPI service (`src/api`) on PostgreSQL and
TimescaleDB (`src/database`), with services and jobs that import data beside it
(`src/utils`). This directory holds the TLA+ modules that model it, the TLC
configurations that check them on small instances, and the theorems TLAPS proves.

Read first: `TemporalStore`, `SystemTime`, `SystemTimeProofs`;
then `FeatureOfInterest` and `DatastreamTime`, which share their style; the other modules
in any order. The theorems about a module `M` are in `MProofs` or in the module of
theorems of its MC module; the table of section 6 says where.

## 1. Inventory

Every request of the API is one transaction at isolation READ COMMITTED
(`async with connection.transaction()` in each endpoint). A statement sees what is
committed when it starts and the own writes of its transaction; to write a row that
another open transaction wrote, it waits for that transaction and reads the row
again. All concurrency in the API is between the statements of such transactions: a
step of a model of the API is a statement, or the statements that nothing can come
between. The import jobs and services are clients: a step of theirs is one HTTP request,
and between two of them anything may happen.

| Component | State | Operations | Hard behaviour | Correct when | Modules |
|---|---|---|---|---|---|
| System-time versioning (`istsos_schema_versioning.sql`) | live tables, `_history` tables, `systemTimeValidity`, `Commit` | the trigger on INSERT, UPDATE, DELETE; `$as_of`, `$from_to` | stamps are transaction starts, visibility is at commit; several writes of a row in one transaction | an instant has one version, history has no gap, what was answered stays | `SystemTime`, `TemporalStore`, `SystemTimeProofs` |
| FeatureOfInterest generation (`create/functions.py`, `bulk_observation.py`, `update/functions.py`, `delete/feature_of_interest.py`) | `Location.gen_foi_id`, `Datastream.last_foi_id`, `observedArea`, FeaturesOfInterest | POST of Observations with and without a FeatureOfInterest, bulk insert, PATCH and PUT of Location and FeatureOfInterest, DELETE | read-check-create races, a reference without foreign key, lock order, values read before a lock | one generated FeatureOfInterest per Location, no dangling reference, area covers what is observed | `FeatureOfInterest`, `FeatureOfInterestProofs` |
| Datastream time ranges (`endpoints/functions.py`, `delete/functions.py`) | `phenomenonTime`, `resultTime` | widening by inserts and PATCH, setting by PUT and PATCH of the Datastream, recomputation by DELETE, filtered DELETE, forced bulk insert | recomputed from a snapshot, written after a wait | the range covers every Observation, exactly after deletions | `DatastreamTime`, `DatastreamTimeProofs` |
| Incremental aggregation (`functions.sql`) | target Observations, job statistics, extent of the target | scheduled and manual runs, UPSERT of buckets | change cursor against slow writers, outages, late data; completeness, boundaries and empty buckets | every write of the source reaches the target; a row is what a computation from scratch gives | `Aggregation`, `AggregationProofs`, `Buckets` |
| Aggregation job registry (`aggregation_job.py`) | TimescaleDB jobs | POST, PATCH of enabled, DELETE | two creations of one job, names that change hands | one job per source and target, and what POST accepts can run | `JobRegistry`, `JobsProofs` |
| Entity graph (`create/*`, `update/*`, `delete/*`, `istsos_schema.sql`) | entities, link tables, HistoricalLocations | deep insert, link, replacement, cascade, move of a Thing | several tables per request, errors three levels deep | no dangling link, every move recorded, a failed request leaves nothing | `EntityGraph`, `EntityGraphProofs` |
| DataArray and bulk inserts (`data_array_observation.py`, `bulk_observation.py`) | Observations | CreateObservations, BulkObservations | failures half way, savepoints, deadlocks | the answer says what was stored | `Batches`, `ServicesProofs` |
| PATCH, PUT, JSON Patch (`update/*`) | one entity | RFC 6902 operations, merge, PUT; relocation | columns read without a lock and written later | applied as a whole, nothing of others undone | `Patching`, `RecordsProofs` |
| Query translation (`sta2rest`) | the parser's position and the entities it has met | parse; path, `$filter`, `$expand`, `$as_of`, `$from_to`, `$top`, `$skip`, links | nested options, merged expands, joins that lose or repeat rows, limits | the answer is what the URL asks for | `QueryText`, `Queries` |
| Reading (`read/read.py`) | a cursor | partitions, `@iot.nextLink` | rows written between pages | a walk returns each entity once | `Paging`, `ServicesProofs` |
| Users, roles, policies (`istsos_auth.sql`, `create/user.py`, ...) | the User table, roles and memberships, row policies | POST, PATCH, DELETE | two sources of truth; reads without locks, DDL | table and grants agree | `Accounts`, `RecordsProofs` |
| mqtt2istsos | bounded queue, worker, cached ids | receive, post, reconnect, stop | full queue, lost answers, shutdown races | in order, once, in the right Datastream; what was accepted is handled before exit | `MqttBridge`, `ServicesProofs` |
| ftp2istsos | cached ranges, remote files | import, archive | lost answers, duplicates, kills, overlapping runs | what is archived is stored; the inbox empties | `FtpImport`, `ServicesProofs` |
| Other import jobs, quality control | one Datastream, entities by name | get-or-create, copy, istSOS2, sheet, fill and grade | look and POST are two requests; kills and reruns; forced replacement | reruns add what is missing, and nothing measured is lost | `EntityImport`, `RecordsProofs`, `ImportJobs`, `JobsProofs` |
| Startup and pools; login and tokens; dummy data; notebooks | pools, tokens | | see section 7 | | none |

Interactions. Observation endpoints call the generation of the FeatureOfInterest, insert,
then refresh the Datastream; each of these statements fires the versioning
trigger. Deletions go the other way (refresh, unlink, delete with cascades).
Aggregation reads `systemTimeValidity`, which is why `Aggregation` stamps rows with the start of
their request as `SystemTime` shows, and it writes Observations through the same tables. The
import jobs and services call the API: their models take from it which POST answers
201, 409 or an error, and what a range or a query for Observations returns.

`PROJECT.json` lists the components with their status, the lines each definition
models and every hazard at its line.

## 2. Modules

### SystemTime, TemporalStore

`SystemTime` models one versioned table. An entity has a live row (`live`), the
versions archived so far (`history`) and the row as an open request sees it (`work`,
`lock`, `pending`); a row is `[val, aux, from, commit]`: `val` the versioned
columns, `aux` those the trigger updates in place. A request (`Txn`) gets its `start`
(`current_timestamp`) and its commit in `Begin`, writes in `Insert`, `Update`,
`UpdateInPlace` (the period stays, the commit is the one of the statement if it sets
one), `Delete`, `Relocate`, each the statement with the whole branch of
`istsos_mutate_history` it fires, and ends in `Commit` or `Abort`. `RangeExists` is
the error PostgreSQL raises for a range whose lower bound is above its upper one: it is
what stops a request from writing a row that a younger request wrote. `AsOf` is
what a `$as_of` query selects.

`TemporalStore` is the abstract specification: a function from entities and instants
to contents, and a set of settled instants; a write changes the answers from its
instant on, in all its entities at once, and never at a settled instant. `SystemTime` implements it
under the mapping at its end (`ImplementsTemporalStore`).

### FeatureOfInterest

A request carries its program counter (`req[r].pc`), and each action is one statement
or several on a row the request has locked. `loc`, `ds` are the committed rows of
the Location and the Datastreams; `locWork`, `dsWork` those of the request holding
`locLock`, `dsLock`. FeaturesOfInterest and Observations are inserted and removed at
commit (`made`, `mine`, `hold`, `gone` keep them until then). `Blockers` lists, per
statement, the open requests PostgreSQL makes it wait for: row locks, the key share
of the foreign key, the unique index of names. `Deadlocked` and `BreakDeadlock` are
its deadlock detector. Kinds of requests: post (`insert_observation_entity`,
`generate_feature_of_interest`), explicit (the same with a FeatureOfInterest), bulk
(`insertBulkObservation`, `get_foi_id`), move (PATCH and PUT of the Location),
delete (`delete_feature_of_interest`), reshape (`update_feature_of_interest`), remove
(`delete_observation`).

### DatastreamTime

The same style for `phenomenonTime`. `WidenTime` is the single UPDATE with LEAST and
GREATEST; `Measure` and `Replace` are the start (snapshot) and the end (row locked)
of the recomputing UPDATE; `NextBounds` is its CASE. Kind change is PATCH with a new
time, hence `relocate_observation`: the row is deleted and inserted again, so a
statement that waits for it finds it gone (`at` counts those moves); link is PATCH to
another Datastream; filtered is DELETE with a filter, which looks for the ids (`Look`)
and removes the rows later; force is the forced bulk insert; replace is PUT or PATCH of the Datastream, which sets
its range or takes it away (`SetTime`). A recomputed range whose lower bound would exceed
its upper one is refused by PostgreSQL, and the DELETE with it. `alone` is a history
variable: no two requests were ever open at once.

### Aggregation, Buckets

`Aggregation` has the transactions. `writer` and `obs` are write requests on the
source: the rows carry the start of their request and are seen from its commit on. A run
(`aggregate_datastream`, one transaction, one statement) is `Start`, `Read` (the
snapshot, and with it the buckets: `Recent` for the last closed ones, `Changed` for
those the change cursor `From` finds) and `Upsert` (every bucket of the set, refused
by the versioning of the target when a younger run has written one). `Finish` is the
scheduler recording the success, which a crash (`Fail`) can precede. The run
"manual" is an operator's `CALL` with a window. An aggregate is the set of row
versions it was computed from, so a lost one shows.

`Buckets` has what a run computes, each run one step: the quality filter, the missing
runs and the completeness of a bucket, boundary modes, COUNT and AVG and the other
functions, quality aggregation, the buckets that availability Observations prove active
(`Proved`) and their zeros, the extent and `last_foi_id` of the target, and windows an
operator rewrites. `rows` has the row of each bucket that has one; the change cursor is
`newObs` and `newRefs`, what was written since the last success.

### JobRegistry

A POST resolves the names (`Resolve`), takes the advisory lock on the ids (`LockKey`),
looks for a job of the same names or ids (`Matches`) and adds the job; meanwhile
Datastreams are renamed and removed and operators add jobs by SQL. `Runs` is what the
procedure `aggregate_datastream` makes of a config when it starts.

### EntityGraph

`graph` is the database reduced to links: rows with their foreign keys, `at`
(Thing_Location) and the HistoricalLocations. Statements are operators on a graph
(`InsertEntity`, `Link`, `Move`, `Record`, `RemoveRows` with its cascades); a request is
their composition in the order of the code, with nested entities up to three levels, and
one step: `Outcome` keeps the graph of before when a statement failed. Each of the nine
types has its POST, PATCH, PUT and DELETE; a PUT (`PutOf`) is refused when its body
lacks a mandatory property, and links as a PATCH does.

### Batches

A request is a sequence of items in sets. `InsertRow` and `WidenSeries` are the statements
of a row (data array) or of a set (bulk); `RowFails` is the savepoint of a data array row
and the roll back of a bulk request. Waits are for the unique index and for the Datastream
row; `BreakBatchDeadlock` lets the victim's statement fail. A request with no rows commits
nothing and is answered with an empty list.

### Patching

JSON values are records, a pointer is a sequence of tokens, the RFC 6902 operations
are operators on documents (`AddAt`, `RemoveAt`, `MoveValue`, ...). A request finds the
row, a JSON Patch loads the columns its pointers name (`Referenced`), and one UPDATE
writes (`Updated`); none of the SELECTs locks. `expected` is the document if each request were one
step, folded from the reference definition of RFC 6902, merge and PUT.

### QueryText, Queries, Paging

`QueryText` is the parser: from the tokens of the query part to the options of a request,
with the lists nested in `$expand`, the merging of `A/B` with what has been expanded
before (`expand_identifiers`) and the refusal of what does not parse.

`Queries` computes the answer to a GET over a database of Things, Locations, Datastreams
and Observations with versions as the SQL does (joins of the path and of the filter,
duplicates, DISTINCT, order, limit plus one, the expand function and its limits), and
compares it with `Wanted`, the set the URL asks for. A link of an answer can be followed
(`rest`). Each request is written as tokens (`Written`) and parsed before it is answered,
so that an option the parser loses or gives to another list is missed by the answer.
`MatchIds` is what a filtered DELETE takes from a parsed request.

`Paging` is the walk of a client through pages beside inserts and deletes: the cursor
(`Declare`, `Fetch` by partition, `Close`), the row beyond `$top`, the next link, responses
that break off and are asked again.

### Accounts

`role` is the User table, `login` the roles of PostgreSQL, `member` their memberships,
`policy` the row policies. A request is one READ COMMITTED transaction (`request[r]`) of a
read, a write and the DDL: PATCH is `ReadRole`, `UpdateRole`, `CommitUpdate`; DELETE is
`FindUser`, `DeleteRow`, `ReadNaming`, a `ChangePolicy` for each policy found,
`CommitDelete`; requests for policies are a read (`CheckUsers`, `ReadPolicy`, `FindPolicy`),
`ChangePolicy` and `CommitPolicy`. No handler looks at how many rows its UPDATE or DELETE
found, so `WriteRow` goes on, and holds nothing, when the row is gone. Who waits for whom is
PostgreSQL's: for the row (`RowFree`), for the table of a policy (`TableFree`), and DROP ROLE
for who has given the role a policy (`CommitDelete`). `crossed` is a history variable of the
two cases in which the code loses the agreement.

### MqttBridge

The main thread (`Test` of the stop event, `Connect`, loop, `Sleep`, `Finish` with its
four steps), the callback `OnMessage` into a bounded queue, the worker (`Take`, `Resolve`,
`Post`), `Signal`, `Kill`, `Reconnect`, and Datastreams that are removed and created again
so that cached ids get stale. A post may store its row and lose the answer.

### FtpImport, EntityImport, ImportJobs

`FtpImport`: runs over the files of an inbox under the policies append, backfill and
update: cached ranges, batches, single posts after a batch failed, lost answers, kills,
archiving, overlapping runs, another client that posts. The skip of rows that are not later
than the range (`Covered` in `Parse`) comes before the query of a backfill. `EntityImport`: get-or-create of
the entities that the citizen-science job and the sheet import name, with the 409 of a
race. `ImportJobs`: the copy between two istSOS4, the import from istSOS2, the sheet and
the quality control, request by request, with kills and reruns, beside a sensor that
posts. A phenomenonTime is named by its start and `until` gives its end: the query of the
copy for what the target has compares the start with the first day of a block and the end
with its last (`DaySpan`).

### MC modules

`MCSystemTime` and `MCFeatureOfInterest` each instantiate one component.
`MCRecords`, `MCJobs` and `MCServices` put several components side by side: the variable
`part` is chosen at first and says whose steps a behaviour takes, the others rest in one
initial state. Each component is thus checked as if alone, with the state space the sum of theirs and
not their product; the components of one MC module do not share state.
`MCQueries` holds the databases and requests of `Queries`, `MCFtpImport` the files of
`FtpImport`, for `MCServices` and for a run of its own.

## 3. Runs

| run | instance | what it shows |
|---|---|---|
| versions | 2 entities, 3 requests, instants 0..3, 2 contents, 2 in-place values; two requests write any entities, or three write one entity; at most 3 archived versions of an entity by one request | `OneVersionPerInstant`, `NoGap`, `SettledAsOf`, refinement of `TemporalStore` |
| generation | 3 requests of 7 kinds in every combination, 2 Datastreams | `GenFoiExists`, `AreaCovers`, `NoDeadlock`, `StampedOnce`; under fairness `Answered` |
| records | `DatastreamTime`: 3 requests of 7 kinds, 2 Datastreams, 2 instants. `EntityGraph`: 3 requests (POST, PATCH, PUT, DELETE) after a seed, ids to 3. `EntityImport`: two citizen-science runs and a sheet, 3 starts. `Accounts`: 3 requests, 2 users, a policy name. `Patching`: 2 requests, every pair of 10 bodies and 21 edits of an array | `TimesCovered`, `TimesTight`, `NeverRevived`; `NoOrphans`, `EveryMoveRecorded`; `EveryItemStored`, `RerunAddsNothing`; `GrantsAgree`; `SerialPatches`, `AnswersHold` |
| jobs | `Aggregation`: 2 write requests, job and operator, buckets of 2, clock to 4, overlap 2. `Buckets`: 3 buckets of 4 slots, 2 configurations (AVG, left closed, maximum of missing runs; COUNT, right closed, zeros for active stations). `JobRegistry`: 2 POSTs, 3 Datastreams, 2 changes. `ImportJobs`: 2 runs of 5 configurations, 6 instants (one copy has two intervals, one past midnight), 3 starts | `AllCaught`; `GapsFound`, `RowsCurrent`, `AsRebuilt`; `AcceptedJobsRun`, `OneJobPerPair`; `AloneComplete`, `MeasurementsKept` |
| services | `MqttBridge`: queue of 1, 2 messages of 3 shapes, 2 signals. `FtpImport`: 2 files, 2 runs, 1 fault. `Paging`: 4 ids, `$top` 0 to 2, partitions of 2, 2 deletions, 1 broken response. `Queries`: 2 databases, every path, filter, instant, pair of instants and expand of `MCQueries`, each written in tokens and parsed. `Batches`: 2 requests, 7 lists of items, both kinds | `InOrderOnce`, `SignalHeeded`; `SentCovered`, `InboxEmptied`; `WalkMissesOnlyDeletions`; `AnswersAsked`; `AnswersTell`, `BatchesAnswered` |
| citation, single_foi, posts_succeed, insert_covered, gaps_filled, changes_recomputed, as_of | a small instance each | violated: see section 4 |

Type invariants: `TypeOK` in the first two runs, `RecordsTypeOK`, `JobsTypeOK`,
`ServicesTypeOK` (those of the components together) in the others.

`CHECK_DEADLOCK FALSE` in every configuration: requests are finitely many and a
behaviour stops when all have ended or a bound is reached.

**Bounds.** Two requests suffice for a write-write conflict and for the difference of
start and commit order; two entities show that a commit is atomic. For the checks of the
trigger to matter to `OneVersionPerInstant` it takes three requests (one inserts the row,
two change it against the order of their starts), hence the second half of the bound of
`versions`. Four instants allow three starts and an instant before all. Two Datastreams
are needed for two rows to be locked in different orders; one Location is enough, since
generation locks a single one. In `Aggregation` both buckets close within the clock, and
the second success of the job has to find what was stamped in the first bucket before;
`MaxGap` equals `buckets_to_recompute`, and `MaxWrite + MaxRun` the overlap: beyond
either the code loses writes, and promises nothing. Two messages suffice for an order
between messages, a payload of three values for one within a message, and a queue of one
to find it full. Two overlapping runs suffice for the races of the import jobs, a third
start for a rerun after them. `EntityGraph` starts from a Thing with a Location and a Datastream, so that three requests
add Observations or a second place and still delete what they refer to. Two pages and a third one that is asked again fit four ids. Each property
fails on a plausible bug (the mutants of `PROJECT.json`), so the interesting case does
arise in the instance.

**Symmetry** is declared only where elements are compared for equality and no liveness is
checked: never in generation and services. In generation the requests are numbered by
their kinds instead (`Numbered`), and the first insert names the first Datastream
(`NamesFirst`): every behaviour is a renaming of such a one.

**Fairness**, all of it weak:

- `FeatureOfInterest`: each request's next statement (the API awaits one after the other,
  PostgreSQL wakes a waiter when the lock is free) and `BreakDeadlock`
  (`deadlock_timeout`).
- `Batches`: each request's next statement, the deadlock detector included.
- `MqttBridge`: the main thread and the worker, which the operating system both
  schedules; the calls of the client have timeouts. The network loop need not deliver.
- `FtpImport`: the steps of a run, and `Start`: cron starts one every hour.

No request has to arrive, no message, signal, kill or fault has to come. `Paging` owes no
liveness: a walk beside endless inserts need not end.

## 4. What does not hold

Each of these is stated in a comment, a test or a page of the repository and refuted by
a run.

- `CitationIsPermanent`: a version is stamped with the start of its transaction and
  appears at its commit, so the answer for an instant that has passed can change.
  `SettledAsOf` is what does hold: nothing changes before the start of the oldest
  open transaction.
- `SingleFoi`: `get_foi_id` of BulkObservations does not lock the Location.
- `PostsSucceed`: with unique names, PATCH of a Location leaves the name of the
  generated FeatureOfInterest taken, and every later POST fails.
- `InsertCovered`: DELETE of an Observation overwrites a widening.
- `GapsFilled`: the ftp job skips every row that is not later than the range of its
  Datastream, in backfill mode too, before it asks which rows exist (`observations.py:360`),
  and archives the file: a gap stays. Its README says that backfill fills historical gaps.
  Only update sends such rows. `SentCovered` is what does hold.
- `ChangesRecomputed`: the cursor of the aggregation job looks at the start of the
  writing transactions, so one open longer than the overlap (5 minutes by default)
  is never aggregated. `AllCaught` is what holds below.
- `ServedAsOf`: `$as_of` is appended to a `$filter` without parentheses, so with an
  "or" in the filter it bounds the last operand only.

Seen while modelling, and not stated by a run. The properties of the passing runs leave
these cases out, by a condition in the property or by the requests of the instance;
the model itself has them where it says so here.

Versions. Columns the trigger updates in place (`gen_foi_id`, the time ranges, the
areas) show today's value for past instants. Statements without a commit
(`unlink_foi_from_location`) keep the commit of the version before; a filtered DELETE
registers no commit of the deletion; a DELETE answered 404 leaves a row of the commit log.

FeatureOfInterest and ranges. With two Datastreams at a Location, or after a DELETE
followed by a POST, `last_foi_id` hides a geometry that is not in `observedArea`
(`create/functions.py:706`). PATCH and PUT of a FeatureOfInterest recompute the areas of its
Datastreams without it (`update/feature_of_interest.py:160`, `endpoints/functions.py:127`,
which DELETE needs that way). A PATCH that links an Observation to another Datastream
changes neither range (`update/functions.py:527`). A filtered DELETE deletes rows that
matched when it looked, whatever they are by then (`filtered_delete_observation.py:115`;
`Look` and `Write` in `DatastreamTime`), and leaves every option but `$filter` aside. A PUT
of a Datastream without `phenomenonTime` takes the maintained range and `observedArea`
away although its Observations remain (`put.py:69`, `datastream.py:142`). After a client
has set a range by hand, a DELETE of an Observation may fail: the lower bound it
recomputes can exceed the upper one it keeps, and `tstzrange` refuses that
(`delete/functions.py:80`; `Remeasured` in `DatastreamTime`: the type theorem needed it,
the run has too few requests to come to it). With unique names, BulkObservations can
deadlock with a POST: it inserts the FeatureOfInterest before it writes the Location
(`bulk_observation.py:366`), so a POST that has locked the Location waits for the name, and
the bulk insert for the Location (`NoDeadlock` leaves this out by `UniqueNames => NoBulk`;
its proof came to it).

Patches. A JSON Patch writes back the columns it only tests or copies from, so a PATCH
in between is lost there, and its "test" need not hold when it writes
(`json_patch.py:220`, `:322`; in `Patching`).

Users. Two PATCHes of a policy may lose one addition. Two overlapping PATCHes of a user's
role leave a stale membership: the second revokes the role that it read, not the one it
overwrites (`update/user.py:116`). A PATCH or DELETE that waited for another DELETE finds no
row, does not notice (`delete/user.py:105`), and regrants or drops the role of a user who was
created again meanwhile; such a user has a row without a role and can then neither be
deleted, which answers 404, nor created, which answers 409. Both are in `Accounts`, marked
`crossed`. A user whose role is changed stays in policies of the old type.

Queries. Over a path, `$as_of` with an entity without an id in the middle reads all its
versions, and a many-to-many step joins the current table (`sta2rest.py:577`,
`visitors.py:685`); a second level of `$expand` reads current rows and its links carry no
`$as_of` (`visitors.py:441`); the link of a nested list takes the options of the last
expanded relation (`visitors.py:354`); a filter over a to-many relation in an expand or a
path repeats rows (`visitors.py:412`), and with "or" drops entities without related ones
(`visitors.py:800`); `$top=0` links to itself; a dataArray of a page returns one row
more and no link (`visitors.py:896`); `$expand=A/B/C,A/D` puts D under B
(`parser.py:142`); in `A($expand=B/C),D` and `A($expand=B/C;$top=1)` the inner list takes
the ")" or ";" of the outer one and the URL is misread or refused (`parser.py:325`); over a
path, `$from_to` repeats rows. With `$orderby` on a property that ties, pages may repeat and miss
entities, since PostgreSQL need not order ties the same way twice (the instance of
`Paging` orders by id).

Import jobs. The copy between two istSOS4 looks for what the target has with a filter that
compares the end of a phenomenonTime with the end of the last day of a block
(`istsos4_to_istsos4.py:189`, `filter_visitor.py:269`): an interval that ends on a later day
than it starts is not found, and a rerun over it stops at a 409, though its README says
(lines 73-74) that values already in the target are skipped (`DaySpan` in `ImportJobs`,
excused in `AloneComplete`). Without unique names a rerun of `EntityImport` adds entities
after an overlap (`UniqueNames` and `overlap` in `RerunAddsNothing`). mqtt2istsos keeps the id
of a Datastream that was removed and created again until it is restarted, and its values are
refused.

Aggregation. `availability_max_age` shorter than a bucket never computes an empty bucket
again; what changed before the first success is picked up only as far as the recent buckets of
that run reach, unless the scheduler's statistics give it a cursor (`HasCursor`), and what
changed while the target had no FeatureOfInterest is not; an outage in which more buckets close
than are recomputed loses buckets (`functions.sql:1397`); deletions in the source are not
caught; a bucket of only no-data values gives -999.9 with a good quality; a job whose
Datastreams are renamed or replaced computes for others than it was accepted for
(`StillMeant` in `AcceptedJobsRun`). These are what the conditions of `RowsCurrent`
(`Managed`, the rows an operator wrote, `MaxPause`) leave out.

Transactions. Endpoints return from inside a transaction before `RESET ROLE` on some
error paths; the pool's reset of the connection makes up for it, so no model has a
leaked role.

## 5. What the properties leave to the reader

`GrantsAgree` leaves out the two cases that `crossed` marks (section 4). `TimesCovered` is about inserts and PATCHes, `TimesTight` about requests one after the
other: between deletions and inserts the code does lose coverage (`InsertCovered`).
`StampedOnce` leaves BulkObservations out (`SingleFoi`); `AreaCovers` is about one
Datastream and no deletions. `AnswersHold` says of the columns a request names that they
were written, not that they stay: there the later writer wins. `AcceptedJobsRun` speaks of a job while its names
mean the Datastreams they meant. `EveryItemStored` excuses an item whose nested
ObservedProperty someone else had made: the code skips it. `MeasurementsKept` excuses a
forced sheet and an override, which are there to replace. `AloneComplete` excuses a copy
that stops at an interval past midnight, and takes the source as constant. `SentCovered` asks
of append and backfill only that no row lies after the range. `RowsCurrent` and `AllCaught`
are about outages no longer than the job recomputes. `SignalHeeded` excuses two signals that
the code does not heed: one between the test of the stop event and the loop, and one in the
loop while the client is offline, since the reconnection may undo the `disconnect()` of the
handler; after either the service may go on.

## 6. Proofs

Each theorem is proved for all values of the constants that satisfy the assumptions
stated in the module it is about: any number of requests, rows, instants, and any bound.

| module | theorem | states |
|---|---|---|
| `SystemTimeProofs` | `TypeCorrect`, `Invariance` | `[]TypeOK`, `[]IInv` |
| | `OneVersion`, `Settling` | `[]OneVersionPerInstant`, `SettledAsOf` |
| | `RefineInvariance`, `GapFree` | `[]RInv`, `[]NoGap` |
| | `Implementation` | `ImplementsTemporalStore` |
| `FeatureOfInterestProofs` | `TypeCorrect`, `FoiInvariance` | `[]TypeOK`, `[]FInv` |
| | `GeneratedExists`, `GeneratedOnce` | `[]GenFoiExists`, `StampedOnce` |
| | `CoverInvariance`, `AreaKept` | `[]CInv`, `[]AreaCovers` |
| | `HoldInvariance`, `NoCycle` | `[]HInv`, `[]NoDeadlock` |
| `DatastreamTimeProofs` | `TypeCorrect`, `TimeInvariance` | `[]TypeOK`, `[]GInv` |
| | `RangesCover`, `RangesTight`, `DeletedStays` | `[]TimesCovered`, `[]TimesTight`, `NeverRevived` |
| `AggregationProofs` | `AggregationTypes`, `Leaving` | `[]TypeOK`; `[]LInv` if `InBounds` |
| | `NothingLost` | `AllCaught` if `InBounds` |
| `AggregationProofs` (Buckets) | `TargetAsRebuilt` | `[]AsRebuilt` |
| | `RowsInvariance`, `RowsStayCurrent` | `[]RowsInv`, `[]RowsCurrent`, both if `MaxPause <= BucketsToRecompute` |
| | `GapsAreFound` | `[]GapsFound` if `BucketInterval` is a multiple of `Spacing` |
| `JobsProofs` (JobRegistry) | `RegistryTypes`, `RegistryInvariance` | `[]RegistryTypeOK`, `[]RInv` |
| | `JobsRun`, `OneJob` | `[]AcceptedJobsRun`, `[]OneJobPerPair` |
| `JobsProofs` (ImportJobs) | `ImportJobTypes`, `JobInvariance` | `[]ImportTypeOK`, `[]JobInv` |
| | `UndisturbedComplete`, `MeasurementsStay` | `[]AloneComplete`, `MeasurementsKept` |
| `RecordsProofs` (Accounts) | `AccountTypes`, `AccountInvariance` | `[]AccountTypeOK`, `[]AInv` |
| | `GrantsHold` | `[]GrantsAgree` |
| `ServicesProofs` (MqttBridge) | `BridgeTypes`, `BridgeInvariance` | `[]BridgeTypeOK`, `[]BInv` |
| | `StoredInOrder` | `[]InOrderOnce` |
| `ServicesProofs` (Batches) | `BatchTypesHold`, `BatchInvariance` | `[]BatchTypeOK`, `[]BatchInv` |
| | `Telling` | `[]AnswersTell` |
| `ServicesProofs` (Paging) | `PagesBounded`, `WalksCount` | `[]PagingTypeOK`; `[]WalkMissesOnlyDeletions` if `Untied` |
| `ServicesProofs` (FtpImport) | `FtpTypesHold`, `FtpInvariance` | `[]FtpTypeOK`, `[]FtpInv` |
| | `ArchivedIsCovered` | `[]SentCovered` |
| `RecordsProofs` (EntityImport) | `ImportTypes`, `ImportInvariance` | `[]EntityTypeOK`, `[]EInv` |
| | `AllStored`, `RerunsAreSafe` | `[]EveryItemStored`, `RerunAddsNothing` |
| `RecordsProofs` (Patching) | `PatchTypesHold`, `PatchInvariance` | `[]PatchTypeOK`, `[]PInv` |
| | `AnswersStand`, `PatchesInTurn` | `AnswersHold`; `[]SerialPatches` if `AsStandard` |
| `EntityGraphProofs` | `GraphTypeHolds` | `[]GraphTypeOK` |
| | `NoOrphansHold`, `EveryMoveIsRecorded` | `[]NoOrphans`, `EveryMoveRecorded` |

None of these properties is inductive, and for one reason: they speak of what is
committed or stored, and a commit publishes what a request has built in the steps
before. Each inductive invariant therefore says what open requests know, hold and
are about to publish.

**Versions.** `IInv` adds to `TypeOK`: the start of a request has passed and is its own
(`Starts`); only an open request holds a row, a committed row begins at an instant that is
not the start of an open request (`Rows`); the versions of an entity are disjoint and end
before the row begins, for what is committed and for what the holder would publish
(`Chains`); before the start of the holder, what it would publish answers `$as_of` as what
is committed (`Agrees`). `Settling` follows from `Agrees`: only `Commit` changes an answer,
from its own start on. For `NoGap`, `Strong` adds that both chains have no gap (`Wholes`),
and for the refinement that the open versions alone agree too (`AgreesOpen`, an analogue of
`Agrees` for the abstract store, which knows no deleted versions) and that a transaction
ends every version of an entity by its start unless it has only changed it in place
(`Publishes`). Begin, statements and Abort then map to stutters or to a settling, Commit to
one `Write` of the abstract store.

**Generated FeaturesOfInterest.** `gen_foi_id` has no foreign key. `FInv` says why it
never dangles: identifiers are handed out once (`Fresh`); who created one holds the Location
until it commits (`Kept`); the row being worked on names what is committed, nothing or
what its writer created (`Works`); a DELETE that is past the Location has unlinked it
(`Unlinked`). `StampedOnce` needs that who creates for a single Observation found the
locked row without one (`Locked`). `AreaCovers` is kept although an insert that finds
`last_foi_id` set does not widen the area: `CInv` says that `last_foi_id` is in the area
and that an area being written contains the committed one (`Remembered`), that the
FeatureOfInterest of the Location is in the area too (`CoversNow`: whoever stamped it
widened the area in the same transaction), and what each request may conclude when it skips
the widening, for which it read the Location and the Datastream in different statements
(`Sees`).

**Deadlocks.** `NoDeadlock` is about cycles of waiting requests (`OnCycle`: a path that
comes back), and needs no induction along one: `HInv` says at which statements a request
holds a row. Who holds a Datastream has only its commit, or a row nobody else waits at,
ahead of it, so it waits for nobody; who holds the Location waits for a Datastream at
most, hence only for someone who waits for nobody; and nobody waits for a unique name,
since the POST that inserts one holds the Location (`Locked`), as would the one that has
inserted it and not committed (`Kept`). A chain of waits therefore has at most two edges. The hypotheses are those of the property: one Datastream per request, and
inserts or moves only.

**Ranges.** `GInv`, for inserts and PATCHes of any number of requests: who wrote an
Observation has widened its Datastream when it reaches its commit (`Owned`), a PATCH has
one Observation in hand (`Single`), and a range being written covers the committed one
(`Wider`, which is why the single UPDATE with LEAST and GREATEST is safe without a lock
before it). `SInv`, for requests one after the other: there is one open request (`Sole`),
its own row is not there yet (`Unborn`), and every range is exact in its eyes except those
it has yet to bring up to date, of which it knows how (`Tidy`). That finite sets of instants
have bounds is proved from the finiteness of `Time` by `FiniteBounds`.

**Aggregation.** `AllCaught` is about one run and rests on what the runs before left:
`Caught` says that a version stamped before the cursor of the next job is on the target, and
that an operator's run that could still overwrite it has seen it too; `Late` that what a
snapshot missed began late; `Chosen` that what a job does not recompute is old. The
hypotheses `InBounds` are those of the code's own design: a write and a run together take
no longer than the overlap (`MaxWrite + MaxRun <= Overlap`; `ChangesRecomputed` is the
counterexample without it), no more buckets close between two successes than
`buckets_to_recompute`, and a run ends within that many buckets. The third is for the
first success, which has no predecessor from which the gap could be counted. The instance
of the jobs run satisfies all three.

**Rows of a job.** `RowsCurrent` speaks of the end of a run, `RowsInv` of every state: a
bucket the job manages has the row a computation from scratch gives, or something it
depends on was written since the last success (`Touched`), which is what the change
cursor of the next run asks for; and rows of the job are of buckets that were closed when
it ran (`Founded`). The hypothesis `MaxPause <= BucketsToRecompute` is needed: if more
buckets close between two successes than are recomputed, one whose Observations all came
while it was open, before the last success, is in neither part of the next run (a hazard
in `PROJECT.json`). What a row contains is not opened in this proof, only what it depends
on. `AsRebuilt` is inductive with the domain of `rows`: extent and `last_foi_id` are
carried along, and every case of `Upsert` gives what the set of all rows gives. The rows
were a function on all buckets with an empty value; they are now a function on those that
have one, as the target has no row for the others.

**Gaps.** `GapsFound` is about one bucket, whatever is in it. A number belongs to one
nominal slot, and numbers come in the order of their slots (`SlotOrder`); rounded, the
distance of two numbers is the difference of their slots, since together they are off by
less than half the spacing (`RoundedDistances`). The gaps are then lengths of runs of empty
slots, and the longest run lies between neighbours, so that one gap reaches it
(`GapsAreRuns`); the first and the last gap differ in the two boundary modes, and a bucket
without numbers is a case of its own (`EmptyBucket`). That the bucket is a multiple of the
spacing is needed: otherwise the rounded interval and the number of slots that fit differ.
`src/database/functions.sql:838` refuses only a spacing longer than the bucket.

**Aggregation jobs.** `RInv`: jobs that open transactions have added are counted with the
committed ones; the advisory lock keeps two of one identity apart (`Exclusive`), who adds
has seen no match among the jobs before (`Searched`), ids come from a sequence (`Drawn`,
`Distinct`), and what was accepted is valid for the Datastreams its names meant
(`Accepted`). Two jobs for the same names were added under different locks (`Keyed`).

**Import jobs.** `JobInv`: a run is at a request of its kind of job and has what that
request needs (`Equipped`). A copy nobody disturbed has every source row stored, in hand or
in a chunk ahead of it, and what it is about to send is not there, unless it is an interval
that ends on a later day (`CopyAhead`); for this, the chunks of the plan cover the source, and
the days of a block hold whatever of it starts and ends on one day. A quality control nobody disturbed would read now
what it has read, and what it is about to mark are the grades of now (`GradesAhead`):
grading changes no value, so that grades computed again are the same, which is what "the
second run has nothing to do" rests on.

**Accounts.** `AInv` says of an open request (`Right`) that the row it holds is there, unless
it is about to make it, and that the roles a policy it has changed is to name are there,
since DROP ROLE waits for who has locked them; and that no two hold a row (`Exclusive`).
Nothing is said of what a request has read, since nothing keeps that true: what a stale read
does is in `crossed`.

**Messages.** `BInv`: what has landed came before what the worker has in hand, and that
before all that is in the queue, whose length is bounded (`Landings`, `Queued`, `Counted`);
an id in hand is that of the position (`Aimed`). Where a step advances to the next mapped
position, the proof takes the least one (`LeastNatural`).

**Batches.** `BatchInv`: while a request is open, nothing of it is stored, and the rows it
has written are those at the places it has a link for, with the one whose Datastream it is
about to widen (`Request`); so that every way a row can fail, and every way a transaction
can end, leaves answer and rows in step (`StepInside`, `StepOut`, `OnToNext`). Only an
insert or an update of a Datastream waits, which is why a deadlock never costs a row that
already has its link (`WaitsAreWrites`).

**Pages.** `WalkInv` counts. Of the rows that stayed and lie before the last one given,
those that were not given are no more than the deletions behind the client, even when the
difference between the number of rows before that place and the `$skip` of the next link
is added; and the repetitions no more than the commits behind it, in the same way
(`Accounted`, for what the client has and for what is on its way; `AtEnd` after the last
page). The hypothesis `Untied`, no ties of `$orderby`, is the one of section 4: with ties
PostgreSQL may order the same rows differently for every page.

**FTP import.** `FtpInv`: of the file a run is at every row is safe (stored, or under append
and backfill not after the stored ones, which is all the code asks before it skips one) or in hand (`InHandOrSafe`); in the middle of
single posts the ones sent are there (`Underway`); what a run remembers of the ranges is not
beyond them (`Recalled`), since rows are only added (`Grown`). A batch that is
refused or whose answer is lost leaves its rows in hand, so a file reaches the sent
directory only after each of its rows was safe.

**Entities of import jobs.** `EInv`: what a run is past is there, or someone else had made
what an entity of the item nests (`Passed`); eyeonwater2istsos makes an entity together
with what it nests (`Together`), so that a 409 without a row to be found means that someone
else made it (`MadeElsewhere`); without overlap one run is under way, and what it did not
find when it looked is not there when it POSTs (`Unseen`). The proof
of `RerunAddsNothing` failed for its first statement, "adds nothing": with one start more
than the instance has, a sheet that creates the Datastream eyeonwater2istsos had to skip
lets the next run store the Observations the ended one skipped. The property now says that,
and `EveryItemStored` covers every entity and not only Observations.

**Patches.** `PInv`: a request will write the columns its body names, and the version its
statement found is not later than the committed one (`Asks`), so that finding another one
means the row was re-created, and finding none that it was deleted; the draft of who holds
the row is the committed row with the columns of that request, and nobody else commits
while it is held (`Held`). What the operations of a JSON Patch make of a document is not
opened: that they write only the columns `Referenced` lists is enough. The proof corrected
the model: the end of a request whose statement had found no row put the draft of
another one back, which takes a third request to happen and the instance has two; and it
let `AnswersHold` say what its name promises, that the columns were written.

For `SerialPatches` the proof is about everything around the operations: `Serial` says that
while no two requests have overlapped, the only one at work (`AlonePatch`) has read the row
as it is, and its UPDATE will make of the row what the request makes of the document in
one step. What is left is a statement about documents alone, the hypothesis `AsStandard`: on
the documents that occur, reading the columns a JSON Patch names, applying its operations
in the order of the code and writing these columns back gives what RFC 6902 says. Merges,
PUT, DELETE, refusals and lost connections need no hypothesis.

**Entity graph.** A request is one step here, but it goes through many statements, nested
lists and cascades, and may fail in the middle. `From(g0, open)` is what is true of the
graph within it: rows have the keys of their table and ids that were drawn; unless a
statement failed, every key names a row, and every place that is new since `g0` is said by
a HistoricalLocation inserted since, but for those in `open`, which the next statement
records. One lemma per statement (`InsertStays`, `LinkStays`, `PlaceStays`, `RecordStays`,
`RemoveStays`: the rows that go take with them what the two levels of cascade reach), one
per list of statements, one per endpoint; `GraphInv`, between requests, is
`From(graph, {})`. The lists are folds, recursive functions on sets of positions: that
such a function exists and stays in a set its step does not leave needs no induction
principle, only that a set of numbers has a least one (`LeastNatural`, from the
well-foundedness of `<`): `FoldExists` and `FoldStays`.

**Assumptions** are those stated in the modules on their constants, no others: that "no
row", "no request" and the like are not values of the other kind, that instants are
numbers, that a mapping is one. `EntityImport` assumes of the payloads what the code that builds
them says: an Observation nests nothing, and a water parameter has its own Datastream and
ObservedProperty (`NestedOnce`). The clock of `SystemTime` gives every request an instant
of its own: two transactions that start in the same microsecond are not represented.
PostgreSQL's row locks, snapshots, foreign keys and advisory locks are part of the models
(`MayWrite`, `Blockers`, `Seen*`), not of the proofs. `TimesCovered`, `TimesTight` and
`StampedOnce` carry their conditions (section 5) into the theorems. Some theorems have
hypotheses of their own, which the instances satisfy: `InBounds`, `Untied`,
`MaxPause <= BucketsToRecompute`, that the bucket is a multiple of the spacing, and
`AsStandard` (with `NoRowIsNone`: the mark for "no row" is neither a row nor a document).

**Only model-checked.** Liveness (`Answered`, `SignalHeeded`, `InboxEmptied`,
`BatchesAnswered`) is out of reach of this prover. So are comparisons of two computations by
recursion over data, for which it has no induction: `AnswersAsked` (the SQL of a query, and
the set the URL asks for, expanded level by level), and that the operations of a JSON Patch
are those of RFC 6902 (`AsStandard`, which the records run checks within `SerialPatches` on
its bodies). `RecordsTypeOK`, `JobsTypeOK` and `ServicesTypeOK` are conjunctions of the type
invariants of the components, which are theorems one by one but for `BucketTypeOK` (the
counts and sums of a row).

## 7. Not modelled

- Startup and connection pools, login and tokens: nothing interleaves inside the
  service. The pools are created before the first request is served; a token is looked
  up once per request.
- Lexers and formatting: text to tokens and trees to text, without state. Of the grammar
  of filters only the precedence of "and" and "or" is modelled (`Truth` in `Queries`),
  since `$as_of` trips over it. What `$select` cuts from an answer, the functions of
  `$filter`, and the JSON text are left out.
- Dummy data, notebooks, tutorials, assets.
- In the modelled components: SQL errors other than those named, timeouts (as a lost
  connection), the width of identifiers, the text of names and units. `$as_of` is cut to the
  second before it is compared with microseconds (`sta2rest.py:411`): instants are
  abstract here. `@iot.count` is a statement before the cursor and may disagree with it;
  `Paging` leaves it out. In `Aggregation`
  and `Buckets`: the removal of rows whose source is gone,
  `rebuild_datastream_extent` as an operation, and the functions other than AVG and
  COUNT, which `BucketValue` has but no configuration of the instance uses. In
  `EntityGraph` a request is one step: its concurrency is in the modules about what it
  shares with others (`FeatureOfInterest`, `DatastreamTime`, `SystemTime`, `Patching`).
- Importers of ftp2istsos other than `vulink_varese`, and the mapping of properties in the
  other import jobs.
