------------------------------- MODULE Batches -------------------------------
(***************************************************************************)
(* POST /CreateObservations (the Data Array extension) and POST            *)
(* /BulkObservations: several Observations of several Datastreams in one   *)
(* request, which is one transaction.                                      *)
(*                                                                         *)
(* CreateObservations writes row by row, each in a savepoint, and answers  *)
(* a link or "error" for each; a set that is not valid, or a row the user  *)
(* may not write, ends the request from inside the transaction, which      *)
(* commits.  BulkObservations writes a set in one statement and fails as a *)
(* whole.  (The FeatureOfInterest of the rows is in FeatureOfInterest.)    *)
(***************************************************************************)
EXTENDS Naturals, Sequences, FiniteSets

CONSTANTS
    Upload,   \* requests
    Shape,    \* their bodies
    Series,   \* Datastreams
    RowTime,  \* phenomenon times
    Unique,   \* DUPLICATES=0: one Observation of a Datastream at an instant
    NoBatch

\* An item is a row of a set; "invalid" stands for a set that misses a property.
BatchItem == [set : Nat, series : Series, time : RowTime, says : {"good", "bad", "denied", "invalid"}]

ASSUME ShapeAssumption ==
    /\ Shape \subseteq [kind : {"data", "bulk"}, items : Seq(BatchItem)]
    /\ Unique \in BOOLEAN

VARIABLES
    storedRows,       \* the committed rows: whose, at which position of the request
    batch,       \* batch[b]: what request b is doing
    seriesLock   \* seriesLock[s]: the open request that widened the range of s

batchVars == <<storedRows, batch, seriesLock>>

TableRow == [series : Series, time : RowTime, by : Upload, at : Nat]
Settled == {"created", "refused", "failed"}

\* at: the item at hand; work: the rows written; links: the answers for the items.
Unsent == [pc |-> "unsent", kind |-> "data", items |-> <<>>, at |-> 1, work |-> {},
           links |-> <<>>]

BatchInit ==
    /\ storedRows = {}
    /\ batch = [b \in Upload |-> Unsent]
    /\ seriesLock = [s \in Series |-> NoBatch]

-----------------------------------------------------------------------------

Sent == {b \in Upload : batch[b].pc \notin Settled \union {"unsent"}}
Here(b) == batch[b].items[batch[b].at]

\* The set of the item at hand, and whether that is its first or its last item.
SetOf(b) == {i \in DOMAIN batch[b].items : batch[b].items[i].set = Here(b).set}
FirstOfSet(b) == \A i \in SetOf(b) : batch[b].at <= i
LastOfSet(b) == \A i \in SetOf(b) : i <= batch[b].at

SameKey(row, item) == row.series = item.series /\ row.time = item.time
Taken(b) == Unique /\ \E row \in storedRows \union batch[b].work : SameKey(row, Here(b))

\* An insert waits for the transaction that has inserted the same key, an update of the
\* Datastream for the one that has updated it.
Blockers(b) ==
    CASE batch[b].pc = "insert" ->
           IF Unique
           THEN {c \in Sent \ {b} : \E row \in batch[c].work : SameKey(row, Here(b))} ELSE {}
      [] batch[b].pc = "widen" -> {seriesLock[Here(b).series]} \ {NoBatch, b}
      [] OTHER -> {}

\* The end of the transaction.
EndBatch(b, how, rows) ==
    /\ storedRows' = storedRows \union rows
    /\ batch' = [batch EXCEPT ![b].pc = how, ![b].work = {}]
    /\ seriesLock' = [s \in Series |-> IF seriesLock[s] = b THEN NoBatch ELSE seriesLock[s]]

RollBack(b) == EndBatch(b, "failed", {})
CommitAs(b, how) == EndBatch(b, how, batch[b].work)

\* On to the next item.
NextItem(q, link) ==
    [q EXCEPT !.links = Append(@, link), !.at = @ + 1,
              !.pc = IF q.at = Len(q.items) THEN "commit" ELSE "next"]

SendBatch(b) ==
    /\ batch[b].pc = "unsent"
    /\ \E s \in Shape :
         batch' = [batch EXCEPT ![b] = [Unsent EXCEPT !.kind = s.kind, !.items = s.items,
                                    !.pc = IF s.items = <<>> THEN "commit" ELSE "next"]]
    /\ UNCHANGED <<storedRows, seriesLock>>

\* A Data Array converts a row, and sees that the user may not write it, one by one;
\* a bulk insert converts the rows of a set before it writes one.
Open(b) ==
    LET q == batch[b] IN
    /\ q.pc = "next"
    /\ IF q.kind = "data"
       THEN CASE Here(b).says \in {"invalid", "denied"} -> CommitAs(b, "refused")
              [] Here(b).says = "bad" ->
                    /\ batch' = [batch EXCEPT ![b] = NextItem(q, "error")]
                    /\ UNCHANGED <<storedRows, seriesLock>>
              [] OTHER ->
                    /\ batch' = [batch EXCEPT ![b].pc = "insert"]
                    /\ UNCHANGED <<storedRows, seriesLock>>
       ELSE IF FirstOfSet(b) /\ \E i \in SetOf(b) : q.items[i].says # "good"
            THEN RollBack(b)
            ELSE /\ batch' = [batch EXCEPT ![b].pc = "insert"]
                 /\ UNCHANGED <<storedRows, seriesLock>>

RowHere(b) == [series |-> Here(b).series, time |-> Here(b).time, by |-> b, at |-> batch[b].at]

RowFailsAgain(b) ==
    LET q == batch[b] IN
    IF q.kind = "bulk" THEN RollBack(b)
    ELSE /\ batch' = [batch EXCEPT ![b] = [q EXCEPT !.work = {r \in @ : r.at # q.at},
                                                    !.pc = "next"]]
         /\ UNCHANGED <<storedRows, seriesLock>>

RowFailsKept(b) ==
    LET q == batch[b] IN
    IF q.kind = "bulk" THEN RollBack(b)
    ELSE /\ batch' = [batch EXCEPT ![b] = NextItem(q, "error")]
         /\ UNCHANGED <<storedRows, seriesLock>>

\* An error inside a row: the savepoint of a Data Array row is rolled back.
RowFails(b) ==
    LET q == batch[b] IN
    IF q.kind = "bulk" THEN RollBack(b)
    ELSE /\ batch' = [batch EXCEPT ![b] =
                        [NextItem(q, "error") EXCEPT !.work = {r \in @ : r.at # q.at}]]
         /\ UNCHANGED <<storedRows, seriesLock>>

\* The row is inserted; a Data Array then updates the Datastream, a bulk insert does so
\* once per set.
InsertRow(b) ==
    LET q == batch[b] IN
    /\ q.pc = "insert" /\ Blockers(b) = {}
    /\ IF Taken(b) THEN RowFails(b)
       ELSE /\ batch' = [batch EXCEPT ![b] =
                 IF q.kind = "data" \/ LastOfSet(b)
                 THEN [q EXCEPT !.work = @ \union {RowHere(b)}, !.pc = "widen"]
                 ELSE [NextItem(q, "link") EXCEPT !.work = @ \union {RowHere(b)}]]
            /\ UNCHANGED <<storedRows, seriesLock>>

\* update_datastream_time_ranges: the Datastream stays locked until the end.
WidenSeries(b) ==
    /\ batch[b].pc = "widen" /\ Blockers(b) = {}
    /\ seriesLock' = [seriesLock EXCEPT ![Here(b).series] = b]
    /\ batch' = [batch EXCEPT ![b] = NextItem(@, "link")]
    /\ UNCHANGED storedRows

CommitBatch(b) == batch[b].pc = "commit" /\ CommitAs(b, "created")

\* The deadlock detector lets one statement of a cycle fail.
InCycle(b) ==
    \E path \in UNION {[1 .. n -> Sent] : n \in 2 .. Cardinality(Sent)} :
        /\ path[1] = b /\ b \in Blockers(path[Len(path)])
        /\ \A i \in 1 .. Len(path) - 1 : path[i + 1] \in Blockers(path[i])

BreakBatchDeadlock(b) ==
    /\ b \in Sent /\ InCycle(b)
    /\ RowFails(b)

\* The connection or the process dies.
LoseBatch(b) == b \in Sent /\ RollBack(b)

BatchStep(b) ==
    Open(b) \/ InsertRow(b) \/ WidenSeries(b) \/ CommitBatch(b) \/ BreakBatchDeadlock(b)

BatchNext == \E b \in Upload : SendBatch(b) \/ BatchStep(b) \/ LoseBatch(b)

BatchSpec == BatchInit /\ [][BatchNext]_batchVars /\ \A b \in Upload : WF_batchVars(BatchStep(b))

-----------------------------------------------------------------------------
(* Properties.                                                             *)

BatchTypeOK ==
    /\ storedRows \subseteq TableRow
    /\ \A b \in Upload :
          LET q == batch[b] IN
          /\ q.pc \in Settled \union {"unsent", "next", "insert", "widen", "commit"}
          /\ q.work \subseteq TableRow
          /\ q.at \in 1 .. Len(q.items) + 1 /\ Len(q.links) = q.at - 1
          /\ q.pc \in {"next", "insert", "widen"} => q.at <= Len(q.items)
    /\ \A s \in Series : seriesLock[s] \in Sent \union {NoBatch}

RowsOf(b) == {row \in storedRows : row.by = b}

\* The answer tells what is stored.  That of CreateObservations does so row by row: a
\* link for exactly the rows that are stored, at their position, whichever rows failed,
\* waited for another request or were the victim of a deadlock, and one that was refused
\* half way has stored the good rows before that place and no other.  BulkObservations
\* stores everything or nothing.
AnswersTell ==
    \A b \in Upload :
        {row.at : row \in RowsOf(b)} =
            IF batch[b].pc = "created" \/ (batch[b].kind = "data" /\ batch[b].pc = "refused")
            THEN {i \in DOMAIN batch[b].links : batch[b].links[i] = "link"} ELSE {}

\* Every request is answered, also when requests lock the Datastreams or the instants
\* they write in opposite orders.
BatchesAnswered == \A b \in Upload : batch[b].pc = "next" ~> batch[b].pc \in Settled
=============================================================================
