---------------------------- MODULE MCServices ------------------------------
(* The services around the API and its answers, side by side: "part" says  *)
(* whose steps a behaviour takes, the others rest.                         *)
EXTENDS MqttBridge, MCFtpImport, Paging, MCQueries, Batches

(* MqttBridge: a topic whose middle value is skipped.                      *)
MCMapping == <<"A", "skip", "B">>
MCPayload ==
    {<<"number", "number", "number">>, <<"text", "null", "number", "number">>, <<>>}

(* Paging: the order of the ids.                                           *)
MCOrderKey == [i \in 1 .. MaxId |-> i]

(* Batches: no rows, rows of one and of two Datastreams, in both orders.    *)
Item(n, s, t, says) == [set |-> n, series |-> s, time |-> t, says |-> says]
ItemLists ==
  {<<>>,
   <<Item(1, "x", 1, "good"), Item(2, "y", 1, "good")>>,
   <<Item(1, "y", 1, "good"), Item(2, "x", 1, "good")>>,
   <<Item(1, "x", 1, "good"), Item(1, "x", 2, "bad"), Item(1, "x", 2, "good")>>,
   <<Item(1, "x", 2, "good"), Item(1, "x", 1, "good")>>,
   <<Item(1, "x", 1, "good"), Item(1, "x", 1, "good"), Item(2, "y", 2, "invalid"), Item(3, "y", 1, "good")>>,
   <<Item(1, "y", 2, "good"), Item(2, "x", 1, "denied"), Item(2, "x", 2, "good")>>}
MCShape == {[kind |-> k, items |-> s] : k \in {"data", "bulk"}, s \in ItemLists}

VARIABLE part

ServicesVars == <<part, bridgeVars, ftpVars, pagingVars, queryVars, batchVars>>

\* The initial state of a component whose turn it is not.
ServicesInit ==
    /\ part \in {"mqtt", "ftp", "paging", "queries", "batches"}
    /\ BridgeInit
    /\ FtpInit /\ (part # "ftp" => policy = "append")
    /\ PagingInit /\ (part # "paging" => walk.top = 0)
    /\ IF part = "queries" THEN QueryInit
       ELSE /\ db = StoreA /\ request = CHOOSE r \in Requests : TRUE
            /\ answer = NoAnswer /\ rest = NoRest
    /\ BatchInit

ServicesNext ==
    /\ UNCHANGED part
    /\ \/ part = "mqtt" /\ BridgeNext
          /\ UNCHANGED <<ftpVars, pagingVars, queryVars, batchVars>>
       \/ part = "ftp" /\ FtpNext
          /\ UNCHANGED <<bridgeVars, pagingVars, queryVars, batchVars>>
       \/ part = "paging" /\ PagingNext
          /\ UNCHANGED <<bridgeVars, ftpVars, queryVars, batchVars>>
       \/ part = "queries" /\ QueryNext
          /\ UNCHANGED <<bridgeVars, ftpVars, pagingVars, batchVars>>
       \/ part = "batches" /\ BatchNext
          /\ UNCHANGED <<bridgeVars, ftpVars, pagingVars, queryVars>>

\* The fairness of each component, while it is its turn.
ServicesFairness ==
    /\ WF_bridgeVars(part = "mqtt" /\ BridgeMain) /\ WF_bridgeVars(part = "mqtt" /\ BridgeWorker)
    /\ \A r \in Run : /\ WF_ftpVars(part = "ftp" /\ RunStep(r))
                       /\ WF_ftpVars(part = "ftp" /\ Start(r))
    /\ \A b \in Upload : WF_batchVars(part = "batches" /\ BatchStep(b))

\* The variables of every component keep their types: the queue of the MQTT bridge its
\* bound, the FTP import its cached ranges, a page no more rows than $top asks for, a
\* batch one link for each row it has dealt with, in the order of its rows.
ServicesTypeOK == BridgeTypeOK /\ FtpTypeOK /\ PagingTypeOK /\ BatchTypeOK

ServicesSpec == ServicesInit /\ [][ServicesNext]_ServicesVars /\ ServicesFairness
=============================================================================
