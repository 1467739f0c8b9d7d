----------------------------- MODULE MqttBridge -----------------------------
(***************************************************************************)
(* mqtt2istsos: the main thread runs the MQTT client, whose callback puts  *)
(* each message into a bounded queue; a worker thread takes them one by    *)
(* one, resolves the Datastreams of the topic by name and posts one        *)
(* Observation per value.  A signal stops the service: the main thread     *)
(* leaves the loop, waits for the queue, sends the worker a sentinel and   *)
(* waits for it.  The container may be killed at any time.                 *)
(*                                                                         *)
(* One topic is modelled; an id of a Datastream is the name with a         *)
(* generation, since a Datastream may be removed and created again.        *)
(***************************************************************************)
EXTENDS Naturals, Sequences

CONSTANTS
    Name,          \* names of Datastreams
    Mapping,       \* the mapping of the topic: a sequence of names and "skip"
    Payload,       \* the values parsed, each "number", "null" or "text"; <<>>: garbled
    NoId, Idle,    \* no Datastream; the worker has no message
    QueueMax,      \* queue_maxsize
    MaxMessage,    \* bound: messages the broker delivers
    MaxGeneration, \* bound: times a Datastream is created
    MaxSignal      \* bound: signals sent

ASSUME BridgeAssumption ==
    /\ Mapping \in Seq(Name \union {"skip"}) /\ "skip" \notin Name
    /\ Payload \subseteq Seq({"number", "null", "text"})
    /\ QueueMax \in Nat \ {0} /\ MaxMessage \in Nat
    /\ MaxGeneration \in Nat \ {0} /\ MaxSignal \in Nat

VARIABLES
    main,      \* where the main thread is
    online,    \* the MQTT client is connected
    stop,      \* stop_event
    leaving,   \* disconnect was called while the client looped
    heard,     \* history: a signal came that must be heeded
    signals,   \* signals sent so far
    queue,     \* the messages, with the Sentinel last
    accepted,  \* history: how many messages were put into the queue
    received,  \* how many messages the broker delivered
    hand,      \* the worker's message and position, or Idle, or SentinelTaken
    found,     \* the id of the Datastream of the position, between lookup and post
    ids,       \* datastream_ids: the cache of ids
    streams,   \* the generation of each Datastream of the server; 0: there is none
    landed     \* the Observations of the server, in the order they were stored

bridgeVars == <<main, online, stop, leaving, heard, signals, queue, accepted,
                received, hand, found, ids, streams, landed>>

StreamId == Name \X (1 .. MaxGeneration)
Message == [id : 1 .. MaxMessage, values : Payload]

\* None in the queue, and the state of a worker that took it.
Sentinel == [id |-> 0, values |-> <<>>]
SentinelTaken == [message |-> Sentinel, at |-> 0]

BridgeTypeOK ==
    /\ main \in {"test", "connecting", "loop", "sleep", "final", "drain", "sentinel",
                 "flush", "thread", "done", "killed"}
    /\ online \in BOOLEAN /\ stop \in BOOLEAN /\ leaving \in BOOLEAN /\ heard \in BOOLEAN
    /\ signals \in 0 .. MaxSignal
    /\ queue \in Seq(Message \union {Sentinel}) /\ Len(queue) <= QueueMax
    /\ accepted \in 0 .. MaxMessage /\ received \in 0 .. MaxMessage
    /\ hand \in [message : Message, at : 1 .. Len(Mapping)] \union {Idle, SentinelTaken}
    /\ found \in StreamId \union {NoId}
    /\ ids \in [Name -> StreamId \union {NoId}]
    /\ streams \in [Name -> 0 .. MaxGeneration]
    /\ landed \in Seq([message : 1 .. MaxMessage, at : 1 .. Len(Mapping), id : StreamId])

BridgeInit ==
    /\ main = "test" /\ online = FALSE
    /\ stop = FALSE /\ leaving = FALSE /\ heard = FALSE /\ signals = 0
    /\ queue = <<>> /\ accepted = 0 /\ received = 0
    /\ hand = Idle /\ found = NoId
    /\ ids = [n \in Name |-> NoId]
    /\ streams = [n \in Name |-> 1]
    /\ landed = <<>>

-----------------------------------------------------------------------------
(* The main thread: run().                                                 *)

MainOnly == UNCHANGED <<stop, leaving, heard, signals, accepted, received, hand,
                        found, ids, streams, landed>>

Test ==
    /\ main = "test"
    /\ main' = IF stop THEN "final" ELSE "connecting"
    /\ UNCHANGED <<online, queue>> /\ MainOnly

\* connect() raises when the broker cannot be reached; otherwise loop_forever runs.
Connect ==
    /\ main = "connecting"
    /\ \/ main' = "loop" /\ online' = TRUE
       \/ main' = (IF stop THEN "test" ELSE "sleep") /\ UNCHANGED online
    /\ UNCHANGED queue /\ MainOnly

Sleep ==
    /\ main = "sleep"
    /\ main' = "test"
    /\ UNCHANGED <<online, queue>> /\ MainOnly

\* The connection is lost, and made again by the loop.
Reconnect ==
    /\ main = "loop" /\ ~leaving
    /\ online' = ~online
    /\ UNCHANGED <<main, queue>> /\ MainOnly

LeaveLoop ==
    /\ main = "loop" /\ leaving
    /\ main' = "test" /\ online' = FALSE
    /\ UNCHANGED queue /\ MainOnly

\* unfinished_tasks: what join() waits for.
Unfinished == Len(queue) + (IF hand \in {Idle, SentinelTaken} THEN 0 ELSE 1)

\* The finally block: join, put(None), join, thread.join(timeout=5).
Finish ==
    /\ \/ main = "final" /\ main' = "drain" /\ UNCHANGED queue
       \/ main = "drain" /\ Unfinished = 0 /\ main' = "sentinel" /\ UNCHANGED queue
       \/ main = "sentinel" /\ Len(queue) < QueueMax
            /\ main' = "flush" /\ queue' = Append(queue, Sentinel)
       \/ main = "flush" /\ Unfinished = 0 /\ main' = "thread" /\ UNCHANGED queue
       \/ main = "thread" /\ main' = "done" /\ UNCHANGED queue
    /\ UNCHANGED online /\ MainOnly

LeavesNothing == {leaving}

\* disconnect() ends the loop of a connected client; one that is connecting may
\* overwrite the state it leaves.
Leaves ==
    CASE main = "loop" /\ online -> {TRUE}
      [] main = "loop" /\ ~online -> {leaving, TRUE}
      [] OTHER -> {leaving}

\* SIGINT or SIGTERM.  It must be heeded when it comes outside connect() and the loop,
\* when the looping client is connected, and when its disconnect() is not overwritten.
Signal ==
    /\ main \notin {"done", "killed"} /\ signals < MaxSignal
    /\ signals' = signals + 1
    /\ stop' = TRUE
    /\ leaving' \in Leaves
    /\ heard' = (heard \/ (main # "connecting" /\ (main = "loop" => online \/ leaving')))
    /\ UNCHANGED <<main, online, queue, accepted, received, hand, found, ids,
                   streams, landed>>

\* SIGKILL, as a container that does not stop in time gets.
Kill ==
    /\ main \notin {"done", "killed"}
    /\ main' = "killed"
    /\ queue' = <<>> /\ hand' = SentinelTaken /\ found' = NoId /\ online' = FALSE
    /\ UNCHANGED <<stop, leaving, heard, signals, accepted, received, ids, streams, landed>>

-----------------------------------------------------------------------------
(* The callback.                                                           *)

RoomOffByOne == Len(queue) <= QueueMax

\* put_nowait raises Full.
Room == Len(queue) < QueueMax

\* The message is dropped when the queue is full.
OnMessage(values) ==
    /\ main = "loop" /\ online /\ received < MaxMessage
    /\ received' = received + 1
    /\ IF Room
       THEN /\ queue' = Append(queue, [id |-> received + 1, values |-> values])
            /\ accepted' = accepted + 1
       ELSE UNCHANGED <<queue, accepted>>
    /\ UNCHANGED <<main, online, stop, leaving, heard, signals, hand, found, ids,
                   streams, landed>>

-----------------------------------------------------------------------------
(* The worker.                                                             *)

WorkerOnly == UNCHANGED <<main, online, stop, leaving, heard, signals, accepted,
                          received, streams>>

\* zip: the positions of both the mapping and the values.
Positions(message) ==
    {p \in 1 .. Len(Mapping) : p <= Len(message.values)}

\* The Datastream a value belongs to.
Target(p) == Mapping[p]

\* The values that are posted: a text that is no number and a skipped position are not.
Posted(message) ==
    {p \in Positions(message) : Target(p) # "skip" /\ message.values[p] # "text"}

PostedAfter(message, after) == {p \in Posted(message) : p > after}

Earliest(ps) == CHOOSE p \in ps : \A q \in ps : p <= q

\* The worker goes on after a position, or is ready for another message.
Advance(message, after) ==
    hand' = IF PostedAfter(message, after) = {} THEN Idle
            ELSE [message |-> message, at |-> Earliest(PostedAfter(message, after))]

Take ==
    /\ hand = Idle /\ queue # <<>>
    /\ queue' = Tail(queue)
    /\ IF Head(queue) = Sentinel THEN hand' = SentinelTaken ELSE Advance(Head(queue), 0)
    /\ UNCHANGED <<found, ids, landed>> /\ WorkerOnly

\* datastream_id: from the cache, or by a query that may fail or find nothing.
Resolve ==
    /\ hand \notin {Idle, SentinelTaken} /\ found = NoId
    /\ LET name == Target(hand.at) IN
       \/ /\ ids[name] # NoId
          /\ found' = ids[name] /\ UNCHANGED <<ids, hand>>
       \/ /\ ids[name] = NoId /\ streams[name] # 0
          /\ found' = <<name, streams[name]>>
          /\ ids' = [ids EXCEPT ![name] = <<name, streams[name]>>]
          /\ UNCHANGED hand
       \/ /\ ids[name] = NoId
          /\ Advance(hand.message, hand.at) /\ UNCHANGED <<found, ids>>
    /\ UNCHANGED <<queue, landed>> /\ WorkerOnly

AdvanceUnlessLost(answered) ==
    IF answered THEN Advance(hand.message, hand.at) ELSE UNCHANGED hand

\* A failed post is logged and not repeated.
AfterPost(answered) == Advance(hand.message, hand.at)

\* The post is stored and answered, or stored with the answer lost, or fails: the
\* server refuses an id that is gone.
Post ==
    /\ found # NoId
    /\ \E answered \in BOOLEAN :
         /\ \/ /\ found[2] = streams[found[1]]
               /\ landed' = Append(landed, [message |-> hand.message.id, at |-> hand.at,
                                            id |-> found])
            \/ UNCHANGED landed /\ ~answered
         /\ AfterPost(answered)
    /\ found' = NoId
    /\ UNCHANGED <<queue, ids>> /\ WorkerOnly

\* Somebody removes a Datastream, or creates it again.
ReplaceStream(name) ==
    /\ \/ streams[name] # 0 /\ streams' = [streams EXCEPT ![name] = 0]
       \/ /\ streams[name] = 0 /\ MaxGeneration > 1
          /\ streams' = [streams EXCEPT ![name] = MaxGeneration]
    /\ UNCHANGED <<main, online, stop, leaving, heard, signals, queue, accepted,
                   received, hand, found, ids, landed>>

-----------------------------------------------------------------------------

BridgeMain == Test \/ Connect \/ Sleep \/ LeaveLoop \/ Finish
BridgeWorker == Take \/ Resolve \/ Post

BridgeNext ==
    \/ BridgeMain \/ BridgeWorker
    \/ Reconnect \/ Signal \/ Kill
    \/ \E values \in Payload : OnMessage(values)
    \/ \E name \in Name : ReplaceStream(name)

\* Both threads run; the client's calls have timeouts.  Nothing has to arrive.
BridgeFairness == WF_bridgeVars(BridgeMain) /\ WF_bridgeVars(BridgeWorker)

BridgeSpec == BridgeInit /\ [][BridgeNext]_bridgeVars /\ BridgeFairness

-----------------------------------------------------------------------------
(* Properties.                                                             *)

\* A value is stored in the Datastream its position is mapped to, whatever values
\* before it were skipped, missing or refused; the values of a position are stored in
\* the order their messages arrived, and none twice: a lost answer is not followed by
\* another post.
InOrderOnce ==
    /\ \A i \in DOMAIN landed : landed[i].id[1] = Mapping[landed[i].at]
    /\ \A i, j \in DOMAIN landed :
           i < j /\ landed[i].at = landed[j].at => landed[i].message < landed[j].message

\* A signal ends the service, which, unless it is killed, leaves nothing it had accepted
\* unhandled.  Two signals need not, and the service may go on for ever after them: one
\* between the test of the stop event and the loop (mqtt2istsos.py:637-649), and one in the
\* loop while the client is offline and connects again, which may undo the disconnect().
SignalHeeded ==
    heard ~> \/ main = "killed"
             \/ main = "done" /\ queue = <<>> /\ hand = SentinelTaken
=============================================================================
