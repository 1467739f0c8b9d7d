--------------------------- MODULE ServicesProofs ----------------------------
(***************************************************************************)
(* Theorems about four of the services side by side in MCServices.         *)
(*                                                                         *)
(* MqttBridge: the types, and that values are stored in the Datastreams    *)
(* they belong to, in the order they arrived, and once.  InOrderOnce is    *)
(* about what the server has; it holds because messages keep their order   *)
(* on the way: what is stored came before what the worker has in hand, and *)
(* that before all that is in the queue (BInv).                            *)
(*                                                                         *)
(* Batches: the types, and that the answer of a request names exactly the  *)
(* rows that are stored.  AnswersTell is about requests that have ended;   *)
(* it holds because the rows an open request has written are, at every     *)
(* moment, those it has a link for and the one whose Datastream it is      *)
(* about to widen (BatchInv).                                              *)
(*                                                                         *)
(* Paging: the types, and that a walk misses and repeats no more entities  *)
(* than were deleted and committed behind the client.  The invariant keeps *)
(* an account of what was given and where the next page begins: the rows   *)
(* that are behind the client, as against those that were skipped, are     *)
(* fewer by the deletions and more by the commits (Accounted, WalkInv).    *)
(*                                                                         *)
(* FtpImport: the types, and that the sent directory holds only files      *)
(* whose rows are stored or not after the stored ones.  The invariant says *)
(* that a run has in hand what is not safe yet of the file it is at        *)
(* (InHandOrSafe, Underway) and remembers no range beyond the table's      *)
(* (Recalled).                                                             *)
(***************************************************************************)
EXTENDS MqttBridge, FtpImport, Batches, Paging, FiniteSetTheorems, SequenceTheorems, WellFoundedInduction,
        TLAPS

-----------------------------------------------------------------------------
(* MqttBridge.                                                             *)

Busy == hand \notin {Idle, SentinelTaken}

\* The worker has a position that is mapped, and an id only while it has.
Aimed ==
    /\ Busy => Mapping[hand.at] # "skip"
    /\ found # NoId => Busy /\ found[1] = Mapping[hand.at]
    /\ \A n \in Name : ids[n] # NoId => ids[n][1] = n

\* What was stored arrived in that order, and before what the worker has in hand.
Landings ==
    /\ \A i \in DOMAIN landed : landed[i].id[1] = Mapping[landed[i].at]
    /\ \A i, j \in DOMAIN landed :
           i < j /\ landed[i].at = landed[j].at => landed[i].message < landed[j].message
    /\ Busy => \A i \in DOMAIN landed :
           \/ landed[i].message < hand.message.id
           \/ landed[i].message = hand.message.id /\ landed[i].at < hand.at

\* ... and that arrived before what is in the queue.
Queued ==
    \A k \in DOMAIN queue : queue[k] # Sentinel =>
        /\ queue[k].id <= received
        /\ Busy => hand.message.id < queue[k].id
        /\ \A i \in DOMAIN landed : landed[i].message < queue[k].id
        /\ \A l \in DOMAIN queue : l < k /\ queue[l] # Sentinel => queue[l].id < queue[k].id

\* ... all of which was received.
Counted ==
    /\ accepted <= received
    /\ Busy => hand.message.id <= received
    /\ \A i \in DOMAIN landed : landed[i].message <= received

BInv == BridgeTypeOK /\ Aimed /\ Landings /\ Queued /\ Counted

-----------------------------------------------------------------------------
(* Positions.                                                              *)

\* A set of numbers that is not empty has a smallest one: < is well-founded.
LEMMA LeastNatural ==
    ASSUME NEW S \in SUBSET Nat, S # {}
    PROVE  \E x \in S : \A y \in S : x <= y
  <1> DEFINE R == {ss \in Nat \X Nat : ss[1] < ss[2]}
  <1>1. IsWellFoundedOn(R, Nat)
    BY NatLessThanWellFounded DEF OpToRel
  <1> HIDE DEF R
  <1>2. PICK x \in S : \A y \in S : ~(<<y, x>> \in R)
    BY <1>1, WFMin
  <1>3. \A y \in S : ~(y < x)
    BY <1>2 DEF R
  <1> QED BY <1>3

\* The greatest of a set of numbers that has a bound.
LEMMA MaxIs ==
    ASSUME NEW n \in Nat, NEW S \in SUBSET 0..n, S # {}
    PROVE  Max(S) \in S /\ \A x \in S : x <= Max(S)
  <1> DEFINE R == {k \in Nat : \E x \in S : k = n - x}
  <1>1. PICK s \in S : TRUE
    OBVIOUS
  <1>2. n - s \in R
    BY <1>1
  <1>3. PICK m \in R : \A k \in R : m <= k
    BY <1>2, LeastNatural
  <1>4. PICK x \in S : m = n - x
    BY <1>3
  <1>5. ASSUME NEW u \in S PROVE x >= u
    <2>1. n - u \in R
      OBVIOUS
    <2>2. m <= n - u
      BY <1>3, <2>1
    <2> HIDE DEF R
    <2> QED BY <1>4, <2>2
  <1>6. \E y \in S : \A u \in S : y >= u
    BY <1>5
  <1>7. Max(S) \in S /\ \A u \in S : Max(S) >= u
    BY <1>6 DEF Max
  <1>8. Max(S) \in Int /\ \A u \in S : u \in Int
    <2>1. \A u \in S : u \in Int
      OBVIOUS
    <2> HIDE DEF R
    <2> QED BY <1>7, <2>1
  <1> HIDE DEF R
  <1>9. \A u \in S : u <= Max(S)
    BY <1>7, <1>8
  <1> QED BY <1>7, <1>9

\* The worker goes on to a later position that is mapped to a Datastream, or rests.
LEMMA Advanced ==
    ASSUME NEW message \in Message, NEW after \in Nat, Advance(message, after)
    PROVE  \/ hand' = Idle
           \/ /\ hand' \in [message : Message, at : 1 .. Len(Mapping)]
              /\ hand'.message = message /\ after < hand'.at /\ Mapping[hand'.at] # "skip"
  <1> DEFINE ps == PostedAfter(message, after)
  <1>1. ps \in SUBSET Nat
    BY BridgeAssumption DEF PostedAfter, Posted, Positions
  <1>2. ASSUME ps # {}
        PROVE  Earliest(ps) \in ps
    BY <1>1, <1>2, LeastNatural DEF Earliest
  <1>3. \A p \in ps : p \in 1 .. Len(Mapping) /\ after < p /\ Mapping[p] # "skip"
    BY BridgeAssumption DEF PostedAfter, Posted, Positions, Target
  <1> HIDE DEF ps
  <1>4. hand' = IF ps = {} THEN Idle ELSE [message |-> message, at |-> Earliest(ps)]
    BY DEF Advance, ps
  <1> QED BY <1>2, <1>3, <1>4

\* What the worker has in hand, when it is busy.
LEMMA InHand ==
    ASSUME BridgeTypeOK, Aimed, Busy
    PROVE  /\ hand.message \in Message /\ hand.at \in 1 .. Len(Mapping) /\ hand.at \in Nat
           /\ Target(hand.at) \in Name /\ Target(hand.at) = Mapping[hand.at]
           /\ hand \notin {Idle, SentinelTaken}
  <1>1. hand \in [message : Message, at : 1 .. Len(Mapping)]
    BY DEF BridgeTypeOK, Busy
  <1>2. Mapping[hand.at] \in Name \union {"skip"}
    BY <1>1, BridgeAssumption
  <1> QED BY <1>1, <1>2, BridgeAssumption DEF Aimed, Target, Busy

\* What has landed.
LEMMA Landed ==
    ASSUME BridgeTypeOK, NEW i \in DOMAIN landed
    PROVE  /\ landed[i].message \in Nat /\ landed[i].at \in Nat
           /\ landed[i] \in [message : 1 .. MaxMessage, at : 1 .. Len(Mapping), id : StreamId]
  <1> DEFINE S == [message : 1 .. MaxMessage, at : 1 .. Len(Mapping), id : StreamId]
  <1>1. landed \in Seq(S)
    BY DEF BridgeTypeOK
  <1> HIDE DEF S
  <1>2. landed[i] \in S
    BY <1>1
  <1> QED BY <1>2, BridgeAssumption DEF S

-----------------------------------------------------------------------------
(* Steps.                                                                  *)

\* The main thread, signals and Datastreams that come and go leave messages alone.
LEMMA QuietStep ==
    ASSUME BInv, UNCHANGED <<queue, hand, found, ids, landed, received, accepted>>
    PROVE  Aimed' /\ Landings' /\ Queued' /\ Counted'
  BY DEF BInv, Aimed, Landings, Queued, Counted, Busy

\* The main thread puts the sentinel into the queue.
LEMMA FinishStep ==
    ASSUME BInv, Finish
    PROVE  BInv'
  <1>1. CASE queue' = queue
    <2>1. BridgeTypeOK'
      BY <1>1 DEF Finish, MainOnly, BInv, BridgeTypeOK
    <2> QED BY <1>1, <2>1, QuietStep DEF Finish, MainOnly, BInv
  <1>2. CASE main = "sentinel" /\ queue' = Append(queue, Sentinel) /\ Len(queue) < QueueMax
    <2>1. /\ queue' \in Seq(Message \union {Sentinel}) /\ Len(queue') = Len(queue) + 1
          /\ \A k \in DOMAIN queue' : \/ k \in DOMAIN queue /\ queue'[k] = queue[k]
                                      \/ queue'[k] = Sentinel
      BY <1>2 DEF BInv, BridgeTypeOK
    <2>2. BridgeTypeOK'
      BY <1>2, <2>1, BridgeAssumption DEF Finish, MainOnly, BInv, BridgeTypeOK
    <2>3. Aimed' /\ Landings' /\ Counted'
      BY <1>2 DEF Finish, MainOnly, BInv, Aimed, Landings, Counted, Busy
    <2>4. Queued'
      BY <2>1 DEF Finish, MainOnly, BInv, Queued, Busy
    <2> QED BY <2>2, <2>3, <2>4 DEF BInv
  <1> QED BY <1>1, <1>2 DEF Finish

\* A message arrives, and is dropped when the queue is full.
LEMMA MessageStep ==
    ASSUME BInv, NEW values \in Payload, OnMessage(values)
    PROVE  BInv'
  <1> DEFINE message == [id |-> received + 1, values |-> values]
  <1>0. /\ received \in 0 .. MaxMessage /\ accepted \in 0 .. MaxMessage /\ received < MaxMessage
        /\ MaxMessage \in Nat /\ received' = received + 1 /\ received' \in 0 .. MaxMessage
        /\ UNCHANGED <<main, online, stop, leaving, heard, signals, hand, found, ids, streams, landed>>
    BY BridgeAssumption DEF OnMessage, BInv, BridgeTypeOK
  <1>1. message \in Message
    BY <1>0 DEF Message
  <1>2. Aimed' /\ Landings'
    BY <1>0 DEF BInv, Aimed, Landings, Busy
  <1>3. CASE ~Room
    <2>1. queue' = queue /\ accepted' = accepted
      BY <1>3 DEF OnMessage
    <2>2. BridgeTypeOK'
      BY <1>0, <2>1 DEF BInv, BridgeTypeOK
    <2>3. Queued'
      BY <1>0, <2>1 DEF BInv, BridgeTypeOK, Queued, Busy, Message
    <2>4. Counted'
      <3>1. Busy => hand.message.id \in Nat /\ hand.message.id <= received
        BY InHand DEF BInv, Counted, Message
      <3>2. \A i \in DOMAIN landed : landed[i].message \in Nat /\ landed[i].message <= received
        BY Landed DEF BInv, Counted
      <3> QED BY <1>0, <2>1, <3>1, <3>2 DEF BInv, Counted, Busy
    <2> QED BY <1>2, <2>2, <2>3, <2>4 DEF BInv
  <1>4. CASE Room
    <2>1. queue' = Append(queue, message) /\ accepted' = accepted + 1 /\ Len(queue) < QueueMax
      BY <1>4 DEF OnMessage, Room
    <2> HIDE DEF message
    <2>2. /\ queue' \in Seq(Message \union {Sentinel}) /\ Len(queue') = Len(queue) + 1
          /\ DOMAIN queue' = 1 .. Len(queue) + 1 /\ DOMAIN queue = 1 .. Len(queue) /\ Len(queue) \in Nat
          /\ \A k \in DOMAIN queue : queue'[k] = queue[k]
          /\ queue'[Len(queue) + 1] = message
      BY <1>1, <2>1 DEF BInv, BridgeTypeOK
    <2>3. BridgeTypeOK'
      <3>1. accepted' \in 0 .. MaxMessage /\ Len(queue') <= QueueMax
        BY <1>0, <2>1, <2>2, BridgeAssumption DEF BInv, Counted
      <3> QED BY <1>0, <2>2, <3>1 DEF BInv, BridgeTypeOK
    <2>4. Counted'
      <3>1. Busy => hand.message.id \in Nat /\ hand.message.id <= received
        BY InHand DEF BInv, Counted, Message
      <3>2. \A i \in DOMAIN landed : landed[i].message \in Nat /\ landed[i].message <= received
        BY Landed DEF BInv, Counted
      <3> QED BY <1>0, <2>1, <3>1, <3>2 DEF BInv, Counted, Busy
    <2>5. Queued'
      <3> SUFFICES ASSUME NEW k \in DOMAIN queue', queue'[k] # Sentinel
                   PROVE  /\ queue'[k].id <= received'
                          /\ Busy => hand.message.id < queue'[k].id
                          /\ \A i \in DOMAIN landed : landed[i].message < queue'[k].id
                          /\ \A l \in DOMAIN queue' : l < k /\ queue'[l] # Sentinel =>
                                 queue'[l].id < queue'[k].id
        BY <1>0 DEF Queued, Busy
      <3>1. CASE k \in DOMAIN queue
        <4>1. /\ queue[k] # Sentinel /\ queue[k] \in Message
              /\ \A l \in DOMAIN queue' : l < k => l \in DOMAIN queue /\ queue'[l] = queue[l]
          BY <2>2, <3>1 DEF BInv, BridgeTypeOK
        <4> QED BY <1>0, <2>2, <3>1, <4>1 DEF BInv, Queued, Message
      <3>2. CASE k = Len(queue) + 1
        <4>1. queue'[k].id = received + 1
          BY <2>2, <3>2 DEF message
        <4>2. Busy => hand.message.id \in Nat /\ hand.message.id <= received
          BY InHand DEF BInv, Counted, Message
        <4>3. \A i \in DOMAIN landed : landed[i].message \in Nat /\ landed[i].message <= received
          BY Landed DEF BInv, Counted
        <4>4. \A l \in DOMAIN queue : queue[l] # Sentinel =>
                 queue[l].id \in Nat /\ queue[l].id <= received
          BY DEF BInv, BridgeTypeOK, Queued, Message
        <4> QED BY <1>0, <2>2, <3>2, <4>1, <4>2, <4>3, <4>4
      <3> QED BY <2>2, <3>1, <3>2
    <2> QED BY <1>2, <2>3, <2>4, <2>5 DEF BInv
  <1> QED BY <1>3, <1>4

\* The worker takes a message from the queue, or the sentinel.
LEMMA TakeStep ==
    ASSUME BInv, Take
    PROVE  BInv'
  <1>0. /\ queue \in Seq(Message \union {Sentinel}) /\ queue # <<>> /\ hand = Idle
        /\ queue' = Tail(queue) /\ UNCHANGED <<found, ids, landed>> /\ WorkerOnly
        /\ ~Busy
    BY DEF Take, BInv, BridgeTypeOK, Busy
  <1>1. /\ queue' \in Seq(Message \union {Sentinel}) /\ Len(queue') = Len(queue) - 1
        /\ Len(queue) \in Nat \ {0} /\ DOMAIN queue = 1 .. Len(queue)
        /\ DOMAIN queue' = 1 .. (Len(queue) - 1)
        /\ \A k \in DOMAIN queue' : k + 1 \in DOMAIN queue /\ queue'[k] = queue[k + 1]
        /\ Head(queue) = queue[1] /\ 1 \in DOMAIN queue
    BY <1>0
  <1>2. CASE Head(queue) = Sentinel
    <2>1. hand' = SentinelTaken
      BY <1>2 DEF Take
    <2>2. ~Busy'
      BY <2>1 DEF Busy
    <2>3. BridgeTypeOK'
      BY <1>0, <1>1, <2>1, BridgeAssumption DEF WorkerOnly, BInv, BridgeTypeOK
    <2>4. Aimed' /\ Landings' /\ Counted'
      BY <1>0, <2>2 DEF WorkerOnly, BInv, Aimed, Landings, Counted
    <2>5. Queued'
      BY <1>0, <1>1, <2>2 DEF WorkerOnly, BInv, Queued
    <2> QED BY <2>3, <2>4, <2>5 DEF BInv
  <1>3. CASE Head(queue) # Sentinel
    <2> DEFINE message == queue[1]
    <2>1. message \in Message /\ message # Sentinel /\ Advance(message, 0)
      BY <1>0, <1>1, <1>3 DEF Take
    <2> HIDE DEF message
    <2>2. \/ hand' = Idle
          \/ /\ hand' \in [message : Message, at : 1 .. Len(Mapping)]
             /\ hand'.message = message /\ Mapping[hand'.at] # "skip"
      BY <2>1, Advanced
    <2>3. BridgeTypeOK'
      BY <1>0, <1>1, <2>2, BridgeAssumption DEF WorkerOnly, BInv, BridgeTypeOK
    <2>4. Busy' => hand'.message = message /\ Mapping[hand'.at] # "skip"
      BY <2>2 DEF Busy
    <2>5. Aimed'
      BY <1>0, <2>4 DEF WorkerOnly, BInv, Aimed
    <2>6. /\ message.id <= received /\ \A i \in DOMAIN landed : landed[i].message < message.id
          /\ \A k \in DOMAIN queue' : queue'[k] # Sentinel => message.id < queue'[k].id
      BY <1>1, <2>1 DEF message, BInv, Queued
    <2>7. Landings' /\ Counted'
      BY <1>0, <2>4, <2>6 DEF WorkerOnly, BInv, Landings, Counted
    <2>8. Queued'
      BY <1>0, <1>1, <2>4, <2>6 DEF WorkerOnly, BInv, Queued
    <2> QED BY <2>3, <2>5, <2>7, <2>8 DEF BInv
  <1> QED BY <1>2, <1>3

\* Going on with the message in hand keeps its place in the order.
LEMMA GoesOn ==
    ASSUME BInv, Busy, Advance(hand.message, hand.at)
    PROVE  /\ hand' \in [message : Message, at : 1 .. Len(Mapping)] \union {Idle, SentinelTaken}
           /\ Busy' => /\ hand'.message = hand.message /\ hand.at < hand'.at
                       /\ Mapping[hand'.at] # "skip"
  <1>1. hand.message \in Message /\ hand.at \in Nat
    BY InHand DEF BInv
  <1> QED BY <1>1, Advanced DEF Busy

\* The worker looks for the Datastream of the position.
LEMMA ResolveStep ==
    ASSUME BInv, Resolve
    PROVE  BInv'
  <1> DEFINE n == Target(hand.at)
  <1>0. /\ Busy /\ found = NoId /\ n \in Name /\ n = Mapping[hand.at]
        /\ UNCHANGED <<queue, landed>> /\ WorkerOnly
        /\ hand.message \in Message /\ hand.at \in Nat /\ hand.message.id \in Nat
    BY InHand DEF Resolve, BInv, Busy, Message
  <1>1. ASSUME UNCHANGED hand, found' \in StreamId, found'[1] = n,
               ids' = ids \/ ids' = [ids EXCEPT ![n] = found']
        PROVE  BInv'
    <2>1. BridgeTypeOK'
      <3>1. ids' \in [Name -> StreamId \union {NoId}]
        BY <1>0, <1>1 DEF BInv, BridgeTypeOK
      <3>2. UNCHANGED <<queue, landed, hand>> /\ found' \in StreamId \union {NoId}
        BY <1>0, <1>1
      <3> QED BY <1>0, <3>1, <3>2 DEF WorkerOnly, BInv, BridgeTypeOK
    <2>2. Aimed'
      BY <1>0, <1>1 DEF WorkerOnly, BInv, Aimed, BridgeTypeOK, Busy
    <2>3. Landings' /\ Queued' /\ Counted'
      BY <1>0, <1>1 DEF WorkerOnly, BInv, Landings, Queued, Counted, Busy
    <2> QED BY <2>1, <2>2, <2>3 DEF BInv
  <1>2. CASE ids[n] # NoId /\ found' = ids[n] /\ UNCHANGED <<ids, hand>>
    <2>1. ids[n] \in StreamId /\ ids[n][1] = n
      BY <1>0, <1>2 DEF BInv, BridgeTypeOK, Aimed
    <2> QED BY <1>1, <1>2, <2>1
  <1>3. CASE /\ ids[n] = NoId /\ streams[n] # 0
             /\ found' = <<n, streams[n]>>
             /\ ids' = [ids EXCEPT ![n] = <<n, streams[n]>>]
             /\ UNCHANGED hand
    <2>1. streams[n] \in 1 .. MaxGeneration
      BY <1>0, <1>3, BridgeAssumption DEF BInv, BridgeTypeOK
    <2>2. found' \in StreamId /\ found'[1] = n
      BY <1>0, <1>3, <2>1 DEF StreamId
    <2> QED BY <1>1, <1>3, <2>2
  <1>4. CASE Advance(hand.message, hand.at) /\ UNCHANGED <<found, ids>>
    <2>1. /\ hand' \in [message : Message, at : 1 .. Len(Mapping)] \union {Idle, SentinelTaken}
          /\ Busy' => /\ hand'.message = hand.message /\ hand.at < hand'.at
                      /\ Mapping[hand'.at] # "skip"
      BY <1>0, <1>4, GoesOn
    <2>2. BridgeTypeOK'
      BY <1>0, <1>4, <2>1 DEF WorkerOnly, BInv, BridgeTypeOK
    <2>3. Aimed'
      BY <1>0, <1>4, <2>1 DEF WorkerOnly, BInv, Aimed
    <2>4. Landings'
      <3>1. \A i \in DOMAIN landed : landed[i].at \in Nat
        BY Landed DEF BInv
      <3>2. Busy' => hand'.at \in Nat
        BY <2>1 DEF Busy
      <3> QED BY <1>0, <2>1, <3>1, <3>2 DEF BInv, Landings
    <2>5. Queued' /\ Counted'
      BY <1>0, <2>1 DEF WorkerOnly, BInv, Queued, Counted
    <2> QED BY <2>2, <2>3, <2>4, <2>5 DEF BInv
  <1> QED BY <1>2, <1>3, <1>4 DEF Resolve

\* The worker posts a value, which is stored or not, and goes on.
LEMMA PostStep ==
    ASSUME BInv, Post
    PROVE  BInv'
  <1> DEFINE row == [message |-> hand.message.id, at |-> hand.at, id |-> found]
  <1>0. /\ found # NoId /\ found' = NoId /\ UNCHANGED <<queue, ids>> /\ WorkerOnly
        /\ Advance(hand.message, hand.at)
        /\ landed' = landed \/ landed' = Append(landed, row)
    BY DEF Post, AfterPost
  <1>1. /\ Busy /\ found[1] = Mapping[hand.at] /\ found \in StreamId
        /\ hand.message \in Message /\ hand.at \in 1 .. Len(Mapping) /\ hand.at \in Nat
        /\ hand.message.id \in 1 .. MaxMessage /\ hand.message.id \in Nat
    BY <1>0, InHand, BridgeAssumption DEF BInv, Aimed, BridgeTypeOK, Message
  <1>2. /\ hand' \in [message : Message, at : 1 .. Len(Mapping)] \union {Idle, SentinelTaken}
        /\ Busy' => /\ hand'.message = hand.message /\ hand.at < hand'.at
                    /\ Mapping[hand'.at] # "skip"
    BY <1>0, <1>1, GoesOn
  <1>3. row \in [message : 1 .. MaxMessage, at : 1 .. Len(Mapping), id : StreamId]
    BY <1>1
  <1>4. landed' \in Seq([message : 1 .. MaxMessage, at : 1 .. Len(Mapping), id : StreamId])
    <2> DEFINE S == [message : 1 .. MaxMessage, at : 1 .. Len(Mapping), id : StreamId]
    <2>1. landed \in Seq(S) /\ row \in S
      BY <1>3 DEF BInv, BridgeTypeOK
    <2> HIDE DEF S
    <2>2. landed' \in Seq(S)
      BY <1>0, <2>1
    <2> QED BY <2>2 DEF S
  <1>5. /\ row.message = hand.message.id /\ row.at = hand.at /\ row.id = found
    OBVIOUS
  <1> HIDE DEF row
  <1>6. /\ DOMAIN landed = 1 .. Len(landed) /\ Len(landed) \in Nat
        /\ \A i \in DOMAIN landed' :
              \/ i \in DOMAIN landed /\ landed'[i] = landed[i]
              \/ i = Len(landed) + 1 /\ landed'[i] = row
    <2> DEFINE S == [message : 1 .. MaxMessage, at : 1 .. Len(Mapping), id : StreamId]
    <2>1. landed \in Seq(S) /\ row \in S
      BY <1>3 DEF BInv, BridgeTypeOK
    <2> HIDE DEF S
    <2> QED BY <1>0, <2>1
  <1>7. BridgeTypeOK'
    BY <1>0, <1>2, <1>4 DEF WorkerOnly, BInv, BridgeTypeOK
  <1>8. Aimed'
    BY <1>0, <1>2 DEF WorkerOnly, BInv, Aimed
  <1>9. \A i \in DOMAIN landed : /\ landed[i].at \in Nat /\ landed[i].message \in Nat
                                 /\ \/ landed[i].message < hand.message.id
                                    \/ landed[i].message = hand.message.id /\ landed[i].at < hand.at
    BY <1>1, Landed DEF BInv, Landings
  <1>10. \A i \in DOMAIN landed' :
            \/ landed'[i].message < hand.message.id
            \/ landed'[i].message = hand.message.id /\ landed'[i].at <= hand.at
    BY <1>1, <1>5, <1>6, <1>9
  <1>11. Landings'
    <2>1. \A i \in DOMAIN landed' : landed'[i].id[1] = Mapping[landed'[i].at]
      BY <1>1, <1>5, <1>6 DEF BInv, Landings
    <2>2. ASSUME NEW i \in DOMAIN landed', NEW j \in DOMAIN landed', i < j,
                 landed'[i].at = landed'[j].at
          PROVE  landed'[i].message < landed'[j].message
      <3>1. i \in DOMAIN landed /\ landed'[i] = landed[i]
        BY <1>6, <2>2
      <3>2. CASE j \in DOMAIN landed /\ landed'[j] = landed[j]
        BY <2>2, <3>1, <3>2 DEF BInv, Landings
      <3>3. CASE landed'[j] = row
        BY <1>1, <1>5, <1>9, <2>2, <3>1, <3>3
      <3> QED BY <1>6, <3>2, <3>3
    <2>3. ASSUME Busy', NEW i \in DOMAIN landed'
          PROVE  \/ landed'[i].message < hand'.message.id
                 \/ landed'[i].message = hand'.message.id /\ landed'[i].at < hand'.at
      <3>1. hand'.message = hand.message /\ hand.at < hand'.at /\ hand'.at \in Nat
        BY <1>2, <2>3 DEF Busy
      <3>2. landed'[i].at \in Nat
        BY <1>1, <1>5, <1>6, <1>9
      <3> QED BY <1>1, <1>10, <3>1, <3>2
    <2> QED BY <2>1, <2>2, <2>3 DEF Landings
  <1>12. Queued'
    <2>1. \A k \in DOMAIN queue : queue[k] # Sentinel => hand.message.id < queue[k].id
      BY <1>1 DEF BInv, Queued
    <2> QED BY <1>0, <1>1, <1>2, <1>5, <1>6, <2>1 DEF WorkerOnly, BInv, Queued
  <1>13. Counted'
    BY <1>0, <1>1, <1>2, <1>5, <1>6 DEF WorkerOnly, BInv, Counted
  <1> QED BY <1>7, <1>8, <1>11, <1>12, <1>13 DEF BInv

\* The container is killed: what was on the way is lost.
LEMMA KillStep ==
    ASSUME BInv, Kill
    PROVE  BInv'
  <1>1. /\ queue' = <<>> /\ hand' = SentinelTaken /\ found' = NoId /\ ~Busy'
        /\ UNCHANGED <<stop, leaving, heard, signals, accepted, received, ids, streams, landed>>
    BY DEF Kill, Busy
  <1>2. queue' \in Seq(Message \union {Sentinel}) /\ Len(queue') = 0 /\ DOMAIN queue' = {}
    BY <1>1
  <1>3. BridgeTypeOK'
    <2>1. main' = "killed" /\ online' = FALSE
      BY DEF Kill
    <2>2. Len(queue') <= QueueMax
      BY <1>2, BridgeAssumption
    <2> QED BY <1>1, <1>2, <2>1, <2>2 DEF BInv, BridgeTypeOK
  <1>4. Aimed' /\ Landings' /\ Queued' /\ Counted'
    BY <1>1, <1>2 DEF BInv, Aimed, Landings, Queued, Counted
  <1> QED BY <1>3, <1>4 DEF BInv

\* Every step keeps the order.
LEMMA BStep == BInv /\ [BridgeNext]_bridgeVars => BInv'
  <1> SUFFICES ASSUME BInv, [BridgeNext]_bridgeVars PROVE BInv'
    OBVIOUS
  <1>1. ASSUME BridgeTypeOK', UNCHANGED <<queue, hand, found, ids, landed, received, accepted>>
        PROVE  BInv'
    BY <1>1, QuietStep DEF BInv
  <1>2. CASE Test \/ Connect \/ Sleep \/ LeaveLoop \/ Reconnect
    <2>1. BridgeTypeOK'
      BY <1>2 DEF Test, Connect, Sleep, LeaveLoop, Reconnect, MainOnly, BInv, BridgeTypeOK
    <2> QED BY <1>1, <1>2, <2>1 DEF Test, Connect, Sleep, LeaveLoop, Reconnect, MainOnly
  <1>3. CASE Signal
    <2>1. BridgeTypeOK'
      <3>1. signals' \in 0 .. MaxSignal /\ stop' \in BOOLEAN
        BY <1>3, BridgeAssumption DEF Signal, BInv, BridgeTypeOK
      <3>2. leaving' \in BOOLEAN
        BY <1>3 DEF Signal, Leaves, BInv, BridgeTypeOK
      <3>3. heard' \in BOOLEAN
        BY <1>3 DEF Signal, BInv, BridgeTypeOK
      <3> QED BY <1>3, <3>1, <3>2, <3>3 DEF Signal, BInv, BridgeTypeOK
    <2> QED BY <1>1, <1>3, <2>1 DEF Signal
  <1>4. ASSUME NEW n \in Name, ReplaceStream(n)
        PROVE  BInv'
    <2>1. BridgeTypeOK'
      <3>1. streams' \in [Name -> 0 .. MaxGeneration]
        BY <1>4, BridgeAssumption, SMTT(40) DEF ReplaceStream, BInv, BridgeTypeOK
      <3> QED BY <1>4, <3>1 DEF ReplaceStream, BInv, BridgeTypeOK
    <2> QED BY <1>1, <1>4, <2>1 DEF ReplaceStream
  <1>5. CASE UNCHANGED bridgeVars
    <2>1. BridgeTypeOK'
      BY <1>5 DEF bridgeVars, BInv, BridgeTypeOK
    <2> QED BY <1>1, <1>5, <2>1 DEF bridgeVars
  <1> QED BY <1>2, <1>3, <1>4, <1>5, FinishStep, MessageStep, TakeStep, ResolveStep, PostStep,
             KillStep DEF BridgeNext, BridgeMain, BridgeWorker

\* At the start nothing is on the way.
LEMMA BInit == BridgeInit => BInv
  <1> SUFFICES ASSUME BridgeInit PROVE BInv
    OBVIOUS
  <1>1. /\ queue = <<>> /\ landed = <<>> /\ hand = Idle /\ found = NoId /\ accepted = 0
        /\ received = 0 /\ DOMAIN queue = {} /\ DOMAIN landed = {} /\ ~Busy
        /\ \A n \in Name : ids[n] = NoId
    BY DEF BridgeInit, Busy
  <1>2. BridgeTypeOK
    <2>1. queue \in Seq(Message \union {Sentinel}) /\ Len(queue) <= QueueMax
      BY <1>1, BridgeAssumption
    <2>2. landed \in Seq([message : 1 .. MaxMessage, at : 1 .. Len(Mapping), id : StreamId])
      BY <1>1
    <2>3. signals \in 0 .. MaxSignal /\ accepted \in 0 .. MaxMessage /\ received \in 0 .. MaxMessage
      BY <1>1, BridgeAssumption DEF BridgeInit
    <2>4. streams \in [Name -> 0 .. MaxGeneration] /\ ids \in [Name -> StreamId \union {NoId}]
      BY BridgeAssumption DEF BridgeInit
    <2> QED BY <1>1, <2>1, <2>2, <2>3, <2>4 DEF BridgeInit, BridgeTypeOK
  <1> QED BY <1>1, <1>2 DEF BInv, Aimed, Landings, Queued, Counted

-----------------------------------------------------------------------------
(* The theorems.                                                           *)

\* Messages are in the order they arrived in, from the queue to the server, in every
\* reachable state.
THEOREM BridgeInvariance == BridgeSpec => []BInv
  BY BInit, BStep, PTL DEF BridgeSpec

\* The variables keep their types; the queue never holds more than its bound.
THEOREM BridgeTypes == BridgeSpec => []BridgeTypeOK
  <1>1. BInv => BridgeTypeOK
    BY DEF BInv
  <1> QED BY <1>1, BridgeInvariance, PTL

\* For every topic, mapping and bound of the queue, and although answers are lost, the
\* connection breaks and Datastreams are replaced: a value is stored in the Datastream
\* of its position, in the order of arrival, and once.
THEOREM StoredInOrder == BridgeSpec => []InOrderOnce
  <1>1. BInv => InOrderOnce
    BY DEF BInv, Landings, InOrderOnce
  <1> QED BY <1>1, BridgeInvariance, PTL

-----------------------------------------------------------------------------
(* Batches.                                                                *)

OpenPc == {"next", "insert", "widen", "commit"}

BatchRecord ==
    [pc : Settled \union OpenPc \union {"unsent"}, kind : {"data", "bulk"},
     items : Seq(BatchItem), at : Nat, work : SUBSET TableRow, links : Seq({"link", "error"})]

\* The places that were answered with a link, and those of the rows that were written.
WithLink(q) == {i \in DOMAIN q.links : q.links[i] = "link"}
Places(rows) == {row.at : row \in rows}

\* Request b, while its state is q.
Request(b, q) ==
    /\ q \in BatchRecord
    /\ q.at \in 1 .. Len(q.items) + 1 /\ Len(q.links) = q.at - 1
    /\ q.pc \in {"next", "insert", "widen"} => q.at <= Len(q.items)
    /\ \A row \in q.work : row.by = b
    /\ q.pc \in OpenPc \union {"unsent"} =>
           Places(q.work) = WithLink(q) \union (IF q.pc = "widen" THEN {q.at} ELSE {})
    /\ q.pc \in Settled => q.work = {}
    /\ q.pc = "refused" => q.kind = "data"

\* What is stored came from requests that have ended; what they answered tells which.
Told(b, q) ==
    Places(RowsOf(b)) = IF q.pc \in {"created", "refused"} THEN WithLink(q) ELSE {}

BatchTypes ==
    /\ storedRows \subseteq TableRow
    /\ batch \in [Upload -> BatchRecord]
    /\ seriesLock \in [Series -> Sent \union {NoBatch}]

BatchInv ==
    /\ BatchTypes
    /\ \A b \in Upload : Request(b, batch[b]) /\ Told(b, batch[b])

-----------------------------------------------------------------------------
(* The ways a step changes a request.                                      *)

\* A step inside a transaction changes one request, which stays open, and no row.
LEMMA StepInside ==
    ASSUME BatchInv, NEW b \in Upload, NEW q, Request(b, q), q.pc \in OpenPc,
           batch[b].pc \in OpenPc \union {"unsent"},
           batch' = [batch EXCEPT ![b] = q], storedRows' = storedRows,
           \A s \in Series : seriesLock'[s] \in {seriesLock[s], b},
           seriesLock' = [s \in Series |-> seriesLock'[s]]
    PROVE  BatchInv'
  <1>1. batch' \in [Upload -> BatchRecord]
    BY DEF BatchInv, BatchTypes, Request
  <1>2. \A c \in Upload : batch'[c] = IF c = b THEN q ELSE batch[c]
    BY DEF BatchInv, BatchTypes
  <1>3. \A c \in Sent : c \in Sent'
    BY <1>2 DEF Sent, Settled, OpenPc
  <1>4. b \in Sent'
    BY <1>2 DEF Sent, Settled, OpenPc
  <1>5. seriesLock' \in [Series -> Sent' \union {NoBatch}]
    BY <1>3, <1>4 DEF BatchInv, BatchTypes
  <1>6. BatchTypes'
    BY <1>1, <1>5 DEF BatchInv, BatchTypes
  <1>7. ASSUME NEW c \in Upload
        PROVE  Request(c, batch'[c]) /\ Told(c, batch[c])'
    <2>1. RowsOf(c)' = RowsOf(c)
      BY DEF RowsOf
    <2>2. CASE c = b
      <3>1. Places(RowsOf(c)) = {}
        BY <2>2 DEF BatchInv, Told, OpenPc
      <3> QED BY <1>2, <2>1, <2>2, <3>1 DEF Told, OpenPc, Places
    <2>3. CASE c # b
      BY <1>2, <2>1, <2>3 DEF BatchInv, Told, Places
    <2> QED BY <2>2, <2>3
  <1>8. \A c \in Upload : Request(c, batch[c])' /\ Told(c, batch[c])'
    BY <1>7 DEF Request
  <1> QED BY <1>6, <1>8 DEF BatchInv

\* The end of a transaction stores all the rows of the request, or none.
LEMMA StepOut ==
    ASSUME BatchInv, NEW b \in Upload, batch[b].pc \in OpenPc, NEW how, NEW rows,
           \/ how = "failed" /\ rows = {}
           \/ /\ how = "created" \/ (how = "refused" /\ batch[b].kind = "data")
              /\ batch[b].pc # "widen" /\ rows = batch[b].work,
           EndBatch(b, how, rows)
    PROVE  BatchInv'
  <1> DEFINE q == batch[b]
             r == [batch[b] EXCEPT !.pc = how, !.work = {}]
  <1>1. q \in BatchRecord /\ Request(b, q) /\ Told(b, q)
    BY DEF BatchInv, BatchTypes
  <1>2. /\ r \in BatchRecord /\ r.pc = how /\ r.work = {} /\ r.links = q.links
        /\ r.kind = q.kind /\ r.items = q.items /\ r.at = q.at
    BY <1>1 DEF BatchRecord, Settled, TableRow
  <1>3. /\ storedRows' = storedRows \union rows
        /\ batch' = [batch EXCEPT ![b] = r]
        /\ seriesLock' = [s \in Series |-> IF seriesLock[s] = b THEN NoBatch ELSE seriesLock[s]]
    BY DEF EndBatch
  <1>4. \A c \in Upload : batch'[c] = IF c = b THEN r ELSE batch[c]
    BY <1>3 DEF BatchInv, BatchTypes
  <1>5. BatchTypes'
    <2>1. rows \subseteq TableRow
      BY <1>1 DEF BatchRecord
    <2>2. batch' \in [Upload -> BatchRecord]
      BY <1>2, <1>3 DEF BatchInv, BatchTypes
    <2>3. \A c \in Sent \ {b} : c \in Sent'
      BY <1>4 DEF Sent
    <2>4. seriesLock' \in [Series -> Sent' \union {NoBatch}]
      BY <2>3, <1>3 DEF BatchInv, BatchTypes
    <2> QED BY <2>1, <2>2, <2>4, <1>3 DEF BatchInv, BatchTypes
  <1>6. Request(b, r)
    BY <1>1, <1>2 DEF Request, Settled, OpenPc
  <1>7. \A row \in rows : row.by = b
    BY <1>1 DEF Request
  <1>8. ASSUME NEW c \in Upload
        PROVE  Told(c, batch[c])'
    <2>1. CASE c # b
      <3>1. RowsOf(c)' = RowsOf(c)
        BY <2>1, <1>3, <1>7 DEF RowsOf
      <3> QED BY <3>1, <2>1, <1>4 DEF BatchInv, Told, Places
    <2>2. CASE c = b
      <3>1. RowsOf(b) = {}
        BY <1>1 DEF Told, OpenPc, Places
      <3>2. RowsOf(b)' = rows
        BY <3>1, <1>3, <1>7 DEF RowsOf
      <3>3. CASE how = "failed" /\ rows = {}
        BY <3>2, <3>3, <2>2, <1>2, <1>4 DEF Told, Places
      <3>4. CASE how \in {"created", "refused"} /\ q.pc # "widen" /\ rows = q.work
        <4>1. Places(rows) = WithLink(q)
          BY <3>4, <1>1 DEF Request
        <4>2. WithLink(r) = WithLink(q)
          BY <1>2 DEF WithLink
        <4> QED BY <4>1, <4>2, <3>2, <3>4, <2>2, <1>2, <1>4 DEF Told
      <3> QED BY <3>3, <3>4
    <2> QED BY <2>1, <2>2
  <1>9. \A c \in Upload : Request(c, batch'[c])
    BY <1>4, <1>6 DEF BatchInv
  <1>10. \A c \in Upload : Request(c, batch[c])'
    BY <1>9 DEF Request
  <1> QED BY <1>5, <1>8, <1>10 DEF BatchInv

\* What the step to the next item makes of a request.
LEMMA NextRecord ==
    ASSUME NEW q \in BatchRecord, NEW link
    PROVE  NextItem(q, link) =
               [pc |-> IF q.at = Len(q.items) THEN "commit" ELSE "next", kind |-> q.kind,
                items |-> q.items, at |-> q.at + 1, work |-> q.work,
                links |-> Append(q.links, link)]
  <1> DEFINE then == IF q.at = Len(q.items) THEN "commit" ELSE "next"
             list == Append(q.links, link)
  <1>1. q = [pc |-> q.pc, kind |-> q.kind, items |-> q.items, at |-> q.at,
             work |-> q.work, links |-> q.links]
    BY DEF BatchRecord
  <1>2. NextItem(q, link) = [q EXCEPT !.links = list, !.at = q.at + 1, !.pc = then]
    BY DEF NextItem
  <1> HIDE DEF then, list
  <1>3. NextItem(q, link) = [pc |-> then, kind |-> q.kind, items |-> q.items,
                             at |-> q.at + 1, work |-> q.work, links |-> list]
    BY <1>1, <1>2
  <1> QED BY <1>3 DEF then, list

\* On to the next item: of the rows, those that have a link stay.
LEMMA OnToNext ==
    ASSUME NEW b \in Upload, NEW q, Request(b, q), q.pc \in {"next", "insert", "widen"},
           NEW link \in {"link", "error"}, NEW rows \in SUBSET TableRow,
           \A row \in rows : row.by = b,
           Places(rows) = WithLink(q) \union (IF link = "link" THEN {q.at} ELSE {})
    PROVE  Request(b, [NextItem(q, link) EXCEPT !.work = rows])
  <1> DEFINE r == [NextItem(q, link) EXCEPT !.work = rows]
  <1>1. q \in BatchRecord /\ q.at <= Len(q.items) /\ Len(q.links) = q.at - 1 /\ q.at \in Nat
    BY DEF Request, BatchRecord
  <1>2. /\ Append(q.links, link) \in Seq({"link", "error"})
        /\ Len(Append(q.links, link)) = q.at
        /\ \A i \in 1 .. q.at : Append(q.links, link)[i] = IF i = q.at THEN link ELSE q.links[i]
        /\ DOMAIN q.links = 1 .. q.at - 1
        /\ DOMAIN Append(q.links, link) = 1 .. q.at
    BY <1>1 DEF BatchRecord
  <1>3. /\ r \in BatchRecord
        /\ r.pc = (IF q.at = Len(q.items) THEN "commit" ELSE "next")
        /\ r.links = Append(q.links, link) /\ r.at = q.at + 1 /\ r.work = rows
        /\ r.items = q.items
    <2>1. NextItem(q, link) = [pc |-> IF q.at = Len(q.items) THEN "commit" ELSE "next",
               kind |-> q.kind, items |-> q.items, at |-> q.at + 1, work |-> q.work,
               links |-> Append(q.links, link)]
      BY <1>1, NextRecord
    <2>2. r = [pc |-> IF q.at = Len(q.items) THEN "commit" ELSE "next", kind |-> q.kind,
               items |-> q.items, at |-> q.at + 1, work |-> rows,
               links |-> Append(q.links, link)]
      <3> DEFINE then == IF q.at = Len(q.items) THEN "commit" ELSE "next"
                 list == Append(q.links, link)
                 n == [pc |-> then, kind |-> q.kind, items |-> q.items, at |-> q.at + 1,
                       work |-> q.work, links |-> list]
      <3>1. NextItem(q, link) = n
        BY <2>1
      <3>2. r = [n EXCEPT !.work = rows]
        <4> HIDE DEF n
        <4> QED BY <3>1
      <3> HIDE DEF then, list
      <3>3. [n EXCEPT !.work = rows] =
                [pc |-> then, kind |-> q.kind, items |-> q.items, at |-> q.at + 1,
                 work |-> rows, links |-> list]
        OBVIOUS
      <3> QED BY <3>2, <3>3 DEF then, list
    <2> HIDE DEF r
    <2>3. q.kind \in {"data", "bulk"} /\ q.items \in Seq(BatchItem) /\ q.at + 1 \in Nat
      BY <1>1 DEF BatchRecord
    <2> QED BY <2>2, <2>3, <1>2 DEF BatchRecord, OpenPc
  <1>4. WithLink(r) = WithLink(q) \union (IF link = "link" THEN {q.at} ELSE {})
    <2>1. WithLink(r) = {i \in 1 .. q.at : (IF i = q.at THEN link ELSE q.links[i]) = "link"}
      BY <1>2, <1>3 DEF WithLink
    <2>2. WithLink(q) = {i \in 1 .. q.at - 1 : q.links[i] = "link"}
      BY <1>2 DEF WithLink
    <2> QED BY <1>1, <2>1, <2>2
  <1>5. Len(q.items) \in Nat
    BY <1>1 DEF BatchRecord
  <1>6. r.at \in 1 .. Len(r.items) + 1 /\ Len(r.links) = r.at - 1
    <2> HIDE DEF r
    <2>1. Len(r.links) = q.at /\ r.at = q.at + 1 /\ r.items = q.items
      BY <1>2, <1>3
    <2> QED BY <1>1, <1>5, <2>1
  <1>7. r.pc = "next" => r.at <= Len(r.items)
    BY <1>1, <1>3, <1>5
  <1> HIDE DEF r
  <1>8. Request(b, r)
    BY <1>3, <1>4, <1>6, <1>7 DEF Request, OpenPc, Settled
  <1> QED BY <1>8 DEF r

\* The same when the rows stay as they are.
LEMMA OnToNextKept ==
    ASSUME NEW b \in Upload, NEW q, Request(b, q), q.pc \in {"next", "insert", "widen"},
           NEW link \in {"link", "error"}, q.pc = "widen" <=> link = "link"
    PROVE  Request(b, NextItem(q, link)) /\ NextItem(q, link).pc \in OpenPc
  <1>1. q \in BatchRecord /\ q.work \in SUBSET TableRow
    BY DEF Request, BatchRecord
  <1>2. NextItem(q, link) = [NextItem(q, link) EXCEPT !.work = q.work]
    BY <1>1, NextRecord
  <1>3. Places(q.work) = WithLink(q) \union (IF link = "link" THEN {q.at} ELSE {})
    BY DEF Request, OpenPc
  <1>4. \A row \in q.work : row.by = b
    BY DEF Request
  <1>5. Request(b, NextItem(q, link))
    BY <1>1, <1>2, <1>3, <1>4, OnToNext
  <1>6. NextItem(q, link).pc \in OpenPc
    BY <1>1, NextRecord DEF OpenPc
  <1> QED BY <1>5, <1>6

-----------------------------------------------------------------------------
(* One step of each action.                                                *)

\* Only an insert and an update of a Datastream wait, so that only they are in a cycle.
LEMMA WaitsAreWrites ==
    ASSUME NEW b \in Upload, InCycle(b)
    PROVE  batch[b].pc \in {"insert", "widen"}
  <1> DEFINE Lengths == 2 .. Cardinality(Sent)
  <1>1. PICK path \in UNION {[1 .. n -> Sent] : n \in Lengths} :
            /\ path[1] = b
            /\ \A i \in 1 .. Len(path) - 1 : path[i + 1] \in Blockers(path[i])
    BY DEF InCycle
  <1>0. PICK n \in Lengths : path \in [1 .. n -> Sent]
    BY <1>1
  <1>2. n \in Nat /\ n >= 2 /\ Len(path) = n
    <2>1. n \in Nat /\ n >= 2
      BY <1>0
    <2>2. path \in Seq(Sent)
      BY <1>0, <2>1
    <2> QED BY <1>0, <2>1, <2>2
  <1>3. path[2] \in Blockers(b)
    BY <1>1, <1>2
  <1> QED BY <1>3 DEF Blockers

\* The item at hand is one of the request.
LEMMA HereIsItem ==
    ASSUME NEW b \in Upload, Request(b, batch[b]),
           batch[b].pc \in {"next", "insert", "widen"}
    PROVE  Here(b) \in BatchItem /\ RowHere(b) \in TableRow
  <1>1. batch[b].items \in Seq(BatchItem) /\ batch[b].at \in 1 .. Len(batch[b].items)
    BY DEF Request, BatchRecord
  <1>2. Here(b) \in BatchItem
    BY <1>1 DEF Here
  <1>3. batch[b].at \in Nat
    BY DEF Request, BatchRecord
  <1> QED BY <1>2, <1>3 DEF RowHere, TableRow, BatchItem

LEMMA RowFailsKeeps ==
    ASSUME BatchInv, NEW b \in Upload, batch[b].pc \in {"insert", "widen"}, RowFails(b)
    PROVE  BatchInv'
  <1> DEFINE q == batch[b]
             rows == {r \in q.work : r.at # q.at}
  <1>1. Request(b, q) /\ q.pc \in OpenPc /\ q \in BatchRecord
    BY DEF BatchInv, BatchTypes, OpenPc
  <1>2. CASE q.kind = "bulk"
    BY <1>1, <1>2, StepOut DEF RowFails, RollBack
  <1>3. CASE q.kind # "bulk"
    <2> DEFINE r == [NextItem(q, "error") EXCEPT !.work = rows]
    <2>1. NextItem(q, "error").work = q.work
      BY <1>1, NextRecord
    <2>2. batch' = [batch EXCEPT ![b] = r] /\ storedRows' = storedRows /\ seriesLock' = seriesLock
      BY <1>3, <2>1 DEF RowFails
    <2>3. rows \in SUBSET TableRow /\ \A row \in rows : row.by = b
      BY <1>1 DEF Request, BatchRecord
    <2>4. Places(rows) = WithLink(q)
      <3>1. Places(q.work) = WithLink(q) \union (IF q.pc = "widen" THEN {q.at} ELSE {})
        BY <1>1 DEF Request
      <3>2. q.at \notin WithLink(q)
        BY <1>1 DEF WithLink, Request, BatchRecord
      <3>3. Places(rows) = Places(q.work) \ {q.at}
        BY DEF Places
      <3> QED BY <3>1, <3>2, <3>3
    <2>5. Request(b, r)
      BY <1>1, <2>3, <2>4, OnToNext
    <2>6. r.pc \in OpenPc
      BY <1>1, NextRecord DEF OpenPc
    <2>7. seriesLock' = [s \in Series |-> seriesLock'[s]]
      BY <2>2 DEF BatchInv, BatchTypes
    <2> HIDE DEF r
    <2> QED BY <1>1, <2>2, <2>5, <2>6, <2>7, StepInside
  <1> QED BY <1>2, <1>3

LEMMA SendKeeps ==
    ASSUME BatchInv, NEW b \in Upload, SendBatch(b)
    PROVE  BatchInv'
  <1>1. PICK s \in Shape : batch' = [batch EXCEPT ![b] =
            [Unsent EXCEPT !.kind = s.kind, !.items = s.items,
                           !.pc = IF s.items = <<>> THEN "commit" ELSE "next"]]
    BY DEF SendBatch
  <1> DEFINE first == IF s.items = <<>> THEN "commit" ELSE "next"
             q == [Unsent EXCEPT !.kind = s.kind, !.items = s.items, !.pc = first]
  <1>2. /\ s.kind \in {"data", "bulk"} /\ s.items \in Seq(BatchItem)
        /\ first \in {"next", "commit"} /\ (s.items # <<>> => 1 <= Len(s.items))
        /\ (first = "next" => s.items # <<>>)
    BY ShapeAssumption
  <1> HIDE DEF first
  <1>3. /\ Unsent \in BatchRecord
        /\ Unsent.at = 1 /\ Unsent.work = {} /\ Unsent.links = <<>>
    BY DEF Unsent, BatchRecord
  <1>4. /\ q \in BatchRecord /\ q.pc = first /\ q.items = s.items /\ q.at = 1
        /\ q.work = {} /\ q.links = <<>> /\ Len(q.links) = 0
    <2>1. PICK u \in BatchRecord : u = Unsent
      BY <1>3
    <2>2. PICK k \in {"data", "bulk"}, i \in Seq(BatchItem) : k = s.kind /\ i = s.items
      BY <1>2
    <2>3. PICK p \in {"next", "commit"} : p = first
      BY <1>2
    <2>4. q = [u EXCEPT !.kind = k, !.items = i, !.pc = p]
      BY <2>1, <2>2, <2>3
    <2> HIDE DEF q
    <2>5. /\ q \in BatchRecord /\ q.pc = p /\ q.items = i /\ q.at = u.at
          /\ q.work = u.work /\ q.links = u.links
      BY <2>4 DEF BatchRecord, OpenPc
    <2> QED BY <1>3, <2>1, <2>2, <2>3, <2>5
  <1>5. batch' = [batch EXCEPT ![b] = q]
    BY <1>1 DEF first
  <1> HIDE DEF q
  <1>6. WithLink(q) = {} /\ Places(q.work) = {}
    BY <1>4 DEF WithLink, Places
  <1>7. Request(b, q) /\ q.pc \in OpenPc
    <2>1. Len(q.items) \in Nat
      BY <1>2, <1>4
    <2> QED BY <2>1, <1>2, <1>4, <1>6 DEF Request, Settled, OpenPc
  <1>8. seriesLock' = [s2 \in Series |-> seriesLock'[s2]]
    BY DEF SendBatch, BatchInv, BatchTypes
  <1> QED BY <1>5, <1>7, <1>8, StepInside DEF SendBatch, OpenPc

LEMMA OpenKeeps ==
    ASSUME BatchInv, NEW b \in Upload, Open(b)
    PROVE  BatchInv'
  <1> DEFINE q == batch[b]
  <1>1. Request(b, q) /\ q.pc = "next" /\ q.pc \in OpenPc /\ q \in BatchRecord
    BY DEF BatchInv, BatchTypes, OpenPc, Open
  <1>2. seriesLock = [s \in Series |-> seriesLock[s]]
    BY DEF BatchInv, BatchTypes
  <1>3. CASE batch' = [batch EXCEPT ![b] = NextItem(q, "error")]
             /\ UNCHANGED <<storedRows, seriesLock>>
    BY <1>1, <1>2, <1>3, OnToNextKept, StepInside
  <1>4. CASE batch' = [batch EXCEPT ![b].pc = "insert"] /\ UNCHANGED <<storedRows, seriesLock>>
    <2> DEFINE r == [q EXCEPT !.pc = "insert"]
    <2>1. r \in BatchRecord /\ r.pc = "insert" /\ r.items = q.items /\ r.at = q.at
          /\ r.links = q.links /\ r.work = q.work
      BY <1>1 DEF BatchRecord, OpenPc
    <2>2. WithLink(r) = WithLink(q)
      BY <2>1 DEF WithLink
    <2> HIDE DEF r
    <2>3. Request(b, r)
      BY <1>1, <2>1, <2>2 DEF Request, OpenPc, Settled
    <2>4. batch' = [batch EXCEPT ![b] = r]
      BY <1>4 DEF r
    <2> QED BY <1>1, <1>2, <1>4, <2>1, <2>3, <2>4, StepInside DEF OpenPc
  <1>5. CASE q.kind = "data" /\ CommitAs(b, "refused")
    BY <1>1, <1>5, StepOut DEF CommitAs
  <1>6. CASE RollBack(b)
    BY <1>1, <1>6, StepOut DEF RollBack
  <1> QED BY <1>3, <1>4, <1>5, <1>6 DEF Open

LEMMA InsertKeeps ==
    ASSUME BatchInv, NEW b \in Upload, InsertRow(b)
    PROVE  BatchInv'
  <1> DEFINE q == batch[b]
             rows == q.work \union {RowHere(b)}
  <1>1. Request(b, q) /\ q.pc = "insert" /\ q.pc \in OpenPc /\ q \in BatchRecord
    BY DEF BatchInv, BatchTypes, OpenPc, InsertRow
  <1>2. seriesLock = [s \in Series |-> seriesLock[s]]
    BY DEF BatchInv, BatchTypes
  <1>3. CASE RowFails(b)
    BY <1>1, <1>3, RowFailsKeeps
  <1>4. rows \in SUBSET TableRow /\ \A row \in rows : row.by = b
    BY <1>1, HereIsItem DEF Request, BatchRecord, RowHere
  <1>5. Places(rows) = WithLink(q) \union {q.at}
    <2>1. Places(q.work) = WithLink(q)
      BY <1>1 DEF Request
    <2>2. RowHere(b).at = q.at
      BY DEF RowHere
    <2> QED BY <2>1, <2>2 DEF Places
  <1>6. CASE /\ batch' = [batch EXCEPT ![b] = [q EXCEPT !.work = rows, !.pc = "widen"]]
             /\ UNCHANGED <<storedRows, seriesLock>>
    <2> DEFINE r == [q EXCEPT !.work = rows, !.pc = "widen"]
    <2>1. r \in BatchRecord /\ r.pc = "widen" /\ r.items = q.items /\ r.at = q.at
          /\ r.links = q.links /\ r.work = rows
      <3> HIDE DEF rows
      <3> QED BY <1>1, <1>4 DEF BatchRecord, OpenPc
    <2>2. WithLink(r) = WithLink(q)
      BY <2>1 DEF WithLink
    <2> HIDE DEF r, rows
    <2>3. Request(b, r)
      BY <1>1, <1>4, <1>5, <2>1, <2>2 DEF Request, OpenPc, Settled
    <2>4. batch' = [batch EXCEPT ![b] = r]
      BY <1>6 DEF r
    <2> QED BY <1>1, <1>2, <1>6, <2>1, <2>3, <2>4, StepInside DEF OpenPc
  <1>7. CASE /\ batch' = [batch EXCEPT ![b] = [NextItem(q, "link") EXCEPT !.work = rows]]
             /\ UNCHANGED <<storedRows, seriesLock>>
    <2> DEFINE r == [NextItem(q, "link") EXCEPT !.work = rows]
    <2>1. Request(b, r)
      BY <1>1, <1>4, <1>5, OnToNext
    <2>2. r.pc \in OpenPc
      BY <1>1, NextRecord DEF OpenPc
    <2> HIDE DEF r
    <2> QED BY <1>1, <1>2, <1>7, <2>1, <2>2, StepInside DEF r
  <1>8. NextItem(q, "link").work = q.work
    BY <1>1, NextRecord
  <1> QED BY <1>3, <1>6, <1>7, <1>8 DEF InsertRow

LEMMA WidenKeeps ==
    ASSUME BatchInv, NEW b \in Upload, WidenSeries(b)
    PROVE  BatchInv'
  <1> DEFINE q == batch[b]
             r == NextItem(q, "link")
  <1>1. Request(b, q) /\ q.pc = "widen" /\ q.pc \in OpenPc /\ q \in BatchRecord
    BY DEF BatchInv, BatchTypes, OpenPc, WidenSeries
  <1>2. Request(b, r) /\ r.pc \in OpenPc
    BY <1>1, OnToNextKept
  <1>3. \A s \in Series : seriesLock'[s] \in {seriesLock[s], b}
    BY DEF WidenSeries, BatchInv, BatchTypes
  <1>4. seriesLock' = [s \in Series |-> seriesLock'[s]]
    BY DEF WidenSeries, BatchInv, BatchTypes
  <1>5. batch' = [batch EXCEPT ![b] = r] /\ storedRows' = storedRows
    BY DEF WidenSeries
  <1> HIDE DEF r
  <1> QED BY <1>1, <1>2, <1>3, <1>4, <1>5, StepInside

-----------------------------------------------------------------------------
(* Theorems.                                                               *)

\* The invariant: the rows an open request has written are those it has a link for and
\* the one whose Datastream it is about to widen, and nothing of it is stored.
THEOREM BatchInvariance == BatchSpec => []BatchInv
  <1>1. BatchInit => BatchInv
    <2> SUFFICES ASSUME BatchInit PROVE BatchInv
      OBVIOUS
    <2>1. Unsent \in BatchRecord
      BY DEF Unsent, BatchRecord
    <2>2. BatchTypes
      BY <2>1 DEF BatchInit, BatchTypes
    <2>3. ASSUME NEW b \in Upload
          PROVE  Request(b, batch[b]) /\ Told(b, batch[b])
      <3>1. batch[b] = Unsent
        BY DEF BatchInit
      <3>2. WithLink(Unsent) = {} /\ Places(Unsent.work) = {}
        BY DEF WithLink, Places, Unsent
      <3>3. Request(b, Unsent)
        BY <2>1, <3>2 DEF Request, Unsent, OpenPc, Settled
      <3>4. Told(b, Unsent)
        BY DEF Told, RowsOf, Places, BatchInit, Unsent
      <3> QED BY <3>1, <3>3, <3>4
    <2> QED BY <2>2, <2>3 DEF BatchInv
  <1>2. BatchInv /\ [BatchNext]_batchVars => BatchInv'
    <2> SUFFICES ASSUME BatchInv, [BatchNext]_batchVars PROVE BatchInv'
      OBVIOUS
    <2>1. CASE UNCHANGED batchVars
      BY <2>1 DEF batchVars, BatchInv, BatchTypes, Told, RowsOf, Sent, Request
    <2>2. ASSUME NEW b \in Upload, SendBatch(b) \/ BatchStep(b) \/ LoseBatch(b)
          PROVE  BatchInv'
      <3>1. CASE SendBatch(b)
        BY <3>1, SendKeeps, ShapeAssumption
      <3>2. CASE Open(b)
        BY <3>2, OpenKeeps
      <3>3. CASE InsertRow(b)
        BY <3>3, InsertKeeps
      <3>4. CASE WidenSeries(b)
        BY <3>4, WidenKeeps
      <3>5. CASE CommitBatch(b)
        BY <3>5, StepOut DEF CommitBatch, CommitAs, OpenPc
      <3>6. CASE BreakBatchDeadlock(b)
        BY <3>6, WaitsAreWrites, RowFailsKeeps DEF BreakBatchDeadlock
      <3>7. CASE LoseBatch(b)
        <4>1. batch[b].pc \in OpenPc
          BY <3>7 DEF LoseBatch, Sent, BatchInv, BatchTypes, BatchRecord
        <4> QED BY <3>7, <4>1, StepOut DEF LoseBatch, RollBack
      <3> QED BY <2>2, <3>1, <3>2, <3>3, <3>4, <3>5, <3>6, <3>7 DEF BatchStep
    <2> QED BY <2>1, <2>2 DEF BatchNext
  <1> QED BY <1>1, <1>2, PTL DEF BatchSpec

\* The variables of Batches keep their types: a request has one answer for each item it
\* has dealt with, and only an open one holds a Datastream.
THEOREM BatchTypesHold == BatchSpec => []BatchTypeOK
  <1>1. BatchInv => BatchTypeOK
    BY DEF BatchInv, BatchTypes, BatchTypeOK, Request, BatchRecord, OpenPc
  <1> QED BY <1>1, BatchInvariance, PTL

\* What a request answers tells what is stored, row by row, whatever failed, waited or was
\* the victim of a deadlock on the way.
THEOREM Telling == BatchSpec => []AnswersTell
  <1>1. BatchInv => AnswersTell
    <2> SUFFICES ASSUME BatchInv, NEW b \in Upload
                 PROVE  Places(RowsOf(b)) =
                          IF batch[b].pc = "created"
                             \/ (batch[b].kind = "data" /\ batch[b].pc = "refused")
                          THEN WithLink(batch[b]) ELSE {}
      BY DEF AnswersTell, Places, WithLink
    <2>1. Request(b, batch[b]) /\ Told(b, batch[b])
      BY DEF BatchInv
    <2> QED BY <2>1 DEF Request, Told
  <1> QED BY <1>1, BatchInvariance, PTL

-----------------------------------------------------------------------------
(* Paging.                                                                 *)

\* The ids that are behind a client who has been given these.
Upto(given) == {i \in Id : \E j \in given : i = j \/ Before(i, j)}

\* Rows in the order of the keys.
Ordered(s, N) == s \in [1 .. N -> Id] /\ \A j, k \in 1 .. N : j < k => Before(s[j], s[k])

\* The rows at these positions.
Part(s, a, b) == {s[j] : j \in a .. b}

LEMMA BeforeOrders ==
    ASSUME NEW i \in Id, NEW j \in Id
    PROVE  /\ Before(i, j) => ~Before(j, i) /\ i # j
           /\ i = j \/ Before(i, j) \/ Before(j, i)
           /\ \A k \in Id : Before(i, j) /\ Before(j, k) => Before(i, k)
  <1>1. i \in Nat /\ j \in Nat /\ OrderKey[i] \in Nat /\ OrderKey[j] \in Nat
        /\ \A k \in Id : k \in Nat /\ OrderKey[k] \in Nat
    BY PagingAssumption DEF Id
  <1> QED BY <1>1 DEF Before

LEMMA IdsAreFinite ==
    ASSUME NEW S \in SUBSET Id
    PROVE  IsFiniteSet(S) /\ Cardinality(S) \in Nat
  <1>1. IsFiniteSet(Id)
    BY FS_Interval, PagingAssumption, 1 \in Int, MaxId \in Int DEF Id
  <1>2. IsFiniteSet(S)
    BY <1>1, FS_Subset
  <1> QED BY <1>2, FS_CardinalityType

LEMMA PartCount ==
    ASSUME NEW N \in Nat, NEW s, Ordered(s, N), NEW a \in Nat, NEW b \in Nat, 1 <= a, b <= N,
           a <= b + 1
    PROVE  Part(s, a, b) \in SUBSET Id /\ Cardinality(Part(s, a, b)) = b + 1 - a
  <1>1. \A j \in a .. b : j \in 1 .. N /\ s[j] \in Id
    BY DEF Ordered
  <1>2. \A j, k \in a .. b : j # k => s[j] # s[k]
    <2> SUFFICES ASSUME NEW j \in a .. b, NEW k \in a .. b, j < k
                 PROVE  s[j] # s[k]
      OBVIOUS
    <2> QED BY <1>1, BeforeOrders DEF Ordered
  <1> DEFINE f == [j \in a .. b |-> s[j]]
  <1>3. f \in Bijection(a .. b, Part(s, a, b))
    BY <1>1, <1>2 DEF Part, Bijection, Injection, Surjection, IsInjective
  <1>4. IsFiniteSet(a .. b) /\ Cardinality(a .. b) = b + 1 - a
    <2>1. /\ IsFiniteSet(a .. b)
          /\ Cardinality(a .. b) = IF a > b THEN 0 ELSE b - a + 1
      BY FS_Interval, a \in Int, b \in Int
    <2>2. CASE a > b
      <3>1. a = b + 1
        BY <2>2
      <3> QED BY <2>1, <2>2, <3>1
    <2>3. CASE ~(a > b)
      BY <2>1, <2>3
    <2> QED BY <2>2, <2>3
  <1>5. Cardinality(Part(s, a, b)) = b + 1 - a
    BY <1>3, <1>4, FS_Bijection DEF ExistsBijection
  <1> QED BY <1>1, <1>5 DEF Part

\* What is behind a client is a first part of the rows.
LEMMA FirstPart ==
    ASSUME NEW N \in Nat, NEW s, Ordered(s, N), NEW given \in SUBSET Id
    PROVE  \E b \in 0 .. N : /\ Part(s, 1, N) \cap Upto(given) = Part(s, 1, b)
                             /\ \A j \in 1 .. N : s[j] \in Upto(given) <=> j <= b
  <1> DEFINE ends == {k \in 0 .. N : k = N \/ s[k + 1] \notin Upto(given)}
  <1>1. N \in ends /\ ends \in SUBSET Nat
    OBVIOUS
  <1>2. PICK b \in ends : \A k \in ends : b <= k
    BY <1>1, LeastNatural
  <1>3. ASSUME NEW j \in 1 .. N, j <= b PROVE s[j] \in Upto(given)
    <2>1. j - 1 \in 0 .. N /\ j - 1 # N /\ ~(b <= j - 1) /\ (j - 1) + 1 = j
      BY <1>3
    <2>2. j - 1 \notin ends
      BY <1>2, <2>1
    <2> QED BY <2>1, <2>2
  <1>4. ASSUME NEW j \in 1 .. N, b < j PROVE s[j] \notin Upto(given)
    <2>1. b + 1 \in 1 .. N /\ s[b + 1] \notin Upto(given)
      BY <1>2, <1>4
    <2>2. s[b + 1] = s[j] \/ Before(s[b + 1], s[j])
      BY <1>4, <2>1 DEF Ordered
    <2>3. s[b + 1] \in Id /\ s[j] \in Id
      BY <2>1 DEF Ordered
    <2> QED BY <2>1, <2>2, <2>3, BeforeOrders DEF Upto
  <1>5. b \in 0 .. N /\ \A j \in 1 .. N : s[j] \in Upto(given) <=> j <= b
    BY <1>2, <1>3, <1>4
  <1>6. Part(s, 1, N) \cap Upto(given) = Part(s, 1, b)
    BY <1>5 DEF Part
  <1> QED BY <1>5, <1>6

\* What another page, p rows from skip on, changes for a client who has been given some ids:
\* how many rows are behind the client then, how many of the ids are new, and how many of the
\* rows that stayed are behind the client and not given, or never will be.
PageMoves(N, s, given, stayed, skip, p, more, b, missed) ==
    /\ b \in Nat /\ missed \in Nat /\ more \in SUBSET Id
    /\ p > 0 => /\ Cardinality(Part(s, 1, N) \cap Upto(more))
                     = IF b > skip + p THEN b ELSE skip + p
                /\ b <= skip => Cardinality(more) = Cardinality(given) + p
                /\ b >= skip => Cardinality(more) + b >= Cardinality(given) + skip + p
                /\ Cardinality(more) >= Cardinality(given)
    /\ Cardinality((stayed \cap Upto(more)) \ more)
         <= missed + (IF b < skip THEN skip - b ELSE 0)
    /\ N <= skip + p => Cardinality(stayed \ more)
                          <= missed + (IF b < skip THEN skip - b ELSE 0)

LEMMA AnotherPage ==
    ASSUME NEW N \in Nat, NEW s, Ordered(s, N), NEW given \in SUBSET Id,
           NEW stayed, stayed \subseteq Part(s, 1, N),
           NEW skip \in Nat, NEW p \in Nat, p = 0 \/ skip + p <= N,
           NEW more, more = given \cup Part(s, skip + 1, skip + p),
           NEW b, b = Cardinality(Part(s, 1, N) \cap Upto(given)),
           NEW missed, missed = Cardinality((stayed \cap Upto(given)) \ given)
    PROVE  PageMoves(N, s, given, stayed, skip, p, more, b, missed)
  <1> DEFINE P == Part(s, skip + 1, skip + p)
             M == (stayed \cap Upto(given)) \ given
             end == IF skip < N THEN skip ELSE N
             jumped == Part(s, b + 1, end)
  <1>1. PICK c \in 0 .. N : /\ Part(s, 1, N) \cap Upto(given) = Part(s, 1, c)
                            /\ \A j \in 1 .. N : s[j] \in Upto(given) <=> j <= c
    BY FirstPart
  <1>2. Part(s, 1, c) \in SUBSET Id /\ Cardinality(Part(s, 1, c)) = c
    BY PartCount
  <1>3. b = c /\ b \in 0 .. N
    BY <1>1, <1>2
  <1>4. \A j \in 1 .. N : s[j] \in Id
    BY DEF Ordered
  <1>5. stayed \in SUBSET Id /\ P \in SUBSET Id /\ more \in SUBSET Id
    BY <1>4 DEF Part
  <1>6. M \in SUBSET Id /\ missed \in Nat
    BY <1>5, IdsAreFinite
  <1>7. jumped \in SUBSET Id /\ IsFiniteSet(jumped)
        /\ Cardinality(jumped) <= (IF b < skip THEN skip - b ELSE 0)
    <2>1. CASE b < skip
      <3>1. CASE skip < N
        BY <1>3, <2>1, <3>1, PartCount, IdsAreFinite, b + 1 \in Nat, skip \in Nat
      <3>2. CASE ~(skip < N)
        BY <1>3, <2>1, <3>2, PartCount, IdsAreFinite, b + 1 \in Nat, N \in Nat
      <3> QED BY <3>1, <3>2
    <2>2. CASE ~(b < skip)
      <3>1. end \in Nat /\ end <= b
        BY <1>3, <2>2
      <3> HIDE DEF end
      <3>2. \A j \in b + 1 .. end : FALSE
        BY <1>3, <3>1
      <3>3. jumped = {}
        BY <3>2 DEF Part
      <3> QED BY <2>2, <3>3, FS_EmptySet
    <2> QED BY <2>1, <2>2
  <1>8. IsFiniteSet(M \cup jumped)
        /\ Cardinality(M \cup jumped) <= missed + (IF b < skip THEN skip - b ELSE 0)
    <2>1. IsFiniteSet(M) /\ missed = Cardinality(M)
      BY <1>6, IdsAreFinite
    <2>2. IsFiniteSet(M \cup jumped)
          /\ Cardinality(M \cup jumped) = missed + Cardinality(jumped) - Cardinality(M \cap jumped)
      BY <1>7, <2>1, FS_Union, ZenonT(60)
    <2>3. Cardinality(jumped) \in Nat /\ Cardinality(M \cap jumped) \in Nat
      BY <1>6, <1>7, IdsAreFinite
    <2> HIDE DEF M, jumped
    <2> QED BY <1>3, <1>6, <1>7, <2>2, <2>3
  \* A row that is behind the client without having been given was so, or is jumped over.
  <1>9. (stayed \cap Upto(more)) \ more \subseteq M \cup jumped
    <2> SUFFICES ASSUME NEW x \in stayed, x \in Upto(more), x \notin more, x \notin M
                 PROVE  x \in jumped
      OBVIOUS
    <2>1. PICK j \in 1 .. N : x = s[j]
      BY DEF Part
    <2>2. x \notin Upto(given) /\ j > b
      BY <1>1, <1>3, <2>1
    <2>3. PICK y \in more : x = y \/ Before(x, y)
      BY DEF Upto
    <2>4. y \in P /\ x # y /\ Before(x, y)
      BY <2>2, <2>3, <1>4, <2>1 DEF Upto
    <2>5. PICK i \in skip + 1 .. skip + p : y = s[i]
      BY <2>4 DEF Part
    <2>6. i \in 1 .. N
      BY <2>5
    <2>7. ~(i < j) /\ i # j
      BY <1>4, <2>1, <2>4, <2>5, <2>6, BeforeOrders DEF Ordered
    <2>8. j \notin skip + 1 .. skip + p
      BY <2>1 DEF Part
    <2>9. j <= skip
      BY <2>5, <2>6, <2>7, <2>8
    <2>10. j \in b + 1 .. end
      BY <1>3, <2>2, <2>9
    <2> QED BY <2>1, <2>10 DEF Part
  <1>10. ASSUME N <= skip + p PROVE stayed \ more \subseteq M \cup jumped
    <2> SUFFICES ASSUME NEW x \in stayed, x \notin more, x \notin M
                 PROVE  x \in jumped
      OBVIOUS
    <2>1. PICK j \in 1 .. N : x = s[j]
      BY DEF Part
    <2>2. x \notin Upto(given) /\ j > b
      BY <1>1, <1>3, <2>1
    <2>3. j \notin skip + 1 .. skip + p
      BY <2>1 DEF Part
    <2>4. j <= skip
      BY <1>10, <2>3
    <2>5. j \in b + 1 .. end
      BY <1>3, <2>2, <2>4
    <2> QED BY <2>1, <2>5 DEF Part
  <1>11. /\ Cardinality((stayed \cap Upto(more)) \ more)
              <= missed + (IF b < skip THEN skip - b ELSE 0)
         /\ N <= skip + p => Cardinality(stayed \ more)
                               <= missed + (IF b < skip THEN skip - b ELSE 0)
    <2> DEFINE all == M \cup jumped
               new == (stayed \cap Upto(more)) \ more
               left == stayed \ more
    <2>1. new \in SUBSET Id /\ left \in SUBSET Id /\ Cardinality(new) \in Nat /\ Cardinality(left) \in Nat
      BY <1>5, IdsAreFinite
    <2>2. Cardinality(all) \in Nat
      BY <1>8, FS_CardinalityType
    <2>3. Cardinality(new) <= Cardinality(all)
      BY <1>8, <1>9, FS_Subset
    <2>4. N <= skip + p => Cardinality(left) <= Cardinality(all)
      BY <1>8, <1>10, FS_Subset
    <2>5. Cardinality(all) <= missed + (IF b < skip THEN skip - b ELSE 0)
      BY <1>8
    <2> HIDE DEF all, new, left
    <2>6. /\ Cardinality(new) <= missed + (IF b < skip THEN skip - b ELSE 0)
          /\ N <= skip + p => Cardinality(left) <= missed + (IF b < skip THEN skip - b ELSE 0)
      BY <1>3, <1>6, <2>1, <2>2, <2>3, <2>4, <2>5
    <2> QED BY <2>6 DEF new, left
  <1>12. ASSUME p > 0
         PROVE  /\ Cardinality(Part(s, 1, N) \cap Upto(more))
                     = IF b > skip + p THEN b ELSE skip + p
                /\ b <= skip => Cardinality(more) = Cardinality(given) + p
                /\ b >= skip => Cardinality(more) + b >= Cardinality(given) + skip + p
                /\ Cardinality(more) >= Cardinality(given)
    <2>1. skip + p <= N /\ skip + p \in 1 .. N
      BY <1>12
    <2> DEFINE d == IF b > skip + p THEN b ELSE skip + p
               from == IF b > skip THEN IF b > skip + p THEN skip + p ELSE b ELSE skip
               fresh == Part(s, from + 1, skip + p)
    <2>2. \A j \in 1 .. N : s[j] \in Upto(more) <=> j <= d
      <3>1. ASSUME NEW j \in 1 .. N, j <= b PROVE s[j] \in Upto(more)
        BY <1>1, <1>3, <3>1 DEF Upto
      <3>2. ASSUME NEW j \in 1 .. N, j <= skip + p PROVE s[j] \in Upto(more)
        <4>1. s[skip + p] \in more
          BY <1>12, <2>1 DEF Part
        <4>2. s[j] = s[skip + p] \/ Before(s[j], s[skip + p])
          BY <2>1, <3>2 DEF Ordered
        <4> QED BY <1>4, <4>1, <4>2 DEF Upto
      <3>3. ASSUME NEW j \in 1 .. N, s[j] \in Upto(more), j > b PROVE j <= skip + p
        <4>1. PICK y \in more : s[j] = y \/ Before(s[j], y)
          BY <3>3 DEF Upto
        <4>2. y \notin given
          BY <1>1, <1>3, <1>4, <3>3, <4>1 DEF Upto
        <4>3. PICK i \in skip + 1 .. skip + p : y = s[i]
          BY <4>1, <4>2 DEF Part
        <4>4. ~(i < j)
          BY <1>4, <2>1, <4>1, <4>3, BeforeOrders DEF Ordered
        <4> QED BY <4>3, <4>4
      <3>4. ASSUME NEW j \in 1 .. N PROVE j <= d <=> j <= b \/ j <= skip + p
        BY <1>3
      <3> HIDE DEF d
      <3>5. ASSUME NEW j \in 1 .. N PROVE s[j] \in Upto(more) <=> j <= d
        <4>1. j > b \/ j <= b
          BY <1>3
        <4> QED BY <3>1, <3>2, <3>3, <3>4, <4>1
      <3> QED BY <3>5
    <2>3. d \in 0 .. N
      BY <1>3, <2>1
    <2> HIDE DEF d
    <2>4. Cardinality(Part(s, 1, N) \cap Upto(more)) = d
      <3>1. Part(s, 1, N) \cap Upto(more) = Part(s, 1, d)
        BY <2>2, <2>3 DEF Part
      <3>2. Cardinality(Part(s, 1, d)) = d + 1 - 1
        BY <2>3, PartCount, 1 \in Nat
      <3> QED BY <2>3, <3>1, <3>2
    <2>5. from \in Nat /\ from + 1 \in Nat /\ skip <= from /\ from <= skip + p
      BY <1>3
    <2>6. fresh \in SUBSET Id /\ Cardinality(fresh) = skip + p - from /\ IsFiniteSet(fresh)
      <3>1. fresh \in SUBSET Id /\ Cardinality(fresh) = (skip + p) + 1 - (from + 1)
        BY <2>1, <2>5, PartCount, skip + p \in Nat
      <3> HIDE DEF fresh, from
      <3> QED BY <2>5, <3>1, IdsAreFinite
    <2>7. fresh \cap given = {}
      <3> SUFFICES ASSUME NEW j \in from + 1 .. skip + p PROVE s[j] \notin given
        BY DEF Part
      <3>1. j \in 1 .. N /\ j > b
        BY <1>3, <2>1, <2>5
      <3> QED BY <1>1, <1>3, <1>4, <3>1 DEF Upto
    <2>8. fresh \subseteq P
      BY <2>5 DEF Part
    <2>9. IsFiniteSet(given) /\ Cardinality(given) \in Nat /\ IsFiniteSet(more)
          /\ Cardinality(more) \in Nat
      BY <1>5, IdsAreFinite
    <2>10. Cardinality(given \cup fresh) = Cardinality(given) + (skip + p - from)
      <3>1. Cardinality(given \cup fresh)
              = Cardinality(given) + Cardinality(fresh) - Cardinality(given \cap fresh)
        <4> HIDE DEF fresh
        <4> QED BY <2>6, <2>9, FS_Union
      <3>2. Cardinality(given \cap fresh) = 0
        BY <2>7, FS_EmptySet
      <3> HIDE DEF fresh, from
      <3> QED BY <2>5, <2>6, <2>9, <3>1, <3>2
    <2>11. Cardinality(given \cup fresh) <= Cardinality(more)
      BY <2>8, <2>9, FS_Subset
    <2>12. b <= skip => from = skip
      BY <1>3
    <2>13. b <= skip => Cardinality(more) = Cardinality(given) + p
      <3> HAVE b <= skip
      <3>1. given \cup fresh = more
        BY <2>12
      <3>2. from = skip
        BY <2>12
      <3> HIDE DEF fresh, from
      <3>3. Cardinality(more) = Cardinality(given) + (skip + p - skip)
        BY <2>10, <3>1, <3>2
      <3> QED BY <2>9, <3>3
    <2>14. Cardinality(more) >= Cardinality(given) + (skip + p - from)
      <3> HIDE DEF from
      <3> QED BY <2>5, <2>9, <2>10, <2>11
    <2>15. b >= skip => from <= b
      BY <1>3, <2>5
    <2> HIDE DEF fresh, from
    <2>16. /\ b >= skip => Cardinality(more) + b >= Cardinality(given) + skip + p
           /\ Cardinality(more) >= Cardinality(given)
      BY <1>3, <2>5, <2>9, <2>14, <2>15
    <2> QED BY <2>4, <2>13, <2>16 DEF d
  <1> QED BY <1>3, <1>5, <1>6, <1>11, <1>12 DEF PageMoves

\* What has been given, n ids with repetitions, and where the next page begins: rows that
\* stayed are not yet among them, or will not be, only for deletions behind the client; ids
\* are given twice, or will be, only for commits behind the client.
Accounted(rows, h, given, n, skip) ==
    LET behind == Cardinality(rows \cap Upto(given))
        missed == Cardinality((h.stayed \cap Upto(given)) \ given)
        new == Cardinality(given)
    IN  /\ missed <= h.removed /\ missed + skip <= h.removed + behind
        /\ n <= new + h.late /\ n + behind <= new + h.late + skip

\* After the last page nothing more is given.
AtEnd(h, given, n) ==
    /\ Cardinality(h.stayed \ given) <= h.removed
    /\ n <= Cardinality(given) + h.late

PagingTypes ==
    /\ stored \in SUBSET Id /\ open \in SUBSET Id /\ stored \cap open = {}
    /\ serial \in 0 .. MaxId /\ stored \cup open \subseteq 1 .. serial
    /\ walk \in [top : Tops, skip : Nat, seen : Seq(Id), linked : BOOLEAN]
    /\ page \in [open : BOOLEAN, rows : Seq(Id), total : Nat, sent : Seq(Id)]
    /\ past \in [stayed : SUBSET Id, removed : Nat, late : Nat, deletes : Nat, breaks : Nat]
    /\ past.stayed \subseteq stored
    /\ ~page.open => page = NoPage
    /\ page.open => walk.linked
    /\ page.total + Len(page.rows) <= walk.top + 1
    /\ Len(page.sent) = IF page.total <= walk.top THEN page.total ELSE walk.top

\* The pages that the client has got, and the one on its way.
PagesGot ==
    IF walk.linked
    THEN Accounted(stored, past, ToSet(walk.seen), Len(walk.seen), walk.skip)
    ELSE AtEnd(past, ToSet(walk.seen), Len(walk.seen))

PageComing == page.open =>
    IF page.total + Len(page.rows) > walk.top
    THEN Accounted(stored, past, Delivered, Len(walk.seen) + walk.top, walk.skip + walk.top)
    ELSE AtEnd(past, Delivered, Len(walk.seen) + page.total + Len(page.rows))

WalkInv == PagingTypes /\ PagesGot /\ PageComing

LEMMA GivenIds ==
    ASSUME PagingTypes
    PROVE  /\ ToSet(walk.seen) \in SUBSET Delivered /\ Delivered \in SUBSET Id
           /\ walk.top \in Nat /\ walk.skip \in Nat /\ Len(walk.seen) \in Nat
           /\ page.total \in Nat /\ Len(page.rows) \in Nat /\ Len(page.sent) \in Nat
           /\ walk.seen \in Seq(Id) /\ page.rows \in Seq(Id) /\ page.sent \in Seq(Id)
           /\ past.removed \in Nat /\ past.late \in Nat /\ past.stayed \in SUBSET Id
  <1>1. walk.top \in Nat
    BY PagingAssumption DEF PagingTypes
  <1>2. walk.seen \in Seq(Id) /\ page.rows \in Seq(Id) /\ page.sent \in Seq(Id)
    BY DEF PagingTypes
  <1>3. ToSet(walk.seen) \in SUBSET Id /\ ToSet(page.sent) \in SUBSET Id /\ ToSet(page.rows) \in SUBSET Id
    BY <1>2 DEF ToSet
  <1>4. ToSet(walk.seen) \in SUBSET Delivered /\ Delivered \in SUBSET Id
    BY <1>3 DEF Delivered, ToSet
  <1> QED BY <1>1, <1>2, <1>4 DEF PagingTypes

\* A commit behind the client is counted as late, if it is among the rows of the next page
\* or not; in front of it, it changes nothing.
LEMMA CommitAccounted ==
    ASSUME NEW rows \in SUBSET Id, NEW i \in Id, NEW given \in SUBSET Id, NEW n \in Nat,
           NEW skip \in Nat, NEW h, NEW g, h.removed \in Nat, h.late \in Nat,
           h.stayed \in SUBSET Id,
           g.stayed = h.stayed, g.removed = h.removed,
           g.late = h.late + 1 \/ (g.late = h.late /\ i \notin Upto(given))
    PROVE  /\ Accounted(rows, h, given, n, skip) => Accounted(rows \cup {i}, g, given, n, skip)
           /\ AtEnd(h, given, n) => AtEnd(g, given, n)
  <1> DEFINE behind == Cardinality(rows \cap Upto(given))
             more == Cardinality((rows \cup {i}) \cap Upto(given))
  <1>1. behind \in Nat /\ IsFiniteSet(rows \cap Upto(given))
    BY IdsAreFinite
  <1>2. CASE i \in Upto(given)
    <2>1. (rows \cup {i}) \cap Upto(given) = (rows \cap Upto(given)) \cup {i}
      BY <1>2
    <2>2. more = behind \/ more = behind + 1
      BY <1>1, <2>1, FS_AddElement
    <2>3. Cardinality(given) \in Nat /\ Cardinality((h.stayed \cap Upto(given)) \ given) \in Nat
      BY IdsAreFinite
    <2>4. g.late = h.late + 1
      BY <1>2
    <2> HIDE DEF behind, more
    <2>5. Cardinality(h.stayed \ given) \in Nat
      BY IdsAreFinite
    <2> QED BY <1>1, <2>2, <2>3, <2>4, <2>5 DEF Accounted, AtEnd, behind, more
  <1>3. CASE i \notin Upto(given)
    <2>1. (rows \cup {i}) \cap Upto(given) = rows \cap Upto(given)
      BY <1>3
    <2>2. Cardinality(given) \in Nat /\ Cardinality((h.stayed \cap Upto(given)) \ given) \in Nat
          /\ Cardinality(h.stayed \ given) \in Nat
      BY IdsAreFinite
    <2>3. more = behind
      BY <2>1
    <2>4. g.late >= h.late /\ g.late \in Nat
      OBVIOUS
    <2> HIDE DEF behind, more
    <2> QED BY <1>1, <2>2, <2>3, <2>4 DEF Accounted, AtEnd, behind, more
  <1> QED BY <1>2, <1>3

\* A deletion behind the client is counted; in front of it, it changes nothing.
LEMMA DeleteAccounted ==
    ASSUME NEW rows \in SUBSET Id, NEW i \in rows, NEW given \in SUBSET Id, NEW n \in Nat,
           NEW skip \in Nat, NEW h, NEW g, h.removed \in Nat, h.late \in Nat,
           h.stayed \in SUBSET Id,
           g.stayed = h.stayed \ {i}, g.late = h.late,
           g.removed = h.removed + 1 \/ (g.removed = h.removed /\ i \notin Upto(given))
    PROVE  /\ Accounted(rows, h, given, n, skip) => Accounted(rows \ {i}, g, given, n, skip)
           /\ AtEnd(h, given, n) => AtEnd(g, given, n)
  <1> DEFINE behind == Cardinality(rows \cap Upto(given))
             fewer == Cardinality((rows \ {i}) \cap Upto(given))
             M == (h.stayed \cap Upto(given)) \ given
             K == (g.stayed \cap Upto(given)) \ given
             L == h.stayed \ given
             J == g.stayed \ given
  <1>1. behind \in Nat /\ IsFiniteSet(rows \cap Upto(given))
    BY IdsAreFinite
  <1>2. (rows \ {i}) \cap Upto(given) = (rows \cap Upto(given)) \ {i}
    OBVIOUS
  <1>3. fewer = IF i \in Upto(given) THEN behind - 1 ELSE behind
    BY <1>1, <1>2, FS_RemoveElement
  <1>4. Cardinality(K) <= Cardinality(M) /\ Cardinality(J) <= Cardinality(L)
    <2>1. K \subseteq M /\ J \subseteq L /\ M \in SUBSET Id /\ L \in SUBSET Id
      OBVIOUS
    <2> HIDE DEF K, M, J, L
    <2> QED BY <2>1, IdsAreFinite, FS_Subset
  <1>5. /\ Cardinality(K) \in Nat /\ Cardinality(M) \in Nat
        /\ Cardinality(J) \in Nat /\ Cardinality(L) \in Nat
    BY IdsAreFinite
  <1>6. Cardinality(given) \in Nat
    BY IdsAreFinite
  <1>7. fewer \in Nat
    BY IdsAreFinite
  <1>8. ASSUME Accounted(rows, h, given, n, skip)
        PROVE  Accounted(rows \ {i}, g, given, n, skip)
    <2>1. /\ Cardinality(M) <= h.removed /\ Cardinality(M) + skip <= h.removed + behind
          /\ n <= Cardinality(given) + h.late
          /\ n + behind <= Cardinality(given) + h.late + skip
      BY <1>8 DEF Accounted
    <2> HIDE DEF behind, fewer, M, K, L, J
    <2>2. /\ Cardinality(K) <= g.removed /\ Cardinality(K) + skip <= g.removed + fewer
          /\ n <= Cardinality(given) + g.late
          /\ n + fewer <= Cardinality(given) + g.late + skip
      BY <1>1, <1>3, <1>4, <1>5, <1>6, <1>7, <2>1
    <2> QED BY <2>2 DEF Accounted, fewer, K
  <1>9. ASSUME AtEnd(h, given, n) PROVE AtEnd(g, given, n)
    <2>1. Cardinality(L) <= h.removed /\ n <= Cardinality(given) + h.late
      BY <1>9 DEF AtEnd
    <2> HIDE DEF L, J
    <2>2. Cardinality(J) <= g.removed /\ n <= Cardinality(given) + g.late
      BY <1>4, <1>5, <2>1
    <2> QED BY <2>2 DEF AtEnd, J
  <1> QED BY <1>8, <1>9

-----------------------------------------------------------------------------
(* Paging: steps.                                                          *)

\* What is said of any ids the client may have been given holds of the pages.
LEMMA PagesKept ==
    ASSUME WalkInv, walk' = walk, page' = page,
           \A given \in SUBSET Delivered, n \in Nat, skip \in Nat :
              /\ Accounted(stored, past, given, n, skip)
                   => Accounted(stored', past', given, n, skip)
              /\ AtEnd(past, given, n) => AtEnd(past', given, n)
    PROVE  PagesGot' /\ PageComing'
  <1>1. Delivered' = Delivered
    BY DEF Delivered
  <1>2. /\ ToSet(walk.seen) \in SUBSET Delivered /\ Delivered \in SUBSET Delivered
        /\ walk.skip \in Nat /\ walk.skip + walk.top \in Nat /\ Len(walk.seen) \in Nat
        /\ Len(walk.seen) + walk.top \in Nat
        /\ Len(walk.seen) + page.total + Len(page.rows) \in Nat
    <2>1. /\ ToSet(walk.seen) \in SUBSET Delivered /\ walk.skip \in Nat /\ walk.top \in Nat
          /\ Len(walk.seen) \in Nat /\ page.total \in Nat /\ Len(page.rows) \in Nat
      <3>1. PagingTypes
        BY DEF WalkInv
      <3> QED BY <3>1, GivenIds, Zenon
    <2>2. Delivered \in SUBSET Delivered
      OBVIOUS
    <2>3. /\ walk.skip + walk.top \in Nat /\ Len(walk.seen) + walk.top \in Nat
          /\ Len(walk.seen) + page.total + Len(page.rows) \in Nat
      <3>1. \A a, b \in Nat : a + b \in Nat
        OBVIOUS
      <3> QED BY <2>1, <3>1, Zenon
    <2> QED BY <2>1, <2>2, <2>3, Zenon
  <1>3. PagesGot'
    <2>1. PagesGot' = IF walk.linked
                      THEN Accounted(stored', past', ToSet(walk.seen), Len(walk.seen), walk.skip)
                      ELSE AtEnd(past', ToSet(walk.seen), Len(walk.seen))
      BY DEF PagesGot, Accounted, AtEnd
    <2> QED BY <1>2, <2>1 DEF WalkInv, PagesGot
  <1>4. PageComing'
    <2>1. PageComing' = (page.open =>
             IF page.total + Len(page.rows) > walk.top
             THEN Accounted(stored', past', Delivered, Len(walk.seen) + walk.top,
                            walk.skip + walk.top)
             ELSE AtEnd(past', Delivered, Len(walk.seen) + page.total + Len(page.rows)))
      BY <1>1 DEF PageComing, Accounted, AtEnd
    <2> QED BY <1>2, <2>1 DEF WalkInv, PageComing
  <1> QED BY <1>3, <1>4

LEMMA AllocateTypes ==
    ASSUME PagingTypes, Allocate
    PROVE  PagingTypes'
  <1>1. /\ stored' = stored /\ past' = past /\ walk' = walk /\ page' = page
        /\ serial' = serial + 1 /\ open' = open \cup {serial + 1} /\ serial < MaxId
    BY DEF Allocate
  <1>2. serial \in Nat /\ MaxId \in Nat /\ stored \cup open \subseteq 1 .. serial
    BY PagingAssumption DEF PagingTypes
  <1>3. serial' \in 0 .. MaxId /\ serial + 1 \in Id /\ serial + 1 \notin stored
        /\ 1 .. serial \subseteq 1 .. serial + 1 /\ serial + 1 \in 1 .. serial + 1
    BY <1>1, <1>2 DEF Id
  <1>4. /\ stored' \in SUBSET Id /\ open' \in SUBSET Id /\ stored' \cap open' = {}
        /\ serial' \in 0 .. MaxId /\ stored' \cup open' \subseteq 1 .. serial'
    BY <1>1, <1>2, <1>3 DEF PagingTypes
  <1> QED BY <1>1, <1>4 DEF PagingTypes

LEMMA AllocateKeeps ==
    ASSUME WalkInv, Allocate
    PROVE  PagesGot' /\ PageComing'
  <1>1. stored' = stored /\ past' = past /\ walk' = walk /\ page' = page
    BY DEF Allocate
  <1> QED BY <1>1, PagesKept

\* A deletion or a commit leaves the types, whatever it counts.
LEMMA CountsKeep ==
    ASSUME PagingTypes, walk' = walk, page' = page, serial' = serial,
           stored' \in SUBSET Id, open' \in SUBSET open, stored' \cap open' = {},
           stored' \subseteq stored \cup open,
           past' \in [stayed : SUBSET Id, removed : Nat, late : Nat, deletes : Nat, breaks : Nat],
           past'.stayed \subseteq stored'
    PROVE  PagingTypes'
  BY DEF PagingTypes

LEMMA CommitMoves ==
    ASSUME PagingTypes, CommitInsert
    PROVE  \E i \in open, d \in {0, 1} :
              /\ d = IF Behind(i) THEN 1 ELSE 0
              /\ stored' = stored \cup {i} /\ open' = open \ {i}
              /\ serial' = serial /\ walk' = walk /\ page' = page
              /\ past'.stayed = past.stayed /\ past'.removed = past.removed
              /\ past'.late = past.late + d
              /\ past' \in [stayed : SUBSET Id, removed : Nat, late : Nat, deletes : Nat,
                            breaks : Nat]
  <1>1. PICK i \in open :
           /\ stored' = stored \cup {i} /\ open' = open \ {i}
           /\ past' = [past EXCEPT !.late = @ + (IF Behind(i) THEN 1 ELSE 0)]
           /\ serial' = serial /\ walk' = walk /\ page' = page
    BY DEF CommitInsert
  <1>2. PICK d \in {0, 1} : d = IF Behind(i) THEN 1 ELSE 0
    OBVIOUS
  <1>3. past' = [past EXCEPT !.late = @ + d]
    BY <1>1, <1>2
  <1>4. past \in [stayed : SUBSET Id, removed : Nat, late : Nat, deletes : Nat, breaks : Nat]
    BY DEF PagingTypes
  <1>5. /\ past'.stayed = past.stayed /\ past'.removed = past.removed
        /\ past'.late = past.late + d
        /\ past' \in [stayed : SUBSET Id, removed : Nat, late : Nat, deletes : Nat, breaks : Nat]
    BY <1>3, <1>4
  <1> QED BY <1>1, <1>2, <1>5

LEMMA CommitInsertTypes ==
    ASSUME PagingTypes, CommitInsert
    PROVE  PagingTypes'
  <1>1. PICK i \in open, d \in {0, 1} :
              /\ d = IF Behind(i) THEN 1 ELSE 0
              /\ stored' = stored \cup {i} /\ open' = open \ {i}
              /\ serial' = serial /\ walk' = walk /\ page' = page
              /\ past'.stayed = past.stayed /\ past'.removed = past.removed
              /\ past'.late = past.late + d
              /\ past' \in [stayed : SUBSET Id, removed : Nat, late : Nat, deletes : Nat,
                            breaks : Nat]
    BY CommitMoves
  <1>2. i \in Id /\ stored \in SUBSET Id /\ stored \cap open = {} /\ open \in SUBSET Id
        /\ past.stayed \subseteq stored
    BY DEF PagingTypes
  <1> QED BY <1>1, <1>2, CountsKeep

LEMMA CommitInsertKeeps ==
    ASSUME WalkInv, CommitInsert
    PROVE  PagesGot' /\ PageComing'
  <1>1. PagingTypes
    BY DEF WalkInv
  <1>2. PICK i \in open, d \in {0, 1} :
              /\ d = IF Behind(i) THEN 1 ELSE 0
              /\ stored' = stored \cup {i} /\ open' = open \ {i}
              /\ serial' = serial /\ walk' = walk /\ page' = page
              /\ past'.stayed = past.stayed /\ past'.removed = past.removed
              /\ past'.late = past.late + d
              /\ past' \in [stayed : SUBSET Id, removed : Nat, late : Nat, deletes : Nat,
                            breaks : Nat]
    BY <1>1, CommitMoves
  <1>3. i \in Id /\ stored \in SUBSET Id /\ stored \cap open = {} /\ open \in SUBSET Id
        /\ past.stayed \subseteq stored
    BY <1>1 DEF PagingTypes
  <1>4. /\ Delivered \in SUBSET Id /\ past.removed \in Nat /\ past.late \in Nat
        /\ past.stayed \in SUBSET Id
    BY <1>1, GivenIds
  <1>5. ASSUME NEW given \in SUBSET Delivered, NEW n \in Nat, NEW skip \in Nat
         PROVE  /\ Accounted(stored, past, given, n, skip)
                     => Accounted(stored', past', given, n, skip)
                /\ AtEnd(past, given, n) => AtEnd(past', given, n)
    <2>1. i \in Upto(given) => Behind(i)
      BY DEF Upto, Behind
    <2>2. past'.late = past.late + 1 \/ (past'.late = past.late /\ i \notin Upto(given))
      BY <1>2, <1>4, <2>1
    <2>3. given \in SUBSET Id
      BY <1>4
    <2>4. /\ Accounted(stored, past, given, n, skip)
               => Accounted(stored \cup {i}, past', given, n, skip)
          /\ AtEnd(past, given, n) => AtEnd(past', given, n)
      BY <1>2, <1>3, <1>4, <2>2, <2>3, CommitAccounted
    <2> QED BY <1>2, <2>4
  <1> QED BY <1>2, <1>5, PagesKept

LEMMA DeleteMoves ==
    ASSUME PagingTypes, Delete
    PROVE  \E i \in stored, d \in {0, 1} :
              /\ d = IF Behind(i) THEN 1 ELSE 0
              /\ stored' = stored \ {i} /\ open' = open
              /\ serial' = serial /\ walk' = walk /\ page' = page
              /\ past'.stayed = past.stayed \ {i} /\ past'.removed = past.removed + d
              /\ past'.late = past.late
              /\ past' \in [stayed : SUBSET Id, removed : Nat, late : Nat, deletes : Nat,
                            breaks : Nat]
  <1>1. PICK i \in stored :
           /\ stored' = stored \ {i} /\ open' = open
           /\ past' = [past EXCEPT !.stayed = @ \ {i}, !.deletes = @ + 1,
                                   !.removed = @ + (IF Behind(i) THEN 1 ELSE 0)]
           /\ serial' = serial /\ walk' = walk /\ page' = page
    BY DEF Delete
  <1>2. PICK d \in {0, 1} : d = IF Behind(i) THEN 1 ELSE 0
    OBVIOUS
  <1>3. past' = [past EXCEPT !.stayed = @ \ {i}, !.deletes = @ + 1, !.removed = @ + d]
    BY <1>1, <1>2
  <1>4. past \in [stayed : SUBSET Id, removed : Nat, late : Nat, deletes : Nat, breaks : Nat]
    BY DEF PagingTypes
  <1>5. /\ past'.stayed = past.stayed \ {i} /\ past'.removed = past.removed + d
        /\ past'.late = past.late
        /\ past' \in [stayed : SUBSET Id, removed : Nat, late : Nat, deletes : Nat, breaks : Nat]
    <2>1. past' = [stayed |-> past.stayed \ {i}, removed |-> past.removed + d,
                   late |-> past.late, deletes |-> past.deletes + 1, breaks |-> past.breaks]
      BY <1>3, <1>4
    <2>2. /\ past.stayed \ {i} \in SUBSET Id /\ past.removed + d \in Nat /\ past.late \in Nat
          /\ past.deletes + 1 \in Nat /\ past.breaks \in Nat
      BY <1>4
    <2> QED BY <2>1, <2>2
  <1> QED BY <1>1, <1>2, <1>5

LEMMA DeleteTypes ==
    ASSUME PagingTypes, Delete
    PROVE  PagingTypes'
  <1>1. PICK i \in stored, d \in {0, 1} :
              /\ d = IF Behind(i) THEN 1 ELSE 0
              /\ stored' = stored \ {i} /\ open' = open
              /\ serial' = serial /\ walk' = walk /\ page' = page
              /\ past'.stayed = past.stayed \ {i} /\ past'.removed = past.removed + d
              /\ past'.late = past.late
              /\ past' \in [stayed : SUBSET Id, removed : Nat, late : Nat, deletes : Nat,
                            breaks : Nat]
    BY DeleteMoves
  <1>2. i \in Id /\ stored \in SUBSET Id /\ stored \cap open = {} /\ open \in SUBSET Id
        /\ past.stayed \subseteq stored
    BY DEF PagingTypes
  <1> QED BY <1>1, <1>2, CountsKeep

LEMMA DeleteKeeps ==
    ASSUME WalkInv, Delete
    PROVE  PagesGot' /\ PageComing'
  <1>1. PagingTypes
    BY DEF WalkInv
  <1>2. PICK i \in stored, d \in {0, 1} :
              /\ d = IF Behind(i) THEN 1 ELSE 0
              /\ stored' = stored \ {i} /\ open' = open
              /\ serial' = serial /\ walk' = walk /\ page' = page
              /\ past'.stayed = past.stayed \ {i} /\ past'.removed = past.removed + d
              /\ past'.late = past.late
              /\ past' \in [stayed : SUBSET Id, removed : Nat, late : Nat, deletes : Nat,
                            breaks : Nat]
    BY <1>1, DeleteMoves
  <1>3. i \in Id /\ stored \in SUBSET Id /\ stored \cap open = {} /\ open \in SUBSET Id
        /\ past.stayed \subseteq stored
    BY <1>1 DEF PagingTypes
  <1>4. /\ Delivered \in SUBSET Id /\ past.removed \in Nat /\ past.late \in Nat
        /\ past.stayed \in SUBSET Id
    BY <1>1, GivenIds
  <1>5. ASSUME NEW given \in SUBSET Delivered, NEW n \in Nat, NEW skip \in Nat
         PROVE  /\ Accounted(stored, past, given, n, skip)
                     => Accounted(stored', past', given, n, skip)
                /\ AtEnd(past, given, n) => AtEnd(past', given, n)
    <2>1. i \in Upto(given) => Behind(i)
      BY DEF Upto, Behind
    <2>2. past'.removed = past.removed + 1 \/ (past'.removed = past.removed /\ i \notin Upto(given))
      BY <1>2, <1>4, <2>1
    <2>3. given \in SUBSET Id
      BY <1>4
    <2>4. /\ Accounted(stored, past, given, n, skip)
               => Accounted(stored \ {i}, past', given, n, skip)
          /\ AtEnd(past, given, n) => AtEnd(past', given, n)
      BY <1>2, <1>3, <1>4, <2>2, <2>3, DeleteAccounted
    <2> QED BY <1>2, <2>4
  <1> QED BY <1>2, <1>5, PagesKept

LEMMA SortedSeq ==
    ASSUME PagingTypes, NEW s \in Sorted
    PROVE  /\ Cardinality(stored) \in Nat /\ s \in Seq(Id) /\ Len(s) = Cardinality(stored)
           /\ s \in [1 .. Cardinality(stored) -> stored]
           /\ \A i, j \in 1 .. Cardinality(stored) : i # j => s[i] # s[j]
           /\ \A j, k \in 1 .. Cardinality(stored) : j < k => OrderKey[s[j]] <= OrderKey[s[k]]
  <1> DEFINE N == Cardinality(stored)
  <1>1. IsFiniteSet(stored) /\ N \in Nat /\ stored \in SUBSET Id
    BY IdsAreFinite DEF PagingTypes
  <1>2. s \in [1 .. N -> stored] /\ \A i, j \in 1 .. N : i # j => s[i] # s[j]
    BY DEF Sorted, SetToSeqs
  <1>3. \A j, k \in DOMAIN s : j < k => OrderKey[s[j]] <= OrderKey[s[k]]
    BY DEF Sorted
  <1> HIDE DEF N
  <1>4. s \in Seq(Id) /\ Len(s) = N
    BY <1>1, <1>2
  <1>5. DOMAIN s = 1 .. N
    BY <1>2
  <1> QED BY <1>1, <1>2, <1>3, <1>4, <1>5 DEF N

\* Without ties there is one order, that of the keys, and all rows are in it.
LEMMA SortedIsOrdered ==
    ASSUME PagingTypes, Untied, NEW s \in Sorted
    PROVE  /\ Cardinality(stored) \in Nat /\ Ordered(s, Cardinality(stored))
           /\ stored = Part(s, 1, Cardinality(stored))
  <1> DEFINE N == Cardinality(stored)
  <1>1. IsFiniteSet(stored) /\ N \in Nat /\ stored \in SUBSET Id
    BY IdsAreFinite DEF PagingTypes
  <1>2. /\ s \in [1 .. N -> stored] /\ \A i, j \in 1 .. N : i # j => s[i] # s[j]
        /\ \A j, k \in 1 .. N : j < k => OrderKey[s[j]] <= OrderKey[s[k]]
    BY SortedSeq
  <1> HIDE DEF N
  <1>3. Ordered(s, N)
    <2> SUFFICES ASSUME NEW j \in 1 .. N, NEW k \in 1 .. N, j < k
                 PROVE  Before(s[j], s[k])
      BY <1>1, <1>2 DEF Ordered
    <2>1. OrderKey[s[j]] <= OrderKey[s[k]] /\ s[j] # s[k] /\ s[j] \in Id /\ s[k] \in Id
      BY <1>1, <1>2
    <2>2. OrderKey[s[j]] # OrderKey[s[k]]
      BY <2>1 DEF Untied
    <2>3. OrderKey[s[j]] \in Nat /\ OrderKey[s[k]] \in Nat
      BY <2>1, PagingAssumption DEF Id
    <2> QED BY <2>1, <2>2, <2>3 DEF Before
  <1>4. stored = Part(s, 1, N)
    <2>1. s \in Injection(1 .. N, stored)
      BY <1>2 DEF Injection, IsInjective
    <2>2. Cardinality(1 .. N) = N
      <3>1. Cardinality(1 .. N) = IF 1 > N THEN 0 ELSE N - 1 + 1
        BY <1>1, FS_Interval, 1 \in Int, N \in Int
      <3> QED BY <1>1, <3>1
    <2>3. s \in Surjection(1 .. N, stored)
      BY <1>1, <2>1, <2>2, FS_Injection DEF N
    <2> QED BY <2>3 DEF Surjection, Part
  <1> QED BY <1>1, <1>3, <1>4 DEF N

\* The numbers, when a page with p rows has been asked for.
LEMMA FullPage ==
    ASSUME NEW missed \in Nat, NEW removed \in Nat, NEW late \in Nat, NEW skip \in Nat,
           NEW p \in Nat, NEW n \in Nat, NEW b \in Nat, NEW new \in Nat,
           NEW missed2 \in Nat, NEW b2 \in Nat, NEW new2 \in Nat,
           missed <= removed, missed + skip <= removed + b, n <= new + late,
           n + b <= new + late + skip,
           b2 = IF b > skip + p THEN b ELSE skip + p,
           b <= skip => new2 = new + p,
           b >= skip => new2 + b >= new + skip + p,
           new2 >= new,
           missed2 <= missed + (IF b < skip THEN skip - b ELSE 0)
    PROVE  /\ missed2 <= removed /\ missed2 + (skip + p) <= removed + b2
           /\ n + p <= new2 + late /\ (n + p) + b2 <= new2 + late + (skip + p)
  <1>1. missed2 <= removed
    BY SMT
  <1>2. n + p <= new2 + late
    <2>1. CASE b <= skip
      BY <2>1
    <2>2. CASE b >= skip
      BY <2>2
    <2> QED BY <2>1, <2>2
  <1>3. CASE b > skip + p
    <2>1. b2 = b /\ missed2 <= missed
      BY <1>3
    <2> QED BY <1>1, <1>2, <1>3, <2>1
  <1>4. CASE ~(b > skip + p)
    <2>1. b2 = skip + p
      BY <1>4
    <2> QED BY <1>1, <1>2, <2>1
  <1> QED BY <1>3, <1>4

LEMMA LastPage ==
    ASSUME NEW missed \in Nat, NEW removed \in Nat, NEW late \in Nat, NEW skip \in Nat,
           NEW p \in Nat, NEW n \in Nat, NEW b \in Nat, NEW new \in Nat,
           NEW missed2 \in Nat, NEW new2 \in Nat,
           missed <= removed, missed + skip <= removed + b, n <= new + late,
           n + b <= new + late + skip,
           b <= skip => new2 = new + p,
           b >= skip => new2 + b >= new + skip + p,
           missed2 <= missed + (IF b < skip THEN skip - b ELSE 0)
    PROVE  missed2 <= removed /\ n + p <= new2 + late
  <1>1. missed2 <= removed
    BY SMT
  <1>2. n + p <= new2 + late
    <2>1. CASE b <= skip
      BY <2>1
    <2>2. CASE b >= skip
      BY <2>2
    <2> QED BY <2>1, <2>2
  <1> QED BY <1>1, <1>2

\* A full page moves the account on, a page that comes short closes it.
LEMMA PageAccounted ==
    ASSUME NEW N \in Nat, NEW s, Ordered(s, N), NEW given \in SUBSET Id, NEW h,
           h.stayed \subseteq Part(s, 1, N), h.removed \in Nat, h.late \in Nat,
           NEW skip \in Nat, NEW top \in Nat, NEW n \in Nat, NEW p \in Nat,
           NEW more, more = given \cup Part(s, skip + 1, skip + p),
           Accounted(Part(s, 1, N), h, given, n, skip)
    PROVE  /\ skip + top < N /\ p = top => Accounted(Part(s, 1, N), h, more, n + top, skip + top)
           /\ skip + top >= N /\ p = (IF skip < N THEN N - skip ELSE 0) => AtEnd(h, more, n + p)
  <1> DEFINE b == Cardinality(Part(s, 1, N) \cap Upto(given))
             missed == Cardinality((h.stayed \cap Upto(given)) \ given)
             new == Cardinality(given)
             new2 == Cardinality(more)
             b2 == Cardinality(Part(s, 1, N) \cap Upto(more))
             missed2 == Cardinality((h.stayed \cap Upto(more)) \ more)
             left == Cardinality(h.stayed \ more)
  <1>1. /\ missed <= h.removed /\ missed + skip <= h.removed + b
        /\ n <= new + h.late /\ n + b <= new + h.late + skip
    BY DEF Accounted
  <1>2. h.stayed \in SUBSET Id
    BY DEF Ordered, Part
  <1>3. PICK stayed : stayed = h.stayed
    OBVIOUS
  <1>4. PICK removed \in Nat, late \in Nat : removed = h.removed /\ late = h.late
    OBVIOUS
  <1>5. ASSUME p = 0 \/ skip + p <= N
        PROVE  /\ b \in Nat /\ missed \in Nat /\ more \in SUBSET Id
               /\ p > 0 => /\ b2 = IF b > skip + p THEN b ELSE skip + p
                           /\ b <= skip => new2 = new + p
                           /\ b >= skip => new2 + b >= new + skip + p
                           /\ new2 >= new
               /\ missed2 <= missed + (IF b < skip THEN skip - b ELSE 0)
               /\ N <= skip + p => left <= missed + (IF b < skip THEN skip - b ELSE 0)
    <2>1. stayed \subseteq Part(s, 1, N)
      BY <1>3
    <2>2. PICK bb, mm : /\ bb = Cardinality(Part(s, 1, N) \cap Upto(given))
                        /\ mm = Cardinality((stayed \cap Upto(given)) \ given)
      OBVIOUS
    <2>3. /\ bb \in Nat /\ mm \in Nat /\ more \in SUBSET Id
          /\ p > 0 => /\ Cardinality(Part(s, 1, N) \cap Upto(more))
                           = IF bb > skip + p THEN bb ELSE skip + p
                      /\ bb <= skip => Cardinality(more) = Cardinality(given) + p
                      /\ bb >= skip => Cardinality(more) + bb >= Cardinality(given) + skip + p
                      /\ Cardinality(more) >= Cardinality(given)
          /\ Cardinality((stayed \cap Upto(more)) \ more)
               <= mm + (IF bb < skip THEN skip - bb ELSE 0)
          /\ N <= skip + p => Cardinality(stayed \ more)
                                <= mm + (IF bb < skip THEN skip - bb ELSE 0)
      <3>1. PageMoves(N, s, given, stayed, skip, p, more, bb, mm)
        BY <1>5, <2>1, <2>2, AnotherPage
      <3> QED BY <3>1 DEF PageMoves
    <2>4. bb = b /\ mm = missed
      BY <1>3, <2>2
    <2> QED BY <1>3, <2>3, <2>4
  <1>6. /\ more \in SUBSET Id => /\ new2 \in Nat /\ b2 \in Nat /\ missed2 \in Nat /\ left \in Nat
        /\ new \in Nat
    <2>1. new \in Nat /\ missed2 \in Nat /\ left \in Nat
      <3>1. (h.stayed \cap Upto(more)) \ more \in SUBSET Id /\ h.stayed \ more \in SUBSET Id
        BY <1>2
      <3> QED BY <3>1, IdsAreFinite
    <2>2. b2 \in Nat
      <3>1. Part(s, 1, N) \cap Upto(more) \in SUBSET Id
        BY DEF Upto
      <3> QED BY <3>1, IdsAreFinite
    <2>3. more \in SUBSET Id => new2 \in Nat
      BY IdsAreFinite
    <2> QED BY <2>1, <2>2, <2>3
  <1>7. p = 0 => more = given
    <2> HAVE p = 0
    <2>1. \A j \in skip + 1 .. skip + p : FALSE
      OBVIOUS
    <2> QED BY <2>1 DEF Part
  <1>8. p = 0 => new2 = new /\ b2 = b /\ missed2 = missed
    BY <1>7
  <1>9. Part(s, 1, N) \cap Upto(given) \subseteq Part(s, 1, N) /\ Part(s, 1, N) \in SUBSET Id
        /\ Cardinality(Part(s, 1, N)) = N
    <2>1. Part(s, 1, N) \in SUBSET Id /\ Cardinality(Part(s, 1, N)) = N + 1 - 1
      BY PartCount, 1 \in Nat
    <2> QED BY <2>1
  <1>10. b <= N
    BY <1>9, IdsAreFinite, FS_Subset
  <1> HIDE DEF b, missed, new, new2, b2, missed2, left
  <1>11. ASSUME skip + top < N, p = top
         PROVE  Accounted(Part(s, 1, N), h, more, n + top, skip + top)
    <2>1. skip + p <= N
      BY <1>11
    <2>2. /\ missed2 <= removed /\ missed2 + (skip + p) <= removed + b2
          /\ n + p <= new2 + late /\ (n + p) + b2 <= new2 + late + (skip + p)
      <3>1. CASE p = 0
        BY <1>1, <1>4, <1>8, <3>1, <1>5, <1>6
      <3>2. CASE p > 0
        BY <1>1, <1>4, <1>5, <1>6, <2>1, <3>2, FullPage
      <3> QED BY <3>1, <3>2
    <2> QED BY <1>4, <1>11, <2>2 DEF Accounted, b2, missed2, new2
  <1>12. ASSUME skip + top >= N, p = (IF skip < N THEN N - skip ELSE 0)
         PROVE  AtEnd(h, more, n + p)
    <2>1. (p = 0 \/ skip + p <= N) /\ N <= skip + p
      BY <1>12
    <2>2. /\ b <= skip => new2 = new + p
          /\ b >= skip => new2 + b >= new + skip + p
      <3>1. CASE p = 0
        BY <1>5, <1>6, <1>8, <1>10, <2>1, <3>1
      <3>2. CASE p > 0
        BY <1>5, <2>1, <3>2
      <3> QED BY <3>1, <3>2
    <2>3. left <= missed + (IF b < skip THEN skip - b ELSE 0)
      BY <1>5, <2>1
    <2>4. left <= removed /\ n + p <= new2 + late
      BY <1>1, <1>4, <1>5, <1>6, <2>1, <2>2, <2>3, LastPage
    <2> QED BY <1>4, <2>4 DEF AtEnd, left, new2
  <1> QED BY <1>11, <1>12

LEMMA LimitedRows ==
    ASSUME PagingTypes, NEW s \in Seq(Id)
    PROVE  /\ Limited(s) \in Seq(Id) /\ Len(Limited(s)) \in Nat
           /\ Len(Limited(s)) = IF walk.skip + walk.top < Len(s) THEN walk.top + 1
                                ELSE IF walk.skip < Len(s) THEN Len(s) - walk.skip ELSE 0
           /\ \A k \in 1 .. Len(Limited(s)) : Limited(s)[k] = s[walk.skip + k]
  <1>1. PICK skip \in Nat, top \in Nat : skip = walk.skip /\ top = walk.top
    BY GivenIds
  <1>2. PICK N \in Nat : N = Len(s) /\ s \in [1 .. N -> Id]
    OBVIOUS
  <1> DEFINE end == IF skip + top + 1 < N THEN skip + top + 1 ELSE N
  <1>3. end \in Nat /\ end <= N
    OBVIOUS
  <1>4. Limited(s) = SubSeq(s, skip + 1, end)
    BY <1>1, <1>2 DEF Limited
  <1>5. end = IF skip + top < N THEN skip + top + 1 ELSE N
    OBVIOUS
  <1> HIDE DEF end
  <1>6. \A i \in skip + 1 .. end : s[i] \in Id
    BY <1>2, <1>3
  <1>7. /\ SubSeq(s, skip + 1, end) \in Seq(Id)
        /\ Len(SubSeq(s, skip + 1, end)) = IF skip + 1 <= end THEN end - (skip + 1) + 1 ELSE 0
        /\ \A i \in 1 .. end - (skip + 1) + 1 : SubSeq(s, skip + 1, end)[i] = s[(skip + 1) + i - 1]
    BY <1>3, <1>6, SubSeqProperties, skip + 1 \in Int, end \in Int
  <1>8. Len(Limited(s)) = IF skip + top < N THEN top + 1 ELSE IF skip < N THEN N - skip ELSE 0
    BY <1>3, <1>4, <1>5, <1>7
  <1>9. \A k \in 1 .. Len(Limited(s)) : Limited(s)[k] = s[skip + k]
    <2> TAKE k \in 1 .. Len(Limited(s))
    <2>1. k \in 1 .. end - (skip + 1) + 1 /\ (skip + 1) + k - 1 = skip + k
      BY <1>3, <1>4, <1>7
    <2> QED BY <1>4, <1>7, <2>1
  <1>10. Limited(s) \in Seq(Id) /\ Len(Limited(s)) \in Nat
    BY <1>4, <1>7
  <1>11. /\ Len(Limited(s)) = IF walk.skip + walk.top < Len(s) THEN walk.top + 1
                              ELSE IF walk.skip < Len(s) THEN Len(s) - walk.skip ELSE 0
         /\ \A k \in 1 .. Len(Limited(s)) : Limited(s)[k] = s[walk.skip + k]
    <2>1. skip = walk.skip /\ top = walk.top /\ N = Len(s)
      BY <1>1, <1>2
    <2> HIDE DEF Limited
    <2> QED BY <1>8, <1>9, <2>1
  <1> QED BY <1>10, <1>11

LEMMA DeclaredPage ==
    ASSUME PagingTypes, Declare
    PROVE  \E s \in Sorted :
              page' = [open |-> TRUE, rows |-> Limited(s), total |-> 0, sent |-> << >>]
  <1>1. PICK s \in Sorted : page' = [page EXCEPT !.open = TRUE, !.rows = Limited(s)]
    BY DEF Declare
  <1>2. page = NoPage
    BY DEF Declare, PagingTypes
  <1>3. page' = [NoPage EXCEPT !.open = TRUE, !.rows = Limited(s)]
    BY <1>1, <1>2
  <1>4. page' = [open |-> TRUE, rows |-> Limited(s), total |-> 0, sent |-> << >>]
    BY <1>3 DEF NoPage
  <1> QED BY <1>4

LEMMA NothingInEmpty ==
    ASSUME NEW q, q = << >>
    PROVE  Len(q) = 0 /\ ToSet(q) = {}
  <1>1. << >> \in Seq(Id) /\ Len(<< >>) = 0
    BY EmptySeq
  <1>2. DOMAIN << >> = 1 .. Len(<< >>)
    BY <1>1, LenProperties
  <1>3. DOMAIN << >> = {}
    BY <1>1, <1>2
  <1> QED BY <1>1, <1>3 DEF ToSet

LEMMA DeclareTypes ==
    ASSUME PagingTypes, Declare
    PROVE  PagingTypes'
  <1>1. PICK s \in Sorted :
           page' = [open |-> TRUE, rows |-> Limited(s), total |-> 0, sent |-> << >>]
    BY DeclaredPage
  <1>2. UNCHANGED <<stored, open, serial, walk, past>> /\ walk.linked
    BY DEF Declare
  <1>3. page' = [open |-> TRUE, rows |-> Limited(s), total |-> 0, sent |-> << >>]
    BY <1>1
  <1>4. /\ Limited(s) \in Seq(Id) /\ Len(Limited(s)) \in Nat
        /\ Len(Limited(s)) <= walk.top + 1 /\ walk.top \in Nat
    <2>1. s \in Seq(Id)
      BY SortedSeq
    <2>2. PICK skip \in Nat, top \in Nat, N \in Nat :
             skip = walk.skip /\ top = walk.top /\ N = Len(s)
      BY <2>1, GivenIds
    <2>3. Limited(s) \in Seq(Id) /\ Len(Limited(s)) \in Nat
          /\ Len(Limited(s)) = IF skip + top < N THEN top + 1
                               ELSE IF skip < N THEN N - skip ELSE 0
      BY <2>1, <2>2, LimitedRows
    <2> QED BY <2>2, <2>3
  <1>5. page'.open /\ page'.rows = Limited(s) /\ page'.total = 0 /\ page'.sent = << >>
        /\ page' \in [open : BOOLEAN, rows : Seq(Id), total : Nat, sent : Seq(Id)]
    BY <1>3, <1>4
  <1>6. page'.total + Len(page'.rows) <= walk.top + 1
        /\ Len(page'.sent) = IF page'.total <= walk.top THEN page'.total ELSE walk.top
    BY <1>4, <1>5
  <1> QED BY <1>2, <1>5, <1>6 DEF PagingTypes

LEMMA DeclareKeeps ==
    ASSUME Untied, WalkInv, Declare
    PROVE  PagesGot' /\ PageComing'
  <1>1. PagingTypes /\ PagesGot
    BY DEF WalkInv
  <1>2. PICK s \in Sorted :
           page' = [open |-> TRUE, rows |-> Limited(s), total |-> 0, sent |-> << >>]
    BY <1>1, DeclaredPage
  <1>3. UNCHANGED <<stored, open, serial, walk, past>> /\ walk.linked
    BY DEF Declare
  <1>4. page' = [open |-> TRUE, rows |-> Limited(s), total |-> 0, sent |-> << >>]
    BY <1>2
  <1>5. PICK skip \in Nat, top \in Nat, n \in Nat, N \in Nat, given \in SUBSET Id :
           /\ skip = walk.skip /\ top = walk.top /\ n = Len(walk.seen)
           /\ N = Cardinality(stored) /\ given = ToSet(walk.seen)
    <2>1. /\ walk.skip \in Nat /\ walk.top \in Nat /\ Len(walk.seen) \in Nat
          /\ ToSet(walk.seen) \in SUBSET Id
      BY <1>1, GivenIds
    <2>2. Cardinality(stored) \in Nat
      BY <1>1, SortedSeq
    <2> QED BY <2>1, <2>2
  <1>6. Ordered(s, N) /\ stored = Part(s, 1, N) /\ s \in Seq(Id) /\ Len(s) = N
    BY <1>1, <1>5, SortedSeq, SortedIsOrdered
  <1>7. PICK rows \in Seq(Id), L \in Nat :
           /\ rows = Limited(s) /\ L = Len(rows)
           /\ L = IF skip + top < N THEN top + 1 ELSE IF skip < N THEN N - skip ELSE 0
           /\ \A k \in 1 .. L : rows[k] = s[skip + k]
    BY <1>1, <1>5, <1>6, LimitedRows, ZenonT(60)
  <1>8. PICK p \in Nat : p = IF L <= top THEN L ELSE top
    OBVIOUS
  <1>9. Delivered' = given \cup Part(s, skip + 1, skip + p)
    <2>1. page'.rows = rows /\ page'.sent = << >> /\ walk' = walk
      BY <1>3, <1>4, <1>7
    <2>2. ToSet(page'.sent) = {} /\ Len(page'.sent) = 0
      BY <2>1, NothingInEmpty
    <2>3. DOMAIN rows = 1 .. L
      BY <1>7, LenProperties
    <2>4. Delivered' = given \cup {rows[k] : k \in {j \in 1 .. L : 0 + j <= top}}
      BY <1>5, <2>1, <2>2, <2>3 DEF Delivered
    <2>5. {j \in 1 .. L : 0 + j <= top} = 1 .. p
      BY <1>8
    <2>6. {rows[k] : k \in 1 .. p} = Part(s, skip + 1, skip + p)
      <3>1. \A k \in 1 .. p : k \in 1 .. L /\ rows[k] = s[skip + k] /\ skip + k \in skip + 1 .. skip + p
        BY <1>7, <1>8
      <3>2. ASSUME NEW j \in skip + 1 .. skip + p PROVE j - skip \in 1 .. p /\ rows[j - skip] = s[j]
        <4>1. j - skip \in 1 .. p /\ skip + (j - skip) = j
          OBVIOUS
        <4> QED BY <3>1, <4>1
      <3>3. \A x \in {rows[k] : k \in 1 .. p} : x \in Part(s, skip + 1, skip + p)
        BY <3>1, Zenon DEF Part
      <3>4. \A x \in Part(s, skip + 1, skip + p) : x \in {rows[k] : k \in 1 .. p}
        BY <3>2, Zenon DEF Part
      <3> QED BY <3>3, <3>4, Zenon
    <2> QED BY <2>4, <2>5, <2>6
  <1>10. Accounted(Part(s, 1, N), past, given, n, skip)
    BY <1>1, <1>3, <1>5, <1>6 DEF PagesGot
  <1>11. /\ skip + top < N /\ p = top =>
             Accounted(Part(s, 1, N), past, Delivered', n + top, skip + top)
         /\ skip + top >= N /\ p = (IF skip < N THEN N - skip ELSE 0) =>
             AtEnd(past, Delivered', n + p)
    <2>1. past.stayed \subseteq Part(s, 1, N) /\ past.removed \in Nat /\ past.late \in Nat
      BY <1>1, <1>6 DEF PagingTypes
    <2>2. PICK more, h : more = Delivered' /\ h = past
      OBVIOUS
    <2>3. /\ more = given \cup Part(s, skip + 1, skip + p) /\ Accounted(Part(s, 1, N), h, given, n, skip)
          /\ h.stayed \subseteq Part(s, 1, N) /\ h.removed \in Nat /\ h.late \in Nat
      BY <1>9, <1>10, <2>1, <2>2
    <2>4. /\ skip + top < N /\ p = top => Accounted(Part(s, 1, N), h, more, n + top, skip + top)
          /\ skip + top >= N /\ p = (IF skip < N THEN N - skip ELSE 0) => AtEnd(h, more, n + p)
      BY <1>6, <2>3, PageAccounted
    <2> QED BY <2>2, <2>4
  <1>12. L > top <=> skip + top < N
    BY <1>7
  <1>13. page'.total + Len(page'.rows) = L /\ page'.open
    <2>1. page'.total = 0 /\ page'.rows = rows /\ page'.open
      BY <1>4, <1>7
    <2>2. page'.total + Len(page'.rows) = 0 + L
      BY <1>7, <2>1, Zenon
    <2> QED BY <2>1, <2>2
  <1>14. IF L > top THEN Accounted(stored, past, Delivered', n + top, skip + top)
         ELSE AtEnd(past, Delivered', n + L)
    BY <1>6, <1>7, <1>8, <1>11, <1>12
  <1>15. page'.total = 0 /\ Len(page'.rows) = L
    BY <1>4, <1>7
  <1>16. PageComing'
    <2>1. n + page'.total + Len(page'.rows) = n + L
      BY <1>15
    <2>2. PageComing' = (page'.open =>
             IF page'.total + Len(page'.rows) > walk'.top
             THEN Accounted(stored', past', Delivered', Len(walk'.seen) + walk'.top,
                            walk'.skip + walk'.top)
             ELSE AtEnd(past', Delivered', Len(walk'.seen) + page'.total + Len(page'.rows)))
      BY DEF PageComing, Accounted, AtEnd
    <2> HIDE DEF Delivered
    <2> QED BY <1>3, <1>5, <1>13, <1>14, <2>1, <2>2
  <1>17. PagesGot'
    BY <1>1, <1>3 DEF PagesGot, Accounted, AtEnd
  <1> QED BY <1>16, <1>17

LEMMA CutRows ==
    ASSUME NEW rows \in Seq(Id), NEW n \in 1 .. Len(rows)
    PROVE  /\ SubSeq(rows, 1, n) \in Seq(Id) /\ Len(SubSeq(rows, 1, n)) = n
           /\ \A k \in 1 .. n : SubSeq(rows, 1, n)[k] = rows[k]
           /\ SubSeq(rows, n + 1, Len(rows)) \in Seq(Id)
           /\ Len(SubSeq(rows, n + 1, Len(rows))) = Len(rows) - n
           /\ \A k \in 1 .. Len(rows) - n : SubSeq(rows, n + 1, Len(rows))[k] = rows[n + k]
  <1>1. PICK L \in Nat : L = Len(rows) /\ rows \in [1 .. L -> Id]
    BY LenProperties
  <1>2. n \in Nat /\ 1 <= n /\ n <= L
    BY <1>1
  <1>3. /\ SubSeq(rows, 1, n) \in Seq(Id) /\ Len(SubSeq(rows, 1, n)) = n
        /\ \A k \in 1 .. n : SubSeq(rows, 1, n)[k] = rows[k]
    <2>1. \A k \in 1 .. n : rows[k] \in Id
      BY <1>1, <1>2
    <2>2. /\ SubSeq(rows, 1, n) \in Seq(Id)
          /\ Len(SubSeq(rows, 1, n)) = IF 1 <= n THEN n - 1 + 1 ELSE 0
          /\ \A k \in 1 .. n - 1 + 1 : SubSeq(rows, 1, n)[k] = rows[1 + k - 1]
      BY <1>2, <2>1, SubSeqProperties, 1 \in Int, n \in Int
    <2> QED BY <1>2, <2>2
  <1>4. /\ SubSeq(rows, n + 1, L) \in Seq(Id) /\ Len(SubSeq(rows, n + 1, L)) = L - n
        /\ \A k \in 1 .. L - n : SubSeq(rows, n + 1, L)[k] = rows[n + k]
    <2>1. \A k \in n + 1 .. L : rows[k] \in Id
      BY <1>1, <1>2
    <2>2. /\ SubSeq(rows, n + 1, L) \in Seq(Id)
          /\ Len(SubSeq(rows, n + 1, L)) = IF n + 1 <= L THEN L - (n + 1) + 1 ELSE 0
          /\ \A k \in 1 .. L - (n + 1) + 1 : SubSeq(rows, n + 1, L)[k] = rows[(n + 1) + k - 1]
      BY <1>2, <2>1, SubSeqProperties, n + 1 \in Int, L \in Int
    <2>3. /\ (IF n + 1 <= L THEN L - (n + 1) + 1 ELSE 0) = L - n
          /\ L - (n + 1) + 1 = L - n /\ \A k \in 1 .. L - n : (n + 1) + k - 1 = n + k
      BY <1>2
    <2>4. PICK t : t = SubSeq(rows, n + 1, L)
      OBVIOUS
    <2>5. \A k \in 1 .. L - n : t[k] = rows[n + k]
      <3>1. \A k \in 1 .. L - n : t[k] = rows[(n + 1) + k - 1]
        BY <2>2, <2>3, <2>4, Zenon
      <3> QED BY <2>3, <3>1, Zenon
    <2> QED BY <2>2, <2>3, <2>4, <2>5, Zenon
  <1> QED BY <1>1, <1>3, <1>4

LEMMA FrontRows ==
    ASSUME NEW t \in Seq(Id), NEW n \in Nat, n = Len(t), n > 0
    PROVE  /\ Front(t) \in Seq(Id) /\ Len(Front(t)) = n - 1
           /\ \A k \in 1 .. n - 1 : Front(t)[k] = t[k]
  <1>1. \A k \in 1 .. n - 1 : t[k] \in Id
    BY LenProperties
  <1>2. /\ SubSeq(t, 1, n - 1) \in Seq(Id)
        /\ Len(SubSeq(t, 1, n - 1)) = IF 1 <= n - 1 THEN (n - 1) - 1 + 1 ELSE 0
        /\ \A k \in 1 .. (n - 1) - 1 + 1 : SubSeq(t, 1, n - 1)[k] = t[1 + k - 1]
    BY <1>1, SubSeqProperties, 1 \in Int, n - 1 \in Int
  <1>3. /\ SubSeq(t, 1, n - 1) \in Seq(Id) /\ Len(SubSeq(t, 1, n - 1)) = n - 1
        /\ \A k \in 1 .. n - 1 : SubSeq(t, 1, n - 1)[k] = t[k]
    BY <1>2
  <1> QED BY <1>3 DEF Front

\* What is sent, and of the rows at the cursor those up to $top.
Coming(sent, rows, n, top) == ToSet(sent) \cup {rows[k] : k \in {j \in DOMAIN rows : n + j <= top}}

\* A partition of n rows was read and m of them were sent, all but the one beyond $top.
Moved(L, n, total, top, m, rows, sent, rest, all) ==
    /\ L \in Nat /\ n \in 1 .. L /\ total \in Nat /\ top \in Nat /\ m \in Nat
    /\ total + L <= top + 1 /\ m = IF total + n >= top + 1 THEN n - 1 ELSE n
    /\ DOMAIN rows = 1 .. L /\ DOMAIN sent = 1 .. total
    /\ DOMAIN rest = 1 .. L - n /\ \A k \in 1 .. L - n : rest[k] = rows[n + k]
    /\ DOMAIN all = 1 .. total + m
    /\ \A k \in 1 .. total : all[k] = sent[k]
    /\ \A k \in 1 .. m : all[total + k] = rows[k]

\* What the client has or will have is the same.
LEMMA PartitionSent ==
    ASSUME NEW L, NEW n, NEW total, NEW top, NEW m, NEW rows, NEW sent, NEW rest, NEW all,
           Moved(L, n, total, top, m, rows, sent, rest, all)
    PROVE  Coming(all, rest, total + m, top) = Coming(sent, rows, total, top)
  <1> USE DEF Moved
  <1>1. \A k \in 1 .. L : total + k <= top => k <= m \/ (k > n /\ m = n)
    OBVIOUS
  <1>2. \A k \in 1 .. m : k \in 1 .. L /\ total + k <= top
    OBVIOUS
  <1>3. \A k \in 1 .. L - n : m = n \/ total + m + k > top
    OBVIOUS
  <1>4. ASSUME NEW x \in ToSet(all) \cup {rest[k] : k \in {j \in DOMAIN rest : (total + m) + j <= top}}
         PROVE  x \in ToSet(sent) \cup {rows[k] : k \in {j \in DOMAIN rows : total + j <= top}}
    <2>1. CASE x \in ToSet(all)
      <3>1. PICK k \in 1 .. total + m : x = all[k]
        BY <2>1 DEF ToSet
      <3>2. CASE k <= total
        BY <3>1, <3>2 DEF ToSet
      <3>3. CASE k > total
        <4>1. k - total \in 1 .. m /\ total + (k - total) = k
          BY <3>3
        <4>2. x = rows[k - total] /\ k - total \in 1 .. L /\ total + (k - total) <= top
          BY <1>2, <3>1, <4>1
        <4> QED BY <4>2
      <3> QED BY <3>2, <3>3
    <2>2. CASE x \in {rest[k] : k \in {j \in DOMAIN rest : (total + m) + j <= top}}
      <3>1. PICK k \in 1 .. L - n : x = rest[k] /\ (total + m) + k <= top
        BY <2>2
      <3>2. x = rows[n + k] /\ n + k \in 1 .. L
        BY <3>1
      <3>3. m = n
        BY <1>3, <3>1
      <3>4. total + (n + k) <= top
        BY <3>1, <3>3
      <3> QED BY <3>2, <3>4
    <2> QED BY <2>1, <2>2
  <1>5. ASSUME NEW x \in ToSet(sent) \cup {rows[k] : k \in {j \in DOMAIN rows : total + j <= top}}
         PROVE  x \in ToSet(all) \cup {rest[k] : k \in {j \in DOMAIN rest : (total + m) + j <= top}}
    <2>1. CASE x \in ToSet(sent)
      <3>1. PICK k \in 1 .. total : x = sent[k]
        BY <2>1 DEF ToSet
      <3>2. k \in 1 .. total + m /\ x = all[k]
        BY <3>1
      <3> QED BY <3>2 DEF ToSet
    <2>2. CASE x \in {rows[k] : k \in {j \in DOMAIN rows : total + j <= top}}
      <3>1. PICK k \in 1 .. L : x = rows[k] /\ total + k <= top
        BY <2>2
      <3>2. CASE k <= m
        <4>1. k \in 1 .. m /\ total + k \in 1 .. total + m
          BY <3>2
        <4>2. x = all[total + k]
          BY <3>1, <4>1
        <4> QED BY <4>1, <4>2 DEF ToSet
      <3>3. CASE k > n /\ m = n
        <4>1. k - n \in 1 .. L - n /\ n + (k - n) = k
          BY <3>3
        <4>2. x = rest[k - n]
          BY <3>1, <4>1
        <4>3. (total + m) + (k - n) <= top
          BY <3>1, <3>3
        <4> QED BY <4>1, <4>2, <4>3
      <3> QED BY <1>1, <3>1, <3>2, <3>3
    <2> QED BY <2>1, <2>2
  <1>6. ToSet(all) \cup {rest[k] : k \in {j \in DOMAIN rest : (total + m) + j <= top}}
           = ToSet(sent) \cup {rows[k] : k \in {j \in DOMAIN rows : total + j <= top}}
    BY <1>4, <1>5
  <1> QED BY <1>6 DEF Coming

\* What is read of the cursor goes to the client: the rows beyond $top apart, it is only moved.
LEMMA FetchMoves ==
    ASSUME PagingTypes, Fetch
    PROVE  /\ UNCHANGED <<stored, open, serial, walk, past>> /\ page.open
           /\ page' \in [open : BOOLEAN, rows : Seq(Id), total : Nat, sent : Seq(Id)]
           /\ page'.open
           /\ page'.total + Len(page'.rows) = page.total + Len(page.rows)
           /\ Len(page'.sent) = IF page'.total <= walk.top THEN page'.total ELSE walk.top
           /\ Delivered' = Delivered
  <1>1. PICK rows \in Seq(Id), sent \in Seq(Id), total \in Nat, top \in Nat, L \in Nat :
           /\ rows = page.rows /\ sent = page.sent /\ total = page.total /\ top = walk.top
           /\ L = Len(rows)
    BY GivenIds
  <1>2. /\ UNCHANGED <<stored, open, serial, walk, past>> /\ page.open /\ rows # << >>
    BY <1>1 DEF Fetch
  <1>3. total + L <= top + 1 /\ Len(sent) = IF total <= top THEN total ELSE top
    BY <1>1 DEF PagingTypes
  <1>4. L > 0
    BY <1>1, <1>2, EmptySeq
  <1>5. PICK n \in 1 .. L : n = IF L < Chunk THEN L ELSE Chunk
    BY <1>4, PagingAssumption
  <1>6. PICK part \in Seq(Id), rest \in Seq(Id) :
           /\ part = SubSeq(rows, 1, n) /\ rest = SubSeq(rows, n + 1, L)
           /\ Len(part) = n /\ \A k \in 1 .. n : part[k] = rows[k]
           /\ Len(rest) = L - n /\ \A k \in 1 .. L - n : rest[k] = rows[n + k]
    BY <1>1, CutRows
  <1>7. PICK kept : kept = IF total + n >= top + 1 THEN Front(part) ELSE part
    OBVIOUS
  <1>8. PICK m \in Nat : m = IF total + n >= top + 1 THEN n - 1 ELSE n
    OBVIOUS
  <1>9. kept \in Seq(Id) /\ Len(kept) = m /\ \A k \in 1 .. m : kept[k] = rows[k]
    <2>1. CASE total + n >= top + 1
      <3>1. kept = Front(part) /\ m = n - 1
        BY <1>7, <1>8, <2>1
      <3>2. /\ Front(part) \in Seq(Id) /\ Len(Front(part)) = n - 1
            /\ \A k \in 1 .. n - 1 : Front(part)[k] = part[k]
        BY <1>6, FrontRows, n \in Nat, n > 0
      <3>3. \A k \in 1 .. n - 1 : part[k] = rows[k]
        BY <1>6
      <3> QED BY <3>1, <3>2, <3>3, Zenon
    <2>2. CASE ~(total + n >= top + 1)
      <3>1. kept = part /\ m = n
        BY <1>7, <1>8, <2>2
      <3> QED BY <1>6, <3>1, Zenon
    <2> QED BY <2>1, <2>2
  <1>10. PICK all : all = sent \o kept
    OBVIOUS
  <1>11. Len(sent) = total /\ total <= top
    BY <1>3, <1>4
  <1>12. /\ all \in Seq(Id) /\ Len(all) = total + m
         /\ \A k \in 1 .. total : all[k] = sent[k]
         /\ \A k \in 1 .. m : all[total + k] = rows[k]
    <2>1. /\ all \in Seq(Id) /\ Len(all) = total + m
          /\ \A k \in 1 .. total + m : all[k] = IF k <= total THEN sent[k] ELSE kept[k - total]
      BY <1>9, <1>10, <1>11, ConcatProperties
    <2>2. ASSUME NEW k \in 1 .. total PROVE all[k] = sent[k]
      <3>1. k \in 1 .. total + m /\ k <= total
        OBVIOUS
      <3> QED BY <2>1, <3>1
    <2>3. ASSUME NEW k \in 1 .. m PROVE all[total + k] = rows[k]
      <3>1. total + k \in 1 .. total + m /\ ~(total + k <= total) /\ (total + k) - total = k
        OBVIOUS
      <3>2. all[total + k] = kept[k]
        BY <2>1, <3>1
      <3> QED BY <1>9, <3>2
    <2> QED BY <2>1, <2>2, <2>3, Zenon
  <1>13. /\ DOMAIN rows = 1 .. L /\ DOMAIN sent = 1 .. total /\ DOMAIN rest = 1 .. L - n
         /\ DOMAIN all = 1 .. total + m
    <2>1. \A q \in Seq(Id) : DOMAIN q = 1 .. Len(q)
      BY LenProperties
    <2> QED BY <1>1, <1>6, <1>11, <1>12, <2>1, Zenon
  <1>14. Coming(all, rest, total + m, top) = Coming(sent, rows, total, top)
    <2>1. /\ total + L <= top + 1 /\ m = IF total + n >= top + 1 THEN n - 1 ELSE n
          /\ \A k \in 1 .. L - n : rest[k] = rows[n + k]
          /\ \A k \in 1 .. total : all[k] = sent[k]
          /\ \A k \in 1 .. m : all[total + k] = rows[k]
      BY <1>3, <1>6, <1>8, <1>12
    <2>2. Moved(L, n, total, top, m, rows, sent, rest, all)
      BY <1>13, <2>1 DEF Moved
    <2> QED BY <2>2, PartitionSent
  <1>15. page' = [page EXCEPT !.rows = rest, !.total = total + n, !.sent = all]
    <2>1. page' = [page EXCEPT !.rows = SubSeq(@, n + 1, Len(@)), !.total = page.total + n,
                               !.sent = @ \o Kept(SubSeq(page.rows, 1, n), page.total + n)]
      BY <1>1, <1>5 DEF Fetch
    <2>2. Kept(SubSeq(page.rows, 1, n), page.total + n) = kept
      BY <1>1, <1>6, <1>7 DEF Kept
    <2> QED BY <1>1, <1>6, <1>10, <2>1, <2>2
  <1>16. page' = [open |-> page.open, rows |-> rest, total |-> total + n, sent |-> all]
    BY <1>15 DEF PagingTypes
  <1>17. /\ page'.open = page.open /\ page'.rows = rest /\ page'.total = total + n
         /\ page'.sent = all
    BY <1>16
  <1>18. page' \in [open : BOOLEAN, rows : Seq(Id), total : Nat, sent : Seq(Id)]
    <2>1. page.open \in BOOLEAN
      BY DEF PagingTypes
    <2>2. total + n \in Nat
      OBVIOUS
    <2> QED BY <1>6, <1>12, <1>16, <2>1, <2>2
  <1>19. page'.total + Len(page'.rows) = page.total + Len(page.rows)
    <2>1. (total + n) + (L - n) = total + L
      OBVIOUS
    <2> QED BY <1>1, <1>6, <1>17, <2>1, Zenon
  <1>20. Len(page'.sent) = IF page'.total <= walk.top THEN page'.total ELSE walk.top
    <2>1. total + m = IF total + n <= top THEN total + n ELSE top
      BY <1>3, <1>8, <1>11
    <2> QED BY <1>1, <1>12, <1>17, <2>1, Zenon
  <1>21. Delivered' = Delivered
    <2>1. Delivered' = ToSet(walk'.seen) \cup ToSet(page'.sent)
             \cup {page'.rows[k] : k \in {j \in DOMAIN page'.rows :
                                           Len(page'.sent) + j <= walk'.top}}
      BY DEF Delivered
    <2>2. Delivered' = ToSet(walk.seen) \cup ToSet(all)
             \cup {rest[k] : k \in {j \in DOMAIN rest : (total + m) + j <= top}}
      BY <1>1, <1>2, <1>12, <1>17, <2>1
    <2>3. Delivered = ToSet(walk.seen) \cup ToSet(sent)
             \cup {rows[k] : k \in {j \in DOMAIN rows : total + j <= top}}
      BY <1>1, <1>11 DEF Delivered
    <2> QED BY <1>14, <2>2, <2>3 DEF Coming
  <1> QED BY <1>2, <1>17, <1>18, <1>19, <1>20, <1>21

LEMMA FetchTypes ==
    ASSUME PagingTypes, Fetch
    PROVE  PagingTypes'
  <1>1. page.total + Len(page.rows) <= walk.top + 1 /\ walk.linked
    BY FetchMoves DEF PagingTypes
  <1> QED BY <1>1, FetchMoves DEF PagingTypes

LEMMA FetchKeeps ==
    ASSUME WalkInv, Fetch
    PROVE  PagesGot' /\ PageComing'
  <1>1. PagingTypes /\ PagesGot /\ PageComing
    BY DEF WalkInv
  <1>2. /\ UNCHANGED <<stored, open, serial, walk, past>> /\ page.open /\ page'.open
        /\ page'.total + Len(page'.rows) = page.total + Len(page.rows)
        /\ Delivered' = Delivered
        /\ page' \in [open : BOOLEAN, rows : Seq(Id), total : Nat, sent : Seq(Id)]
    BY <1>1, FetchMoves
  <1>3. PagesGot'
    BY <1>1, <1>2 DEF PagesGot, Accounted, AtEnd
  <1>4. PageComing'
    <2>1. PageComing' = (page'.open =>
             IF page'.total + Len(page'.rows) > walk'.top
             THEN Accounted(stored', past', Delivered', Len(walk'.seen) + walk'.top,
                            walk'.skip + walk'.top)
             ELSE AtEnd(past', Delivered', Len(walk'.seen) + page'.total + Len(page'.rows)))
      BY DEF PageComing, Accounted, AtEnd
    <2>2. PICK a \in Nat, b \in Nat, c \in Nat, d \in Nat, n \in Nat :
             /\ a = page.total /\ b = Len(page.rows) /\ c = page'.total /\ d = Len(page'.rows)
             /\ n = Len(walk.seen)
      <3>1. page.total \in Nat /\ Len(page.rows) \in Nat /\ Len(walk.seen) \in Nat
        BY <1>1, GivenIds
      <3>2. page'.total \in Nat /\ page'.rows \in Seq(Id)
        BY <1>2
      <3>3. Len(page'.rows) \in Nat
        BY <3>2, LenProperties
      <3> QED BY <3>1, <3>2, <3>3, Zenon
    <2>3. c + d = a + b /\ n + c + d = n + a + b
      <3>1. c + d = a + b
        BY <1>2, <2>2, Zenon
      <3> QED BY <3>1
    <2>4. /\ page'.total + Len(page'.rows) = page.total + Len(page.rows)
          /\ Len(walk'.seen) + page'.total + Len(page'.rows)
               = Len(walk.seen) + page.total + Len(page.rows)
      BY <1>2, <2>2, <2>3, Zenon
    <2> HIDE DEF Delivered
    <2>5. page.open =>
             IF page.total + Len(page.rows) > walk.top
             THEN Accounted(stored, past, Delivered, Len(walk.seen) + walk.top,
                            walk.skip + walk.top)
             ELSE AtEnd(past, Delivered, Len(walk.seen) + page.total + Len(page.rows))
      BY <1>1 DEF PageComing
    <2> QED BY <1>2, <2>1, <2>4, <2>5
  <1> QED BY <1>3, <1>4

\* At the end of the cursor all that was coming was sent; then it is the client's.
LEMMA CloseMoves ==
    ASSUME PagingTypes, Close
    PROVE  /\ UNCHANGED <<stored, open, serial, past>> /\ page.open /\ page' = NoPage
           /\ walk' = [walk EXCEPT !.seen = @ \o page.sent, !.linked = page.total > walk.top,
                                   !.skip = IF page.total > walk.top THEN @ + walk.top ELSE @]
           /\ walk.seen \o page.sent \in Seq(Id)
           /\ Len(walk.seen \o page.sent)
                = Len(walk.seen) + (IF page.total > walk.top THEN walk.top ELSE page.total)
           /\ ToSet(walk.seen \o page.sent) = Delivered
           /\ page.total + Len(page.rows) = page.total
  <1>1. PICK seen \in Seq(Id), sent \in Seq(Id), total \in Nat, top \in Nat, skip \in Nat :
           /\ seen = walk.seen /\ sent = page.sent /\ total = page.total /\ top = walk.top
           /\ skip = walk.skip
    BY GivenIds
  <1>2. /\ UNCHANGED <<stored, open, serial, past>> /\ page.open /\ page' = NoPage
        /\ page.rows = << >>
    BY DEF Close, Ended
  <1>3. Len(page.rows) = 0 /\ DOMAIN page.rows = {}
    <2>1. Len(page.rows) = 0
      BY <1>2, EmptySeq
    <2>2. DOMAIN page.rows = 1 .. Len(page.rows)
      BY GivenIds, LenProperties
    <2>3. 1 .. 0 = {}
      OBVIOUS
    <2> QED BY <2>1, <2>2, <2>3, Zenon
  <1>4. Linked(total) <=> total > top
    BY <1>1 DEF Linked
  <1>5. walk' = [walk EXCEPT !.seen = @ \o page.sent, !.linked = page.total > walk.top,
                             !.skip = IF page.total > walk.top THEN @ + walk.top ELSE @]
    <2>1. Linked(total) = (total > top)
      BY <1>4 DEF Linked
    <2>2. NextSkip(total) = walk.skip + walk.top
      BY DEF NextSkip
    <2>3. walk' = [walk EXCEPT !.seen = @ \o page.sent, !.linked = Linked(total),
                               !.skip = IF Linked(total) THEN NextSkip(total) ELSE @]
      BY <1>1 DEF Close
    <2> QED BY <1>1, <2>1, <2>2, <2>3, Zenon
  <1>6. seen \o sent \in Seq(Id) /\ Len(seen \o sent) = Len(seen) + Len(sent)
    BY ConcatProperties
  <1>7. Len(sent) = IF total > top THEN top ELSE total
    <2>1. Len(sent) = IF total <= top THEN total ELSE top
      BY <1>1 DEF PagingTypes
    <2> QED BY <2>1
  <1>8. ToSet(seen \o sent) = ToSet(seen) \cup ToSet(sent)
    <2>1. PICK k \in Nat, l \in Nat : k = Len(seen) /\ l = Len(sent)
      BY LenProperties
    <2>2. PICK both : both = seen \o sent
      OBVIOUS
    <2>3. \A i \in 1 .. k + l : both[i] = IF i <= k THEN seen[i] ELSE sent[i - k]
      BY <2>1, <2>2, ConcatProperties
    <2>4. DOMAIN both = 1 .. k + l /\ DOMAIN seen = 1 .. k /\ DOMAIN sent = 1 .. l
      <3>1. \A q \in Seq(Id) : DOMAIN q = 1 .. Len(q)
        BY LenProperties
      <3> QED BY <1>6, <2>1, <2>2, <3>1, Zenon
    <2>5. ASSUME NEW i \in 1 .. k PROVE i \in 1 .. k + l /\ both[i] = seen[i]
      BY <2>3
    <2>6. ASSUME NEW i \in 1 .. l PROVE k + i \in 1 .. k + l /\ both[k + i] = sent[i]
      <3>1. k + i \in 1 .. k + l /\ ~(k + i <= k) /\ (k + i) - k = i
        OBVIOUS
      <3> QED BY <2>3, <3>1
    <2>7. ASSUME NEW i \in 1 .. k + l PROVE i \in 1 .. k \/ (i - k \in 1 .. l /\ k + (i - k) = i)
      OBVIOUS
    <2>8. ToSet(both) = ToSet(seen) \cup ToSet(sent)
      <3>1. ASSUME NEW x \in ToSet(both) PROVE x \in ToSet(seen) \cup ToSet(sent)
        <4>1. PICK i \in 1 .. k + l : x = both[i]
          BY <2>4 DEF ToSet
        <4>2. CASE i \in 1 .. k
          BY <2>4, <2>5, <4>1, <4>2 DEF ToSet
        <4>3. CASE i - k \in 1 .. l /\ k + (i - k) = i
          <5>1. x = sent[i - k]
            BY <2>6, <4>1, <4>3
          <5> QED BY <2>4, <4>3, <5>1 DEF ToSet
        <4> QED BY <2>7, <4>2, <4>3
      <3>2. ToSet(seen) \subseteq ToSet(both)
        BY <2>4, <2>5 DEF ToSet
      <3>3. ToSet(sent) \subseteq ToSet(both)
        BY <2>4, <2>6 DEF ToSet
      <3> QED BY <3>1, <3>2, <3>3
    <2> QED BY <2>2, <2>8
  <1>9. Delivered = ToSet(seen) \cup ToSet(sent)
    BY <1>1, <1>3 DEF Delivered
  <1>10. page.total + Len(page.rows) = page.total
    <2>1. total + 0 = total
      OBVIOUS
    <2> QED BY <1>1, <1>3, <2>1, Zenon
  <1> QED BY <1>1, <1>2, <1>5, <1>6, <1>7, <1>8, <1>9, <1>10, Zenon

\* What the client has then.
LEMMA CloseWalk ==
    ASSUME PagingTypes, Close
    PROVE  /\ walk' \in [top : Tops, skip : Nat, seen : Seq(Id), linked : BOOLEAN]
           /\ walk'.top = walk.top /\ walk'.linked = (page.total > walk.top)
           /\ walk'.skip = IF page.total > walk.top THEN walk.skip + walk.top ELSE walk.skip
           /\ ToSet(walk'.seen) = Delivered
           /\ Len(walk'.seen) = Len(walk.seen) + (IF page.total > walk.top THEN walk.top ELSE page.total)
  <1>1. walk \in [top : Tops, skip : Nat, seen : Seq(Id), linked : BOOLEAN]
    BY DEF PagingTypes
  <1>2. PICK seen \in Seq(Id), linked \in BOOLEAN, skip \in Nat :
           /\ seen = walk.seen \o page.sent /\ linked = (page.total > walk.top)
           /\ skip = IF page.total > walk.top THEN walk.skip + walk.top ELSE walk.skip
    <2>1. walk.seen \o page.sent \in Seq(Id)
      BY CloseMoves
    <2>2. (page.total > walk.top) \in BOOLEAN
      OBVIOUS
    <2>3. (IF page.total > walk.top THEN walk.skip + walk.top ELSE walk.skip) \in Nat
      <3>1. walk.skip \in Nat /\ walk.top \in Nat
        BY GivenIds
      <3>2. walk.skip + walk.top \in Nat
        BY <3>1
      <3> QED BY <3>1, <3>2, Zenon
    <2> QED BY <2>1, <2>2, <2>3, Zenon
  <1>3. walk' = [walk EXCEPT !.seen = seen, !.linked = linked, !.skip = skip]
    BY <1>2, CloseMoves, Zenon
  <1>4. walk' = [top |-> walk.top, skip |-> skip, seen |-> seen, linked |-> linked]
    BY <1>1, <1>3
  <1>5. /\ walk'.top = walk.top /\ walk'.skip = skip /\ walk'.seen = seen /\ walk'.linked = linked
        /\ walk' \in [top : Tops, skip : Nat, seen : Seq(Id), linked : BOOLEAN]
    BY <1>1, <1>4
  <1> QED BY <1>2, <1>5, CloseMoves, Zenon

LEMMA CloseTypes ==
    ASSUME PagingTypes, Close
    PROVE  PagingTypes'
  <1>1. UNCHANGED <<stored, open, serial, past>> /\ page' = NoPage
    BY CloseMoves
  <1>2. /\ page' \in [open : BOOLEAN, rows : Seq(Id), total : Nat, sent : Seq(Id)]
        /\ ~page'.open /\ page'.rows = << >> /\ page'.total = 0 /\ page'.sent = << >>
    <2>1. << >> \in Seq(Id)
      BY EmptySeq
    <2> QED BY <1>1, <2>1 DEF NoPage
  <1>3. /\ walk' \in [top : Tops, skip : Nat, seen : Seq(Id), linked : BOOLEAN]
        /\ walk'.top = walk.top /\ walk.top \in Nat
    BY CloseWalk, GivenIds
  <1>4. /\ page'.total + Len(page'.rows) <= walk'.top + 1
        /\ Len(page'.sent) = IF page'.total <= walk'.top THEN page'.total ELSE walk'.top
    <2>1. Len(page'.rows) = 0 /\ Len(page'.sent) = 0 /\ page'.total = 0
      BY <1>2, NothingInEmpty
    <2> QED BY <1>3, <2>1
  <1> QED BY <1>1, <1>2, <1>3, <1>4 DEF PagingTypes

LEMMA CloseKeeps ==
    ASSUME WalkInv, Close
    PROVE  PagesGot' /\ PageComing'
  <1>1. PagingTypes /\ PageComing
    BY DEF WalkInv
  <1>2. UNCHANGED <<stored, past>> /\ page.open /\ page' = NoPage
        /\ page.total + Len(page.rows) = page.total
    BY <1>1, CloseMoves
  <1>3. PageComing'
    BY <1>2 DEF PageComing, NoPage
  <1>4. PICK total \in Nat, top \in Nat, n \in Nat :
           total = page.total /\ top = walk.top /\ n = Len(walk.seen)
    BY <1>1, GivenIds
  <1>5. IF total > top THEN Accounted(stored, past, Delivered, n + top, walk.skip + top)
        ELSE AtEnd(past, Delivered, n + total)
    <2>1. IF page.total + Len(page.rows) > walk.top
          THEN Accounted(stored, past, Delivered, Len(walk.seen) + walk.top, walk.skip + walk.top)
          ELSE AtEnd(past, Delivered, Len(walk.seen) + page.total + Len(page.rows))
      BY <1>1, <1>2 DEF PageComing
    <2>2. Len(page.rows) = 0
      BY <1>1, <1>2, NothingInEmpty DEF Close, Ended
    <2>3. Len(walk.seen) + page.total + Len(page.rows) = n + total
      <3>1. n + total + 0 = n + total
        OBVIOUS
      <3> QED BY <1>4, <2>2, <3>1, Zenon
    <2> QED BY <1>2, <1>4, <2>1, <2>3, Zenon
  <1>6. /\ walk'.linked = (total > top)
        /\ walk'.skip = IF total > top THEN walk.skip + top ELSE walk.skip
        /\ ToSet(walk'.seen) = Delivered
        /\ Len(walk'.seen) = n + (IF total > top THEN top ELSE total)
    BY <1>1, <1>4, CloseWalk
  <1>7. PagesGot' = IF walk'.linked
                    THEN Accounted(stored, past, ToSet(walk'.seen), Len(walk'.seen), walk'.skip)
                    ELSE AtEnd(past, ToSet(walk'.seen), Len(walk'.seen))
    BY <1>2 DEF PagesGot, Accounted, AtEnd
  <1>8. PagesGot'
    BY <1>5, <1>6, <1>7, Zenon
  <1> QED BY <1>3, <1>8

LEMMA BreakTypes ==
    ASSUME PagingTypes, Break
    PROVE  PagingTypes'
  <1>1. UNCHANGED <<stored, open, serial, walk>> /\ page' = NoPage
        /\ past' = [past EXCEPT !.breaks = @ + 1]
    BY DEF Break
  <1>2. /\ page' \in [open : BOOLEAN, rows : Seq(Id), total : Nat, sent : Seq(Id)]
        /\ ~page'.open /\ page'.rows = << >> /\ page'.total = 0 /\ page'.sent = << >>
    <2>1. << >> \in Seq(Id)
      BY EmptySeq
    <2> QED BY <1>1, <2>1 DEF NoPage
  <1>3. walk.top \in Nat
    BY GivenIds
  <1>4. /\ page'.total + Len(page'.rows) <= walk'.top + 1
        /\ Len(page'.sent) = IF page'.total <= walk'.top THEN page'.total ELSE walk'.top
    <2>1. Len(page'.rows) = 0 /\ Len(page'.sent) = 0 /\ page'.total = 0
      BY <1>2, NothingInEmpty
    <2> QED BY <1>1, <1>3, <2>1
  <1>5. /\ past'.stayed = past.stayed
        /\ past' \in [stayed : SUBSET Id, removed : Nat, late : Nat, deletes : Nat, breaks : Nat]
    <2>1. past \in [stayed : SUBSET Id, removed : Nat, late : Nat, deletes : Nat, breaks : Nat]
      BY DEF PagingTypes
    <2>2. past.breaks + 1 \in Nat
      BY <2>1
    <2>3. past' = [stayed |-> past.stayed, removed |-> past.removed, late |-> past.late,
                   deletes |-> past.deletes, breaks |-> past.breaks + 1]
      BY <1>1, <2>1
    <2> QED BY <2>1, <2>2, <2>3
  <1> QED BY <1>1, <1>2, <1>4, <1>5 DEF PagingTypes

\* The page is not counted; the account of those that the client got stands.
LEMMA BreakKeeps ==
    ASSUME WalkInv, Break
    PROVE  PagesGot' /\ PageComing'
  <1>1. PagingTypes /\ PagesGot
    BY DEF WalkInv
  <1>2. UNCHANGED <<stored, open, serial, walk>> /\ page' = NoPage
        /\ past' = [past EXCEPT !.breaks = @ + 1]
    BY DEF Break
  <1>3. past'.stayed = past.stayed /\ past'.removed = past.removed /\ past'.late = past.late
    BY <1>1, <1>2 DEF PagingTypes
  <1>4. PageComing'
    BY <1>2 DEF PageComing, NoPage
  <1>5. PagesGot'
    BY <1>1, <1>2, <1>3 DEF PagesGot, Accounted, AtEnd
  <1> QED BY <1>4, <1>5

-----------------------------------------------------------------------------
(* Paging: theorems.                                                       *)

LEMMA MaxIsMax ==
    ASSUME NEW S \in SUBSET (0 .. MaxId), 0 \in S
    PROVE  Max(S) \in 0 .. MaxId /\ \A x \in S : x <= Max(S)
  <1>1. MaxId \in Nat /\ S # {}
    BY PagingAssumption
  <1>2. Max(S) \in S /\ \A x \in S : x <= Max(S)
    BY <1>1, MaxIs
  <1> QED BY <1>2

LEMMA WalkBegins == PagingInit => WalkInv
  <1> SUFFICES ASSUME PagingInit
               PROVE  WalkInv
    OBVIOUS
  <1>1. PICK t \in Tops : walk = [top |-> t, skip |-> 0, seen |-> << >>, linked |-> TRUE]
    BY DEF PagingInit
  <1>2. /\ walk.top = t /\ walk.skip = 0 /\ walk.seen = << >> /\ walk.linked
        /\ walk \in [top : Tops, skip : Nat, seen : Seq(Id), linked : BOOLEAN]
    <2>1. << >> \in Seq(Id)
      BY EmptySeq
    <2> QED BY <1>1, <2>1
  <1>3. /\ page \in [open : BOOLEAN, rows : Seq(Id), total : Nat, sent : Seq(Id)] /\ page = NoPage
        /\ ~page.open /\ page.rows = << >> /\ page.total = 0 /\ page.sent = << >>
    <2>1. << >> \in Seq(Id)
      BY EmptySeq
    <2> QED BY <2>1 DEF PagingInit, NoPage
  <1>4. stored = Initial /\ open = {} /\ serial = Max(Initial \cup {0}) /\ Initial \in SUBSET Id
    BY PagingAssumption DEF PagingInit, Id
  <1>5. serial \in 0 .. MaxId /\ stored \cup open \subseteq 1 .. serial
    <2>1. Initial \cup {0} \in SUBSET (0 .. MaxId)
      BY <1>4, PagingAssumption DEF Id
    <2>2. serial \in 0 .. MaxId /\ \A x \in Initial \cup {0} : x <= serial
      BY <1>4, <2>1, MaxIsMax
    <2>3. ASSUME NEW x \in Initial PROVE x \in 1 .. serial
      <3>1. x \in 1 .. MaxId /\ x <= serial /\ MaxId \in Nat
        BY <1>4, <2>2, PagingAssumption DEF Id
      <3> QED BY <2>2, <3>1
    <2> QED BY <1>4, <2>2, <2>3
  <1>6. /\ past \in [stayed : SUBSET Id, removed : Nat, late : Nat, deletes : Nat, breaks : Nat]
        /\ past.stayed = stored /\ past.removed = 0 /\ past.late = 0
    BY <1>4 DEF PagingInit
  <1>7. t \in Nat
    BY PagingAssumption
  <1>8. /\ page.total + Len(page.rows) <= walk.top + 1
        /\ Len(page.sent) = IF page.total <= walk.top THEN page.total ELSE walk.top
    <2>1. Len(page.rows) = 0 /\ Len(page.sent) = 0 /\ page.total = 0
      BY <1>3, NothingInEmpty
    <2> QED BY <1>2, <1>7, <2>1
  <1>9. PagingTypes
    BY <1>2, <1>3, <1>4, <1>5, <1>6, <1>8 DEF PagingTypes
  <1>10. Len(walk.seen) = 0 /\ ToSet(walk.seen) = {}
    BY <1>2, NothingInEmpty
  <1>11. Accounted(stored, past, {}, 0, 0)
    <2>1. Upto({}) = {}
      BY DEF Upto
    <2>2. Cardinality({}) = 0
      BY FS_EmptySet
    <2>3. stored \cap Upto({}) = {} /\ (past.stayed \cap Upto({})) \ {} = {}
      BY <2>1
    <2> QED BY <1>6, <2>2, <2>3 DEF Accounted
  <1>12. PagesGot
    BY <1>2, <1>10, <1>11 DEF PagesGot
  <1>13. PageComing
    BY <1>3 DEF PageComing
  <1> QED BY <1>9, <1>12, <1>13 DEF WalkInv

LEMMA PagingTypesKept == PagingTypes /\ [PagingNext]_pagingVars => PagingTypes'
  <1> SUFFICES ASSUME PagingTypes, [PagingNext]_pagingVars
               PROVE  PagingTypes'
    OBVIOUS
  <1>1. CASE Allocate
    BY <1>1, AllocateTypes
  <1>2. CASE CommitInsert
    BY <1>2, CommitInsertTypes
  <1>3. CASE Delete
    BY <1>3, DeleteTypes
  <1>4. CASE Serve
    BY <1>4, DeclareTypes, FetchTypes, CloseTypes DEF Serve
  <1>5. CASE Break
    BY <1>5, BreakTypes
  <1>6. CASE UNCHANGED pagingVars
    BY <1>6 DEF pagingVars, PagingTypes
  <1> QED BY <1>1, <1>2, <1>3, <1>4, <1>5, <1>6 DEF PagingNext

LEMMA WalkGoesOn == Untied /\ WalkInv /\ [PagingNext]_pagingVars => WalkInv'
  <1> SUFFICES ASSUME Untied, WalkInv, [PagingNext]_pagingVars
               PROVE  WalkInv'
    OBVIOUS
  <1>1. PagingTypes'
    BY PagingTypesKept DEF WalkInv
  <1>2. PagesGot' /\ PageComing'
    <2>1. CASE Allocate
      BY <2>1, AllocateKeeps
    <2>2. CASE CommitInsert
      BY <2>2, CommitInsertKeeps
    <2>3. CASE Delete
      BY <2>3, DeleteKeeps
    <2>4. CASE Serve
      BY <2>4, DeclareKeeps, FetchKeeps, CloseKeeps DEF Serve
    <2>5. CASE Break
      BY <2>5, BreakKeeps
    <2>6. CASE UNCHANGED pagingVars
      BY <2>6 DEF pagingVars, WalkInv, PagesGot, PageComing, Accounted, AtEnd, Delivered
    <2> QED BY <2>1, <2>2, <2>3, <2>4, <2>5, <2>6 DEF PagingNext
  <1> QED BY <1>1, <1>2 DEF WalkInv

\* A page never has more than $top rows, nor its cursor more than $top + 1, whatever is written
\* while it streams; only rows that stayed are waited for.
THEOREM PagesBounded == PagingSpec => []PagingTypeOK
  <1>1. PagingInit => PagingTypes
    BY WalkBegins DEF WalkInv
  <1>2. PagingTypes => PagingTypeOK
    <2> SUFFICES ASSUME PagingTypes
                 PROVE  PagingTypeOK
      OBVIOUS
    <2>1. walk.top \in Nat /\ page.total \in Nat
      BY GivenIds
    <2>2. Len(page.sent) <= walk.top
      BY <2>1 DEF PagingTypes
    <2> QED BY <2>2 DEF PagingTypes, PagingTypeOK
  <1> QED BY <1>1, <1>2, PagingTypesKept, PTL DEF PagingSpec

\* Property WalkMissesOnlyDeletions, for an $orderby without ties: a client that follows the
\* links misses at most one of the entities that were there all along for each deletion behind
\* it, and gets at most one twice for each commit behind it, for any sizes of the collection,
\* the pages and the partitions, and however often a page breaks off.
THEOREM WalksCount == Untied => (PagingSpec => []WalkMissesOnlyDeletions)
  <1> SUFFICES ASSUME Untied
               PROVE  PagingSpec => []WalkMissesOnlyDeletions
    OBVIOUS
  <1>1. PagingInit => WalkInv
    BY WalkBegins
  <1>2. WalkInv /\ [PagingNext]_pagingVars => WalkInv'
    BY WalkGoesOn
  <1>3. WalkInv => WalkMissesOnlyDeletions
    <2> SUFFICES ASSUME WalkInv, Walked
                 PROVE  Cardinality(Missed) <= past.removed /\ Repeated <= past.late
      BY DEF WalkMissesOnlyDeletions
    <2>1. PICK given \in SUBSET Id, n \in Nat, late \in Nat :
             given = ToSet(walk.seen) /\ n = Len(walk.seen) /\ late = past.late
      BY GivenIds DEF WalkInv
    <2>2. Cardinality(past.stayed \ given) <= past.removed /\ n <= Cardinality(given) + late
      BY <2>1 DEF WalkInv, PagesGot, Walked, AtEnd
    <2>3. Cardinality(given) \in Nat
      BY IdsAreFinite
    <2>4. n - Cardinality(given) <= late
      BY <2>2, <2>3
    <2> QED BY <2>1, <2>2, <2>4 DEF Missed, Repeated
  <1> QED BY <1>1, <1>2, <1>3, PTL DEF PagingSpec


-----------------------------------------------------------------------------
(* FTP import: tables, rows and ranges.                                    *)

Tables == [Stream -> [Time -> RowValue \union {NoRow}]]

\* The row's Datastream and time have an Observation in tab; or the Datastream has one that
\* is not before it.
HasRow(tab, row) == tab[row.stream][row.time] # NoRow
Within(tab, row) == row.time <= Ranges(tab)[row.stream]

\* What the archive of a file promises of its rows.
Safe(tab, row) == IF policy = "update" THEN HasRow(tab, row) ELSE Within(tab, row)

\* No Observation of tab is lost in new.
Grown(tab, new) ==
    \A s \in Stream : \A t \in Time : tab[s][t] # NoRow => new[s][t] # NoRow

LEMMA RangesIs ==
    ASSUME NEW tab \in Tables, NEW s \in Stream
    PROVE  /\ Ranges(tab)[s] \in 0..MaxTime
           /\ \A t \in Time : tab[s][t] # NoRow => t <= Ranges(tab)[s]
           /\ Ranges(tab)[s] = 0 \/ (Ranges(tab)[s] \in Time /\ tab[s][Ranges(tab)[s]] # NoRow)
  <1> DEFINE S == {0} \union {t \in Time : tab[s][t] # NoRow}
  <1>1. MaxTime \in Nat
    BY FtpAssumption
  <1>2. S \in SUBSET 0..MaxTime /\ S # {}
    BY <1>1 DEF Time
  <1>3. Ranges(tab)[s] = Max(S)
    BY DEF Ranges
  <1>4. Max(S) \in S /\ \A x \in S : x <= Max(S)
    <2> HIDE DEF S
    <2> QED BY <1>1, <1>2, MaxIs
  <1> QED BY <1>2, <1>3, <1>4

LEMMA GrownKeeps ==
    ASSUME NEW tab \in Tables, NEW new \in Tables, Grown(tab, new)
    PROVE  /\ \A s \in Stream : Ranges(tab)[s] <= Ranges(new)[s]
           /\ \A row \in Row : HasRow(tab, row) => HasRow(new, row) /\ Within(new, row)
           /\ \A row \in Row : Within(tab, row) => Within(new, row)
           /\ \A row \in Row : Safe(tab, row) => Safe(new, row)
  <1>0. MaxTime \in Nat
    BY FtpAssumption
  <1>1. ASSUME NEW s \in Stream PROVE Ranges(tab)[s] <= Ranges(new)[s]
    <2>1. /\ Ranges(tab)[s] \in 0..MaxTime /\ Ranges(new)[s] \in 0..MaxTime
          /\ Ranges(tab)[s] = 0 \/ (Ranges(tab)[s] \in Time /\ tab[s][Ranges(tab)[s]] # NoRow)
          /\ \A t \in Time : new[s][t] # NoRow => t <= Ranges(new)[s]
      BY RangesIs
    <2> QED BY <1>0, <2>1 DEF Grown
  <1>2. ASSUME NEW row \in Row, HasRow(tab, row) PROVE HasRow(new, row) /\ Within(new, row)
    <2>1. row.stream \in Stream /\ row.time \in Time
      BY DEF Row
    <2>2. HasRow(new, row)
      BY <1>2, <2>1 DEF HasRow, Grown
    <2> QED BY <2>1, <2>2, RangesIs DEF HasRow, Within
  <1>3. ASSUME NEW row \in Row, Within(tab, row) PROVE Within(new, row)
    <2>1. row.stream \in Stream /\ row.time \in Nat
      BY <1>0 DEF Row, Time
    <2>2. /\ Ranges(tab)[row.stream] \in 0..MaxTime /\ Ranges(new)[row.stream] \in 0..MaxTime
          /\ Ranges(tab)[row.stream] <= Ranges(new)[row.stream]
      BY <1>1, <2>1, RangesIs
    <2> QED BY <1>0, <1>3, <2>1, <2>2 DEF Within
  <1> QED BY <1>1, <1>2, <1>3 DEF Safe

\* A row that is stored is as safe as the archive promises.
LEMMA StoredSafe ==
    ASSUME NEW tab \in Tables, NEW row \in Row, HasRow(tab, row)
    PROVE  Safe(tab, row) /\ Within(tab, row)
  <1>1. Within(tab, row)
    BY RangesIs DEF HasRow, Within, Row
  <1> QED BY <1>1 DEF Safe

LEMMA WithIs ==
    ASSUME table \in Tables, NEW rows \in Seq(Row)
    PROVE  /\ With(rows) \in Tables /\ Grown(table, With(rows))
           /\ \A i \in DOMAIN rows : HasRow(With(rows), rows[i])
  <1> DEFINE hits(s, t) == {i \in DOMAIN rows : rows[i].stream = s /\ rows[i].time = t}
  <1>1. NoRow \notin RowValue
    BY FtpAssumption
  <1>2. ASSUME NEW s \in Stream, NEW t \in Time
        PROVE  With(rows)[s][t] = IF hits(s, t) = {} THEN table[s][t]
                                  ELSE rows[Max(hits(s, t))].value
    BY DEF With
  <1>3. ASSUME NEW s \in Stream, NEW t \in Time, hits(s, t) # {}
        PROVE  rows[Max(hits(s, t))].value \in RowValue
    <2>1. hits(s, t) \in SUBSET DOMAIN rows /\ hits(s, t) \in SUBSET 0..Len(rows)
          /\ Len(rows) \in Nat
      OBVIOUS
    <2>2. Max(hits(s, t)) \in DOMAIN rows
      <3> HIDE DEF hits
      <3> QED BY <1>3, <2>1, MaxIs
    <2>3. rows[Max(hits(s, t))] \in Row
      BY <2>2
    <2> QED BY <2>3 DEF Row
  <1>4. \A s \in Stream, t \in Time : With(rows)[s][t] \in RowValue \union {NoRow}
    BY <1>2, <1>3 DEF Tables
  <1>5. With(rows) \in Tables
    <2>1. With(rows) = [s \in Stream |-> [t \in Time |-> With(rows)[s][t]]]
      BY DEF With
    <2> QED BY <1>4, <2>1 DEF Tables
  <1>6. Grown(table, With(rows))
    BY <1>1, <1>2, <1>3 DEF Grown
  <1>7. ASSUME NEW i \in DOMAIN rows PROVE HasRow(With(rows), rows[i])
    <2>0. rows[i] \in Row
      OBVIOUS
    <2>1. rows[i].stream \in Stream /\ rows[i].time \in Time
      BY <2>0 DEF Row
    <2>2. hits(rows[i].stream, rows[i].time) # {}
      OBVIOUS
    <2>3. With(rows)[rows[i].stream][rows[i].time] \in RowValue
      <3> HIDE DEF hits
      <3> QED BY <1>2, <1>3, <2>1, <2>2
    <2> QED BY <1>1, <2>3 DEF HasRow
  <1> QED BY <1>5, <1>6, <1>7

LEMMA RecordIs ==
    ASSUME NEW cached \in [Stream -> 0..MaxTime], NEW rows \in Seq(Row), NEW s \in Stream
    PROVE  /\ Record(cached, rows)[s] \in 0..MaxTime
           /\ \/ Record(cached, rows)[s] = cached[s]
              \/ \E i \in DOMAIN rows : /\ rows[i].stream = s
                                        /\ Record(cached, rows)[s] = rows[i].time
  <1> DEFINE S == {cached[s]} \union {rows[i].time : i \in {j \in DOMAIN rows : rows[j].stream = s}}
  <1>1. MaxTime \in Nat
    BY FtpAssumption
  <1>2. \A i \in DOMAIN rows : rows[i].time \in 0..MaxTime
    <2>1. \A row \in Row : row.time \in 0..MaxTime
      BY <1>1 DEF Row, Time
    <2>2. \A i \in DOMAIN rows : rows[i] \in Row
      OBVIOUS
    <2> QED BY <2>1, <2>2
  <1>3. S \in SUBSET 0..MaxTime /\ S # {}
    BY <1>1, <1>2
  <1>4. Record(cached, rows)[s] = Max(S)
    BY DEF Record
  <1>5. Max(S) \in S
    <2> HIDE DEF S
    <2> QED BY <1>1, <1>3, MaxIs
  <1> QED BY <1>3, <1>4, <1>5

\* The rows at the given places, all of them and no other.
LEMMA RowsAtIs ==
    ASSUME NEW rows \in Seq(Row), NEW P \in SUBSET DOMAIN rows
    PROVE  /\ RowsAt(rows, P) \in Seq(Row)
           /\ \A i \in P : \E k \in DOMAIN RowsAt(rows, P) : RowsAt(rows, P)[k] = rows[i]
           /\ \A k \in DOMAIN RowsAt(rows, P) : \E i \in P : RowsAt(rows, P)[k] = rows[i]
  <1> DEFINE n == Cardinality(P)
             NotAfter(i) == {j \in P : j <= i}
             rank == [i \in P |-> Cardinality(NotAfter(i))]
             at(k) == CHOOSE i \in P : Cardinality(NotAfter(i)) = k
  <1>1. P \in SUBSET Nat /\ IsFiniteSet(P)
    <2>1. IsFiniteSet(1..Len(rows)) /\ DOMAIN rows = 1..Len(rows) /\ Len(rows) \in Nat
      BY FS_Interval
    <2> QED BY <2>1, FS_Subset
  <1>2. n \in Nat
    BY <1>1, FS_CardinalityType
  <1>3. ASSUME NEW i \in P
        PROVE  /\ Cardinality(NotAfter(i)) \in 1..n
               /\ \A j \in P : j < i => Cardinality(NotAfter(j)) < Cardinality(NotAfter(i))
    <2>1. NotAfter(i) \in SUBSET P /\ IsFiniteSet(NotAfter(i)) /\ Cardinality(NotAfter(i)) <= n
      BY <1>1, FS_Subset
    <2>2. Cardinality(NotAfter(i)) \in Nat /\ i \in NotAfter(i)
      BY <1>1, <2>1, FS_CardinalityType
    <2>3. Cardinality(NotAfter(i)) # 0
      BY <2>1, <2>2, FS_EmptySet
    <2>4. ASSUME NEW j \in P, j < i PROVE Cardinality(NotAfter(j)) < Cardinality(NotAfter(i))
      <3>1. NotAfter(j) \in SUBSET NotAfter(i) /\ i \notin NotAfter(j)
        BY <1>1, <2>4
      <3>2. /\ Cardinality(NotAfter(j)) <= Cardinality(NotAfter(i))
            /\ Cardinality(NotAfter(j)) # Cardinality(NotAfter(i))
            /\ Cardinality(NotAfter(j)) \in Nat
        <4>1. IsFiniteSet(NotAfter(j))
          BY <2>1, <3>1, FS_Subset
        <4> HIDE DEF NotAfter
        <4> QED BY <2>1, <2>2, <3>1, <4>1, FS_Subset, FS_CardinalityType
      <3> HIDE DEF NotAfter
      <3> QED BY <2>2, <3>2
    <2> HIDE DEF NotAfter, n
    <2> QED BY <1>2, <2>1, <2>2, <2>3, <2>4
  <1>4. rank \in Injection(P, 1..n)
    <2>1. rank \in [P -> 1..n]
      BY <1>3
    <2>2. ASSUME NEW i \in P, NEW j \in P, i # j PROVE rank[i] # rank[j]
      <3>1. i < j \/ j < i
        BY <1>1, <2>2
      <3>2. Cardinality(NotAfter(i)) \in 1..n /\ Cardinality(NotAfter(j)) \in 1..n
        BY <1>3
      <3>3. Cardinality(NotAfter(i)) < Cardinality(NotAfter(j)) \/ Cardinality(NotAfter(j)) < Cardinality(NotAfter(i))
        BY <1>3, <3>1
      <3>4. Cardinality(NotAfter(i)) # Cardinality(NotAfter(j))
        <4> HIDE DEF NotAfter, n
        <4> QED BY <1>2, <3>2, <3>3
      <3> QED BY <3>4
    <2> HIDE DEF rank
    <2> QED BY <2>1, <2>2 DEF Injection, IsInjective
  <1>5. IsFiniteSet(1..n) /\ Cardinality(1..n) = n
    BY <1>2, FS_Interval
  <1>6. rank \in Surjection(P, 1..n)
    <2> HIDE DEF rank
    <2> QED BY <1>4, <1>5, FS_Injection
  <1>7. ASSUME NEW k \in 1..n PROVE at(k) \in P /\ Cardinality(NotAfter(at(k))) = k
    <2>1. PICK i \in P : rank[i] = k
      BY <1>6 DEF Surjection
    <2>2. \E x \in P : Cardinality(NotAfter(x)) = k
      BY <2>1
    <2> HIDE DEF NotAfter
    <2> QED BY <2>2
  <1>8. ASSUME NEW i \in P PROVE rank[i] \in 1..n /\ at(rank[i]) = i
    <2>1. rank[i] \in 1..n
      BY <1>3
    <2>2. at(rank[i]) \in P /\ rank[at(rank[i])] = rank[i]
      BY <1>7, <2>1
    <2> HIDE DEF rank, at
    <2> QED BY <1>4, <2>1, <2>2 DEF Injection, IsInjective
  <1>9. RowsAt(rows, P) = [k \in 1..n |-> rows[at(k)]]
    BY DEF RowsAt
  <1> HIDE DEF at, rank, n
  <1>10. \A k \in 1..n : rows[at(k)] \in Row
    <2>1. \A i \in P : rows[i] \in Row
      OBVIOUS
    <2> QED BY <1>7, <2>1
  <1>11. RowsAt(rows, P) \in Seq(Row) /\ DOMAIN RowsAt(rows, P) = 1..n
    BY <1>2, <1>9, <1>10
  <1> QED BY <1>7, <1>8, <1>9, <1>11

-----------------------------------------------------------------------------
(* FTP import: lists of rows.                                              *)

\* The first n rows; all of them, when there are no more.
LEMMA FirstRowsAre ==
    ASSUME NEW rows \in Seq(Row), NEW n \in Nat
    PROVE  /\ FirstRows(rows, n) \in Seq(Row) /\ Len(FirstRows(rows, n)) <= n
           /\ \A i \in DOMAIN FirstRows(rows, n) :
                i \in DOMAIN rows /\ FirstRows(rows, n)[i] = rows[i]
           /\ \A i \in DOMAIN rows : i <= n => i \in DOMAIN FirstRows(rows, n)
  <1>1. PICK L \in Nat : L = Len(rows) /\ DOMAIN rows = 1 .. L /\ \A i \in 1 .. L : rows[i] \in Row
    BY LenProperties
  <1>2. PICK m \in Nat : m = Min({n, L}) /\ m <= n /\ m <= L /\ (m = n \/ m = L)
    <2>1. \E x \in {n, L} : \A y \in {n, L} : x <= y
      BY <1>1
    <2>2. Min({n, L}) \in {n, L} /\ \A y \in {n, L} : Min({n, L}) <= y
      BY <2>1 DEF Min
    <2> QED BY <1>1, <2>2
  <1>3. PICK t : t = FirstRows(rows, n) /\ t = SubSeq(rows, 1, m)
    BY <1>1, <1>2 DEF FirstRows
  <1>4. t \in Seq(Row) /\ Len(t) = m /\ \A i \in 1 .. m : t[i] = rows[i]
    <2>1. \A i \in 1 .. m : rows[i] \in Row
      BY <1>1, <1>2
    <2>2. /\ t \in Seq(Row) /\ Len(t) = IF 1 <= m THEN m - 1 + 1 ELSE 0
          /\ \A i \in 1 .. m - 1 + 1 : t[i] = rows[1 + i - 1]
      BY <1>3, <2>1, SubSeqProperties, 1 \in Int, m \in Int
    <2>3. /\ (IF 1 <= m THEN m - 1 + 1 ELSE 0) = m /\ m - 1 + 1 = m
          /\ \A i \in 1 .. m : 1 + i - 1 = i
      BY <1>2
    <2>4. \A i \in 1 .. m : t[i] = rows[i]
      <3>1. \A i \in 1 .. m : t[i] = rows[1 + i - 1]
        BY <2>2, <2>3, Zenon
      <3> QED BY <2>3, <3>1, Zenon
    <2> QED BY <2>2, <2>3, <2>4, Zenon
  <1>5. DOMAIN t = 1 .. m
    BY <1>4, LenProperties
  <1>6. \A i \in 1 .. m : i \in 1 .. L /\ i <= n
    BY <1>1, <1>2
  <1>7. \A i \in 1 .. L : i <= n => i \in 1 .. m
    BY <1>1, <1>2
  <1> QED BY <1>1, <1>2, <1>3, <1>4, <1>5, <1>6, <1>7, Zenon

\* What is left after the first n rows.
LEMMA RowsAfter ==
    ASSUME NEW rows \in Seq(Row), NEW n \in Nat
    PROVE  /\ SubSeq(rows, n + 1, Len(rows)) \in Seq(Row)
           /\ \A i \in DOMAIN rows : i > n =>
                \E k \in DOMAIN SubSeq(rows, n + 1, Len(rows)) :
                    SubSeq(rows, n + 1, Len(rows))[k] = rows[i]
  <1>1. PICK L \in Nat : L = Len(rows) /\ DOMAIN rows = 1 .. L /\ \A i \in 1 .. L : rows[i] \in Row
    BY LenProperties
  <1>2. PICK t : t = SubSeq(rows, n + 1, L)
    OBVIOUS
  <1>3. /\ t \in Seq(Row) /\ Len(t) = IF n + 1 <= L THEN L - (n + 1) + 1 ELSE 0
        /\ \A i \in 1 .. L - (n + 1) + 1 : t[i] = rows[(n + 1) + i - 1]
    <2>1. \A i \in n + 1 .. L : rows[i] \in Row
      BY <1>1
    <2>2. n + 1 \in Int /\ L \in Int
      BY <1>1
    <2> QED BY <1>2, <2>1, <2>2, SubSeqProperties
  <1>4. DOMAIN t = 1 .. Len(t)
    BY <1>3, LenProperties
  <1>5. ASSUME NEW i \in DOMAIN rows, i > n PROVE \E k \in DOMAIN t : t[k] = rows[i]
    <2>1. i \in Nat /\ n + 1 <= L /\ i - n \in 1 .. L - (n + 1) + 1 /\ (n + 1) + (i - n) - 1 = i
      BY <1>1, <1>5
    <2>2. t[i - n] = rows[i]
      BY <1>3, <2>1
    <2>3. i - n \in DOMAIN t
      BY <1>1, <1>3, <1>4, <2>1
    <2> QED BY <2>2, <2>3
  <1> QED BY <1>1, <1>2, <1>3, <1>5

\* A list that is not empty: its first row, and the others.
LEMMA FirstAndRest ==
    ASSUME NEW rows \in Seq(Row), rows # <<>>
    PROVE  /\ Head(rows) \in Row /\ Tail(rows) \in Seq(Row)
           /\ Len(rows) \in Nat /\ Len(Tail(rows)) = Len(rows) - 1
           /\ \A k \in DOMAIN rows : rows[k] = Head(rows) \/
                \E l \in DOMAIN Tail(rows) : Tail(rows)[l] = rows[k]
           /\ Len(rows) = 1 => Tail(rows) = <<>>
  <1>1. PICK L \in Nat : L = Len(rows) /\ DOMAIN rows = 1 .. L /\ L > 0
    BY LenProperties, EmptySeq
  <1>2. PICK t : t = Tail(rows)
    OBVIOUS
  <1>3. /\ Head(rows) \in Row /\ t \in Seq(Row) /\ Len(t) = L - 1
        /\ \A i \in 1 .. Len(t) : t[i] = rows[i + 1]
    BY <1>1, <1>2, HeadTailProperties
  <1>4. DOMAIN t = 1 .. L - 1
    BY <1>3, LenProperties
  <1>5. Head(rows) = rows[1]
    BY <1>1
  <1>6. ASSUME NEW k \in DOMAIN rows, k # 1 PROVE \E l \in DOMAIN t : t[l] = rows[k]
    <2>1. k - 1 \in 1 .. L - 1 /\ (k - 1) + 1 = k
      BY <1>1, <1>6
    <2>2. t[k - 1] = rows[k]
      BY <1>1, <1>3, <2>1
    <2> QED BY <1>4, <2>1, <2>2
  <1>7. L = 1 => t = <<>>
    BY <1>1, <1>3, EmptySeq
  <1> QED BY <1>1, <1>2, <1>3, <1>5, <1>6, <1>7

-----------------------------------------------------------------------------
(* FTP import: the invariant.                                              *)

RunState ==
    [at : {"off", "list", "next", "query", "patch", "post", "sent", "error"},
     todo : SUBSET File, file : File \union {NoFile}, cached : [Stream -> 0 .. MaxTime],
     parsed : Seq(Row), patches : Seq(Row), posts : Seq(Row), singles : Seq(Row),
     bulk : BOOLEAN]

\* No list of single rows is longer than what one request, or no request in bulk, takes.
Short(f) == Len(f.singles) <= BatchSize \/ Len(f.singles) <= BulkAbove

FtpTypes ==
    /\ policy \in Policy
    /\ table \in Tables
    /\ box \in [File -> {"inbox", "sent", "error"}]
    /\ job \in [Run -> RunState]
    /\ started \in Nat /\ started <= MaxStart /\ faults \in Nat /\ faults <= MaxFault
    /\ \A r \in Run : Short(job[r])

\* What a run remembers of the ranges is not beyond them.
Recalled(f, tab) == \A s \in Stream : f.cached[s] <= Ranges(tab)[s]

\* A run has the row in hand, or another of its Datastream and time.
Held(f, row) ==
    \/ \E i \in DOMAIN f.parsed : SameObservation(f.parsed[i], row)
    \/ \E i \in DOMAIN f.posts : SameObservation(f.posts[i], row)

\* Of the file a run is at every row is safe already or in hand.
InHandOrSafe(f, tab) ==
    f.at \in {"query", "patch", "post", "sent"} =>
        /\ f.file \in File
        /\ \A i \in DOMAIN Content[f.file] :
             Safe(tab, Content[f.file][i]) \/ Held(f, Content[f.file][i])

\* Where a run has no rows in hand, and where it has some.
Phased(f) ==
    /\ f.at = "query" => f.parsed # <<>>
    /\ f.at \in {"off", "list", "next", "sent"} => f.parsed = <<>> /\ f.posts = <<>>
    /\ f.at \notin {"post", "error"} => f.singles = <<>>
    /\ f.at = "post" /\ f.posts = <<>> => f.singles = <<>>

\* Of the rows that are sent one by one those that are not ahead are there.
Underway(f, tab) ==
    f.at = "post" /\ f.singles # <<>> =>
        \A i \in DOMAIN f.posts : (f.bulk => i <= BatchSize) =>
            \/ HasRow(tab, f.posts[i])
            \/ \E k \in DOMAIN f.singles : SameObservation(f.singles[k], f.posts[i])

RunInv(f, tab) == Recalled(f, tab) /\ InHandOrSafe(f, tab) /\ Phased(f) /\ Underway(f, tab)

FtpInv ==
    /\ FtpTypes
    /\ \A r \in Run : RunInv(job[r], table)
    /\ SentCovered

\* What holds of a run stays when Observations are added.
LEMMA MoreRowsKeep ==
    ASSUME NEW f \in RunState, NEW tab \in Tables, NEW new \in Tables, Grown(tab, new),
           RunInv(f, tab)
    PROVE  RunInv(f, new)
  <1>1. MaxTime \in Nat
    BY FtpAssumption
  <1>2. /\ \A s \in Stream : Ranges(tab)[s] <= Ranges(new)[s]
        /\ \A row \in Row : HasRow(tab, row) => HasRow(new, row)
        /\ \A row \in Row : Safe(tab, row) => Safe(new, row)
    BY GrownKeeps
  <1>3. Recalled(f, new)
    <2>1. \A s \in Stream : /\ f.cached[s] \in 0 .. MaxTime /\ f.cached[s] <= Ranges(tab)[s]
                            /\ Ranges(tab)[s] \in 0 .. MaxTime /\ Ranges(new)[s] \in 0 .. MaxTime
      BY RangesIs DEF RunInv, Recalled, RunState
    <2> QED BY <1>1, <1>2, <2>1 DEF Recalled
  <1>4. InHandOrSafe(f, new)
    <2>1. \A c \in File : \A i \in DOMAIN Content[c] : Content[c][i] \in Row
      BY FtpAssumption
    <2> QED BY <1>2, <2>1 DEF RunInv, InHandOrSafe
  <1>5. Underway(f, new)
    <2>1. \A i \in DOMAIN f.posts : f.posts[i] \in Row
      <3>1. f.posts \in Seq(Row)
        BY DEF RunState
      <3> QED BY <3>1
    <2> QED BY <1>2, <2>1 DEF RunInv, Underway
  <1> QED BY <1>3, <1>4, <1>5 DEF RunInv

\* The rows of a file in the table, or as the archive promises.
AllSafe(file, tab) == \A i \in DOMAIN Content[file] : Safe(tab, Content[file][i])

LEMMA SentIsSafe == SentCovered <=> \A f \in File : box[f] = "sent" => AllSafe(f, table)
  <1>1. \A f \in File : ToSet(Content[f]) = {Content[f][i] : i \in DOMAIN Content[f]}
    BY DEF ToSet
  <1> QED BY <1>1 DEF SentCovered, AllSafe, Safe, HasRow, Within, Stored

LEMMA AllSafeKept ==
    ASSUME NEW file \in File, NEW tab \in Tables, NEW new \in Tables, Grown(tab, new),
           AllSafe(file, tab)
    PROVE  AllSafe(file, new)
  <1>1. \A i \in DOMAIN Content[file] : Content[file][i] \in Row
    BY FtpAssumption
  <1> QED BY <1>1, GrownKeeps DEF AllSafe

\* A step of one run that adds Observations at most, and archives what is safe.
LEMMA RunKeeps ==
    ASSUME FtpInv, NEW r \in Run, NEW g \in RunState, job' = [job EXCEPT ![r] = g], Short(g),
           table' \in Tables, Grown(table, table'), RunInv(g, table'), policy' = policy,
           box' \in [File -> {"inbox", "sent", "error"}],
           \A f \in File : box'[f] = "sent" => box[f] = "sent" \/ AllSafe(f, table'),
           started' \in Nat, started' <= MaxStart, faults' \in Nat, faults' <= MaxFault
    PROVE  FtpInv'
  <1>1. /\ table \in Tables /\ job \in [Run -> RunState] /\ \A x \in Run : Short(job[x])
        /\ policy \in Policy /\ SentCovered /\ \A x \in Run : RunInv(job[x], table)
    BY DEF FtpInv, FtpTypes
  <1>2. job' \in [Run -> RunState] /\ \A x \in Run : job'[x] = IF x = r THEN g ELSE job[x]
    BY <1>1
  <1>3. FtpTypes'
    <2>1. \A x \in Run : Short(job'[x])
      BY <1>1, <1>2
    <2>2. (\A x \in Run : Short(job[x]))'
      BY <2>1 DEF Short
    <2> QED BY <1>1, <1>2, <2>2 DEF FtpTypes, Tables, RunState
  <1>4. \A x \in Run : RunInv(job'[x], table')
    <2>1. \A x \in Run : RunInv(job[x], table')
      BY <1>1, MoreRowsKeep
    <2> QED BY <1>2, <2>1
  <1>5. (\A x \in Run : RunInv(job[x], table))'
    BY <1>4 DEF RunInv, InHandOrSafe, Safe
  <1>6. \A f \in File : box'[f] = "sent" => AllSafe(f, table')
    BY <1>1, AllSafeKept, SentIsSafe
  <1>7. SentCovered'
    <2>1. (\A f \in File : box[f] = "sent" => AllSafe(f, table))'
      BY <1>6 DEF AllSafe, Safe, HasRow, Within
    <2> QED BY <2>1, SentIsSafe, PTL
  <1> QED BY <1>3, <1>5, <1>7 DEF FtpInv

\* A run that has no rows in hand.
LEMMA EmptyHanded ==
    ASSUME NEW f \in RunState, NEW tab, f.at \in {"off", "list", "next"}, f.parsed = <<>>,
           f.posts = <<>>, f.singles = <<>>, Recalled(f, tab)
    PROVE  RunInv(f, tab) /\ Short(f)
  <1>1. Len(f.singles) = 0 /\ BatchSize \in Nat
    BY FtpAssumption
  <1> QED BY <1>1 DEF RunInv, InHandOrSafe, Phased, Underway, Short

-----------------------------------------------------------------------------
(* FTP import: one lemma per action.                                       *)

LEMMA OffIs == Off \in RunState /\ \A tab \in Tables : Recalled(Off, tab)
  <1>1. Off \in RunState
    BY FtpAssumption, EmptySeq DEF Off, RunState
  <1>2. ASSUME NEW tab \in Tables PROVE Recalled(Off, tab)
    <2>1. \A s \in Stream : Ranges(tab)[s] \in 0 .. MaxTime
      BY RangesIs
    <2> QED BY <2>1, FtpAssumption DEF Off, Recalled
  <1> QED BY <1>1, <1>2

LEMMA FtpBegins == FtpInit => FtpInv
  <1> SUFFICES ASSUME FtpInit PROVE FtpInv
    OBVIOUS
  <1>1. table \in Tables /\ box \in [File -> {"inbox", "sent", "error"}]
    BY DEF FtpInit, Tables
  <1>2. \A r \in Run : RunInv(Off, table) /\ Short(Off)
    <2>1. Off.at = "off" /\ Off.parsed = <<>> /\ Off.posts = <<>> /\ Off.singles = <<>>
      BY DEF Off
    <2> QED BY <1>1, <2>1, OffIs, EmptyHanded
  <1>3. FtpTypes
    BY <1>1, <1>2, OffIs, FtpAssumption DEF FtpTypes, FtpInit
  <1>4. SentCovered
    BY DEF SentCovered, FtpInit
  <1> QED BY <1>2, <1>3, <1>4 DEF FtpInv, FtpInit

\* The state of one run, and what it shares with the others.
LEMMA RunAt ==
    ASSUME FtpInv, NEW r \in Run
    PROVE  /\ job[r] \in RunState /\ RunInv(job[r], table) /\ Short(job[r])
           /\ table \in Tables /\ Grown(table, table)
           /\ box \in [File -> {"inbox", "sent", "error"}]
           /\ started \in Nat /\ started <= MaxStart /\ faults \in Nat /\ faults <= MaxFault
  BY DEF FtpInv, FtpTypes, Grown

LEMMA StartKeeps == ASSUME FtpInv, NEW r \in Run, Start(r) PROVE FtpInv'
  <1> DEFINE g == [Off EXCEPT !.at = "list", !.cached = Ranges(table)]
  <1>1. /\ table \in Tables /\ Grown(table, table)
        /\ box \in [File -> {"inbox", "sent", "error"}]
        /\ started \in Nat /\ faults \in Nat /\ faults <= MaxFault /\ MaxStart \in Nat
    BY RunAt, FtpAssumption
  <1>2. /\ job' = [job EXCEPT ![r] = g] /\ started < MaxStart /\ started' = started + 1
        /\ UNCHANGED <<policy, table, box, faults>>
    BY DEF Start, Become
  <1>3. \A s \in Stream : Ranges(table)[s] \in 0 .. MaxTime
    BY <1>1, RangesIs
  <1>4. Ranges(table) \in [Stream -> 0 .. MaxTime]
    BY <1>3 DEF Ranges
  <1>5. /\ g \in RunState /\ g.at = "list" /\ g.parsed = <<>> /\ g.posts = <<>>
        /\ g.singles = <<>> /\ g.cached = Ranges(table)
    BY <1>4, EmptySeq DEF Off, RunState
  <1>6. Recalled(g, table)
    BY <1>3, <1>5, FtpAssumption DEF Recalled
  <1> HIDE DEF g
  <1>7. RunInv(g, table) /\ Short(g)
    BY <1>5, <1>6, EmptyHanded
  <1>8. started' \in Nat /\ started' <= MaxStart /\ faults' \in Nat /\ faults' <= MaxFault
    BY <1>1, <1>2
  <1> QED BY <1>1, <1>2, <1>5, <1>7, <1>8, RunKeeps

LEMMA ListFilesKeeps == ASSUME FtpInv, NEW r \in Run, ListFiles(r) PROVE FtpInv'
  <1> DEFINE g == [job[r] EXCEPT !.at = "next", !.todo = {f \in File : box[f] = "inbox"}]
  <1>1. /\ job[r] \in RunState /\ RunInv(job[r], table) /\ table \in Tables /\ Grown(table, table)
        /\ box \in [File -> {"inbox", "sent", "error"}]
        /\ started \in Nat /\ started <= MaxStart /\ faults \in Nat /\ faults <= MaxFault
    BY RunAt
  <1>2. /\ job' = [job EXCEPT ![r] = g] /\ job[r].at = "list"
        /\ UNCHANGED <<policy, table, box, started, faults>>
    BY DEF ListFiles, Become
  <1>3. /\ g \in RunState /\ g.at = "next" /\ g.parsed = <<>> /\ g.posts = <<>>
        /\ g.singles = <<>> /\ g.cached = job[r].cached
    BY <1>1, <1>2 DEF RunState, RunInv, Phased
  <1> HIDE DEF g
  <1>4. RunInv(g, table) /\ Short(g)
    BY <1>1, <1>3, EmptyHanded DEF RunInv, Recalled
  <1> QED BY <1>1, <1>2, <1>3, <1>4, RunKeeps

\* A run that ends, or is killed.
LEMMA GoneKeeps ==
    ASSUME FtpInv, NEW r \in Run, job' = [job EXCEPT ![r] = Off],
           UNCHANGED <<policy, table, box, started>>,
           faults' \in Nat, faults' <= MaxFault
    PROVE  FtpInv'
  <1>1. /\ table \in Tables /\ Grown(table, table)
        /\ box \in [File -> {"inbox", "sent", "error"}]
        /\ started \in Nat /\ started <= MaxStart
    BY RunAt
  <1>2. Off.at = "off" /\ Off.parsed = <<>> /\ Off.posts = <<>> /\ Off.singles = <<>>
    BY DEF Off
  <1>3. Off \in RunState /\ RunInv(Off, table) /\ Short(Off)
    BY <1>1, <1>2, OffIs, EmptyHanded
  <1> QED BY <1>1, <1>3, RunKeeps

\* A run that goes on to its next file, wherever the one it was at is now.
LEMMA NextFileKeeps ==
    ASSUME FtpInv, NEW r \in Run, job' = [job EXCEPT ![r] = NextFile(r)],
           UNCHANGED <<policy, table, started>>,
           faults' \in Nat, faults' <= MaxFault,
           box' \in [File -> {"inbox", "sent", "error"}],
           \A f \in File : box'[f] = "sent" => box[f] = "sent" \/ AllSafe(f, table)
    PROVE  FtpInv'
  <1> DEFINE g == NextFile(r)
  <1>1. /\ job[r] \in RunState /\ RunInv(job[r], table) /\ table \in Tables /\ Grown(table, table)
        /\ started \in Nat /\ started <= MaxStart
    BY RunAt
  <1>2. /\ g \in RunState /\ g.at = "next" /\ g.parsed = <<>> /\ g.posts = <<>>
        /\ g.singles = <<>> /\ g.cached = job[r].cached
    BY <1>1, EmptySeq DEF NextFile, Off, RunState
  <1> HIDE DEF g
  <1>3. RunInv(g, table) /\ Short(g)
    BY <1>1, <1>2, EmptyHanded DEF RunInv, Recalled
  <1>4. job' = [job EXCEPT ![r] = g]
    BY DEF g
  <1> QED BY <1>1, <1>2, <1>3, <1>4, RunKeeps

LEMMA ArchiveKeeps == ASSUME FtpInv, NEW r \in Run, Archive(r) PROVE FtpInv'
  <1>1. /\ job[r] \in RunState /\ RunInv(job[r], table)
        /\ box \in [File -> {"inbox", "sent", "error"}]
        /\ faults \in Nat /\ faults <= MaxFault
    BY RunAt
  <1>2. /\ job' = [job EXCEPT ![r] = NextFile(r)] /\ job[r].at \in {"sent", "error"}
        /\ UNCHANGED <<policy, table, started, faults>>
        /\ box' = IF box[job[r].file] = "inbox" THEN [box EXCEPT ![job[r].file] = job[r].at]
                  ELSE box
    BY DEF Archive, Become, Move
  <1>3. box' \in [File -> {"inbox", "sent", "error"}]
    BY <1>1, <1>2
  <1>4. job[r].at = "sent" => AllSafe(job[r].file, table)
    <2> SUFFICES ASSUME job[r].at = "sent" PROVE AllSafe(job[r].file, table)
      OBVIOUS
    <2>1. job[r].parsed = <<>> /\ job[r].posts = <<>>
      BY <1>1 DEF RunInv, Phased
    <2>2. \A row : ~Held(job[r], row)
      BY <2>1 DEF Held
    <2> QED BY <1>1, <2>2 DEF RunInv, InHandOrSafe, AllSafe
  <1>5. \A f \in File : box'[f] = "sent" => box[f] = "sent" \/ AllSafe(f, table)
    BY <1>1, <1>2, <1>4
  <1> QED BY <1>1, <1>2, <1>3, <1>5, NextFileKeeps

\* Another client's Observation.
LEMMA ForeignKeeps == ASSUME FtpInv, NEW s \in Stream, NEW t \in Time, ForeignPost(s, t) PROVE FtpInv'
  <1>1. /\ table \in Tables /\ job \in [Run -> RunState] /\ \A x \in Run : RunInv(job[x], table)
        /\ SentCovered /\ NoRow \notin RowValue
    BY FtpAssumption DEF FtpInv, FtpTypes
  <1>2. table' = [table EXCEPT ![s][t] = "other"] /\ UNCHANGED <<policy, box, job, started, faults>>
    BY DEF ForeignPost
  <1>3. table' \in Tables
    BY <1>1, <1>2 DEF Tables, RowValue
  <1>4. Grown(table, table')
    BY <1>1, <1>2 DEF Tables, Grown, RowValue
  <1>5. \A x \in Run : RunInv(job[x], table')
    BY <1>1, <1>3, <1>4, MoreRowsKeep
  <1>6. (\A x \in Run : RunInv(job[x], table))'
    BY <1>2, <1>5 DEF RunInv, InHandOrSafe, Safe
  <1>7. \A f \in File : box'[f] = "sent" => AllSafe(f, table')
    BY <1>1, <1>2, <1>3, <1>4, AllSafeKept, SentIsSafe
  <1>8. SentCovered'
    <2>1. (\A f \in File : box[f] = "sent" => AllSafe(f, table))'
      BY <1>2, <1>7 DEF AllSafe, Safe, HasRow, Within
    <2> QED BY <2>1, SentIsSafe, PTL
  <1>9. FtpTypes'
    BY <1>2, <1>3 DEF FtpInv, FtpTypes, Tables, RunState, Short
  <1> QED BY <1>6, <1>8, <1>9 DEF FtpInv

\* Rows of one Datastream and time: they are there together.
LEMMA SameIsThere ==
    ASSUME NEW tab, NEW a, NEW b, SameObservation(a, b)
    PROVE  HasRow(tab, a) <=> HasRow(tab, b)
  BY DEF SameObservation, HasRow

\* A run that gave a file up.
LEMMA GivenUp ==
    ASSUME NEW f \in RunState, NEW tab, f.at = "error", Recalled(f, tab)
    PROVE  RunInv(f, tab)
  BY DEF RunInv, InHandOrSafe, Phased, Underway

\* Of rows of one Datastream and time the first stays.
LEMMA DeduplicateKeepsOne ==
    ASSUME NEW rows \in Seq(Row), NEW P \in SUBSET DOMAIN rows, NEW i \in P
    PROVE  /\ Deduplicate(rows, P) \in SUBSET DOMAIN rows
           /\ \E p \in Deduplicate(rows, P) : SameObservation(rows[p], rows[i])
  <1> DEFINE S == {j \in P : SameObservation(rows[j], rows[i])}
  <1>1. S \in SUBSET Nat /\ i \in S
    <2>1. P \in SUBSET Nat
      BY LenProperties
    <2> QED BY <2>1 DEF SameObservation
  <1>2. PICK p \in S : \A j \in S : p <= j
    BY <1>1, LeastNatural
  <1>3. ASSUME NEW j \in P, j < p PROVE ~SameObservation(rows[j], rows[p])
    <2> SUFFICES ASSUME SameObservation(rows[j], rows[p]) PROVE FALSE
      OBVIOUS
    <2>1. j \in S
      BY <1>2 DEF SameObservation
    <2>2. p <= j /\ p \in Nat /\ j \in Nat
      BY <1>1, <1>2, <2>1
    <2> QED BY <1>3, <2>2
  <1>4. p \in Deduplicate(rows, P)
    BY <1>2, <1>3 DEF Deduplicate
  <1>5. Deduplicate(rows, P) \in SUBSET DOMAIN rows
    BY DEF Deduplicate
  <1> QED BY <1>2, <1>4, <1>5

LEMMA DownloadKeeps ==
    ASSUME FtpInv, NEW r \in Run, NEW f \in File, Download(r, f) PROVE FtpInv'
  <1> DEFINE file == Content[f]
             places == Deduplicate(file, Parse(file, job[r].cached))
             rows == RowsAt(file, places)
             read == [job[r] EXCEPT !.todo = @ \ {f}, !.file = f]
             g == IF box[f] # "inbox" \/ file = <<>> THEN [read EXCEPT !.at = "error"]
                  ELSE IF rows = <<>> THEN [read EXCEPT !.at = "sent"]
                  ELSE IF policy = "append" THEN [read EXCEPT !.at = "post", !.posts = rows]
                  ELSE [read EXCEPT !.at = "query", !.parsed = rows]
  <1>1. /\ job[r] \in RunState /\ RunInv(job[r], table) /\ table \in Tables /\ Grown(table, table)
        /\ box \in [File -> {"inbox", "sent", "error"}]
        /\ started \in Nat /\ started <= MaxStart /\ faults \in Nat /\ faults <= MaxFault
    BY RunAt
  <1>2. /\ job' = [job EXCEPT ![r] = g] /\ job[r].at = "next"
        /\ UNCHANGED <<policy, table, box, started, faults>>
    BY DEF Download, Become
  <1>3. job[r].parsed = <<>> /\ job[r].posts = <<>> /\ job[r].singles = <<>>
    BY <1>1, <1>2 DEF RunInv, Phased
  <1>4. file \in Seq(Row)
    BY FtpAssumption
  <1>5. /\ Parse(file, job[r].cached) \in SUBSET DOMAIN file
        /\ Deduplicate(file, Parse(file, job[r].cached)) \in SUBSET DOMAIN file
    BY DEF Parse, Deduplicate
  <1>6. /\ rows \in Seq(Row)
        /\ \A p \in places : \E k \in DOMAIN rows : rows[k] = file[p]
    <2> HIDE DEF file
    <2> QED BY <1>4, <1>5, RowsAtIs
  <1>7. ASSUME NEW i \in DOMAIN file
        PROVE  Safe(table, file[i]) \/ \E k \in DOMAIN rows : SameObservation(rows[k], file[i])
    <2>1. CASE i \in Parse(file, job[r].cached)
      <3>1. PICK p \in places : SameObservation(file[p], file[i])
        <4> HIDE DEF file
        <4> QED BY <1>4, <1>5, <2>1, DeduplicateKeepsOne
      <3> HIDE DEF rows, file, places
      <3> QED BY <1>6, <3>1
    <2>2. CASE i \notin Parse(file, job[r].cached)
      <3>1. policy # "update" /\ Covered(job[r].cached, file[i])
        BY <2>2 DEF Parse
      <3>2. file[i] \in Row
        BY <1>4
      <3>3. file[i].stream \in Stream /\ file[i].time \in Nat
        <4> HIDE DEF file
        <4> QED BY <3>2 DEF Row, Time
      <3>4. /\ job[r].cached[file[i].stream] <= Ranges(table)[file[i].stream]
            /\ job[r].cached[file[i].stream] \in 0 .. MaxTime
            /\ Ranges(table)[file[i].stream] \in 0 .. MaxTime
        <4> HIDE DEF file
        <4> QED BY <1>1, <3>3, RangesIs DEF RunInv, Recalled, RunState
      <3>5. Within(table, file[i])
        <4> HIDE DEF file
        <4> QED BY <3>1, <3>3, <3>4, FtpAssumption DEF Covered, Within
      <3> QED BY <3>1, <3>5 DEF Safe
    <2> QED BY <2>1, <2>2
  <1>8. /\ g \in RunState /\ g.file = f /\ g.cached = job[r].cached /\ g.singles = <<>>
        /\ \/ g.at = "error"
           \/ g.at = "sent" /\ g.parsed = <<>> /\ g.posts = <<>> /\ rows = <<>>
           \/ g.at = "post" /\ g.parsed = <<>> /\ g.posts = rows /\ rows # <<>>
           \/ g.at = "query" /\ g.posts = <<>> /\ g.parsed = rows /\ rows # <<>>
    <2> HIDE DEF rows, file
    <2> QED BY <1>1, <1>3, <1>6 DEF RunState
  <1> HIDE DEF g, rows, places
  <1>9. Recalled(g, table)
    BY <1>1, <1>8 DEF RunInv, Recalled
  <1>10. RunInv(g, table)
    <2>1. CASE g.at = "error"
      BY <1>8, <1>9, <2>1, GivenUp
    <2>2. CASE g.at # "error"
      <3>1. InHandOrSafe(g, table)
        <4>1. \A i \in DOMAIN Content[f] : Safe(table, Content[f][i]) \/ Held(g, Content[f][i])
          BY <1>7, <1>8, <2>2 DEF Held
        <4> QED BY <1>8, <4>1 DEF InHandOrSafe
      <3>2. Phased(g) /\ Underway(g, table)
        BY <1>8, <2>2 DEF Phased, Underway
      <3> QED BY <1>9, <3>1, <3>2 DEF RunInv
    <2> QED BY <2>1, <2>2
  <1>11. Short(g)
    BY <1>8, FtpAssumption, EmptySeq DEF Short
  <1> QED BY <1>1, <1>2, <1>8, <1>10, <1>11, RunKeeps

LEMMA QueryWindowKeeps == ASSUME FtpInv, NEW r \in Run, QueryWindow(r) PROVE FtpInv'
  <1> DEFINE parsed  == job[r].parsed
             s       == Head(parsed).stream
             group   == {i \in DOMAIN parsed : parsed[i].stream = s}
             missing == {i \in group : ~Stored(parsed[i])}
             changed == {i \in group \ missing : table[s][parsed[i].time] # parsed[i].value}
             left    == RowsAt(parsed, DOMAIN parsed \ group)
             more    == RowsAt(parsed, missing)
             patches == IF policy = "update" THEN RowsAt(parsed, changed) ELSE <<>>
             g == [job[r] EXCEPT !.parsed = left, !.patches = patches, !.posts = @ \o more,
                     !.at = IF policy = "update" THEN "patch"
                            ELSE IF left = <<>> THEN "post" ELSE "query"]
  <1>1. /\ job[r] \in RunState /\ RunInv(job[r], table) /\ table \in Tables /\ Grown(table, table)
        /\ box \in [File -> {"inbox", "sent", "error"}] /\ Short(job[r])
        /\ started \in Nat /\ started <= MaxStart /\ faults \in Nat /\ faults <= MaxFault
    BY RunAt
  <1>2. /\ job' = [job EXCEPT ![r] = g] /\ job[r].at = "query"
        /\ UNCHANGED <<policy, table, box, started, faults>>
    BY DEF QueryWindow, Become
  <1>3. parsed \in Seq(Row) /\ job[r].posts \in Seq(Row) /\ job[r].singles = <<>>
    BY <1>1, <1>2 DEF RunState, RunInv, Phased
  <1>4. /\ missing \in SUBSET DOMAIN parsed /\ changed \in SUBSET DOMAIN parsed
        /\ DOMAIN parsed \ group \in SUBSET DOMAIN parsed
    OBVIOUS
  <1>5. /\ left \in Seq(Row) /\ more \in Seq(Row) /\ patches \in Seq(Row)
        /\ \A i \in DOMAIN parsed \ group : \E k \in DOMAIN left : left[k] = parsed[i]
        /\ \A i \in missing : \E k \in DOMAIN more : more[k] = parsed[i]
    <2>1. RowsAt(parsed, changed) \in Seq(Row) /\ <<>> \in Seq(Row)
      <3> HIDE DEF parsed, changed, group
      <3> QED BY <1>3, <1>4, RowsAtIs, EmptySeq
    <2>2. /\ left \in Seq(Row)
          /\ \A i \in DOMAIN parsed \ group : \E k \in DOMAIN left : left[k] = parsed[i]
      <3> HIDE DEF parsed, group
      <3> QED BY <1>3, <1>4, RowsAtIs
    <2>3. more \in Seq(Row) /\ \A i \in missing : \E k \in DOMAIN more : more[k] = parsed[i]
      <3> HIDE DEF parsed, missing
      <3> QED BY <1>3, <1>4, RowsAtIs
    <2> HIDE DEF left, more, missing, changed, group, parsed
    <2> QED BY <2>1, <2>2, <2>3
  <1>6. \A i \in DOMAIN parsed :
          \/ HasRow(table, parsed[i])
          \/ \E k \in DOMAIN left : left[k] = parsed[i]
          \/ \E k \in DOMAIN more : more[k] = parsed[i]
    <2>1. \A i \in DOMAIN parsed : i \in DOMAIN parsed \ group \/ i \in missing \/ HasRow(table, parsed[i])
      BY DEF Stored, HasRow
    <2> HIDE DEF left, more, missing, group, parsed
    <2> QED BY <1>5, <2>1
  <1>7. /\ g \in RunState /\ g.file = job[r].file /\ g.cached = job[r].cached
        /\ g.singles = <<>> /\ g.parsed = left /\ g.posts = job[r].posts \o more
        /\ g.at \in {"patch", "post", "query"} /\ (g.at = "query" => left # <<>>)
    <2>1. job[r].posts \o more \in Seq(Row)
      <3> HIDE DEF more
      <3> QED BY <1>3, <1>5, ConcatProperties
    <2> HIDE DEF left, more, patches
    <2> QED BY <1>1, <1>3, <1>5, <2>1 DEF RunState
  <1>8. /\ \A k \in DOMAIN job[r].posts : \E l \in DOMAIN g.posts : g.posts[l] = job[r].posts[k]
        /\ \A k \in DOMAIN more : \E l \in DOMAIN g.posts : g.posts[l] = more[k]
    <2> HIDE DEF more, g
    <2>1. PICK p \in Seq(Row) : p = job[r].posts
      BY <1>3
    <2>0. PICK q \in Seq(Row) : q = p \o more
      BY <1>5, ConcatProperties
    <2>2. /\ Len(p) \in Nat /\ DOMAIN p = 1 .. Len(p) /\ Len(more) \in Nat /\ DOMAIN more = 1 .. Len(more)
          /\ DOMAIN q = 1 .. Len(q) /\ Len(q) = Len(p) + Len(more)
      BY <1>5, <2>0, LenProperties, ConcatProperties
    <2>3. /\ g.posts = q
          /\ \A i \in 1 .. Len(p) + Len(more) : q[i] = IF i <= Len(p) THEN p[i] ELSE more[i - Len(p)]
      <3>1. g.posts = q
        BY <1>7, <2>0, <2>1
      <3>2. more \in Seq(Row)
        BY <1>5
      <3>3. \A i \in 1 .. Len(p) + Len(more) :
              (p \o more)[i] = IF i <= Len(p) THEN p[i] ELSE more[i - Len(p)]
        BY <2>1, <3>2, ConcatProperties
      <3> QED BY <2>0, <3>1, <3>3
    <2>4. ASSUME NEW k \in DOMAIN p PROVE k \in DOMAIN g.posts /\ g.posts[k] = p[k]
      BY <2>2, <2>3
    <2>5. ASSUME NEW k \in DOMAIN more
          PROVE  Len(p) + k \in DOMAIN g.posts /\ g.posts[Len(p) + k] = more[k]
      <3>1. Len(p) + k \in 1 .. Len(p) + Len(more) /\ ~(Len(p) + k <= Len(p)) /\ Len(p) + k - Len(p) = k
        BY <2>2
      <3> QED BY <2>2, <2>3, <3>1
    <2> QED BY <2>1, <2>4, <2>5
  <1> HIDE DEF g, left, more, patches, changed, missing, group, s
  <1>9. RunInv(g, table)
    <2>1. Recalled(g, table)
      BY <1>1, <1>7 DEF RunInv, Recalled
    <2>2. InHandOrSafe(g, table)
      <3>1. job[r].file \in File
        BY <1>1, <1>2 DEF RunInv, InHandOrSafe
      <3>2. ASSUME NEW i \in DOMAIN Content[job[r].file]
            PROVE  Safe(table, Content[job[r].file][i]) \/ Held(g, Content[job[r].file][i])
        <4> DEFINE row == Content[job[r].file][i]
        <4>1. row \in Row
          BY <3>1, FtpAssumption
        <4>2. Safe(table, row) \/ Held(job[r], row)
          BY <1>1, <1>2 DEF RunInv, InHandOrSafe
        <4> HIDE DEF row
        <4>3. CASE Safe(table, row)
          BY <4>3 DEF row
        <4>4. ASSUME NEW k \in DOMAIN parsed, SameObservation(parsed[k], row)
              PROVE  Safe(table, row) \/ Held(g, row)
          <5>1. CASE HasRow(table, parsed[k])
            BY <1>1, <4>1, <4>4, <5>1, SameIsThere, StoredSafe
          <5>2. CASE \E l \in DOMAIN left : left[l] = parsed[k]
            BY <1>7, <4>4, <5>2 DEF Held
          <5>3. CASE \E l \in DOMAIN more : more[l] = parsed[k]
            BY <1>8, <4>4, <5>3 DEF Held
          <5> QED BY <1>6, <5>1, <5>2, <5>3
        <4>5. ASSUME NEW k \in DOMAIN job[r].posts, SameObservation(job[r].posts[k], row)
              PROVE  Held(g, row)
          BY <1>8, <4>5 DEF Held
        <4> QED BY <4>2, <4>4, <4>5 DEF Held, row
      <3> QED BY <1>7, <3>1, <3>2 DEF InHandOrSafe
    <2>3. Phased(g) /\ Underway(g, table)
      BY <1>7 DEF Phased, Underway
    <2> QED BY <2>1, <2>2, <2>3 DEF RunInv
  <1>10. Short(g)
    BY <1>7, FtpAssumption, EmptySeq DEF Short
  <1> QED BY <1>1, <1>2, <1>7, <1>9, <1>10, RunKeeps

LEMMA PatchKeeps == ASSUME FtpInv, NEW r \in Run, Patch(r) PROVE FtpInv'
  <1>1. /\ job[r] \in RunState /\ RunInv(job[r], table) /\ table \in Tables /\ Grown(table, table)
        /\ box \in [File -> {"inbox", "sent", "error"}] /\ Short(job[r])
        /\ started \in Nat /\ started <= MaxStart /\ faults \in Nat /\ faults <= MaxFault
    BY RunAt
  <1>2. job[r].at = "patch" /\ UNCHANGED <<policy, box, started, faults>>
    BY DEF Patch
  <1>3. job[r].singles = <<>> /\ job[r].patches \in Seq(Row)
    BY <1>1, <1>2 DEF RunState, RunInv, Phased
  <1>4. CASE job[r].patches = <<>>
    <2> DEFINE g == [job[r] EXCEPT !.at = "post"]
    <2>1. job' = [job EXCEPT ![r] = g] /\ table' = table
      BY <1>4 DEF Patch, Become
    <2>2. /\ g \in RunState /\ g.at = "post" /\ g.file = job[r].file /\ g.cached = job[r].cached
          /\ g.singles = <<>> /\ g.parsed = job[r].parsed /\ g.posts = job[r].posts
      BY <1>1, <1>3 DEF RunState
    <2> HIDE DEF g
    <2>3. RunInv(g, table)
      BY <1>1, <1>2, <2>2 DEF RunInv, Recalled, InHandOrSafe, Held, Phased, Underway
    <2>4. Short(g)
      BY <2>2, FtpAssumption, EmptySeq DEF Short
    <2> QED BY <1>1, <1>2, <2>1, <2>2, <2>3, <2>4, RunKeeps
  <1>5. CASE job[r].patches # <<>>
    <2> DEFINE g == [job[r] EXCEPT !.patches = Tail(@)]
               new == With(<<Head(job[r].patches)>>)
    <2>1. job' = [job EXCEPT ![r] = g] /\ table' = new
      BY <1>5 DEF Patch, Become
    <2>2. Head(job[r].patches) \in Row /\ Tail(job[r].patches) \in Seq(Row)
      BY <1>3, <1>5, FirstAndRest
    <2>3. new \in Tables /\ Grown(table, new)
      <3>1. <<Head(job[r].patches)>> \in Seq(Row)
        BY <2>2
      <3> QED BY <1>1, <3>1, WithIs
    <2>4. /\ g \in RunState /\ g.at = "patch" /\ g.file = job[r].file /\ g.cached = job[r].cached
          /\ g.singles = <<>> /\ g.parsed = job[r].parsed /\ g.posts = job[r].posts
      BY <1>1, <1>2, <1>3, <2>2 DEF RunState
    <2> HIDE DEF g, new
    <2>5. RunInv(job[r], new)
      BY <1>1, <2>3, MoreRowsKeep
    <2>6. RunInv(g, new)
      BY <1>2, <2>4, <2>5 DEF RunInv, Recalled, InHandOrSafe, Held, Phased, Underway
    <2>7. Short(g)
      BY <2>4, FtpAssumption, EmptySeq DEF Short
    <2> QED BY <1>1, <1>2, <2>1, <2>3, <2>4, <2>6, <2>7, RunKeeps
  <1> QED BY <1>4, <1>5

LEMMA PostFewKeeps == ASSUME FtpInv, NEW r \in Run, PostFew(r) PROVE FtpInv'
  <1> DEFINE g == [job[r] EXCEPT !.singles = job[r].posts]
  <1>1. /\ job[r] \in RunState /\ RunInv(job[r], table) /\ table \in Tables /\ Grown(table, table)
        /\ box \in [File -> {"inbox", "sent", "error"}]
        /\ started \in Nat /\ started <= MaxStart /\ faults \in Nat /\ faults <= MaxFault
    BY RunAt
  <1>2. /\ job' = [job EXCEPT ![r] = g] /\ job[r].at = "post" /\ job[r].posts # <<>>
        /\ ~(Len(job[r].posts) > BulkAbove)
        /\ UNCHANGED <<policy, table, box, started, faults>>
    BY DEF PostFew, Become, InBulk
  <1>3. /\ g \in RunState /\ g.at = "post" /\ g.file = job[r].file /\ g.cached = job[r].cached
        /\ g.singles = job[r].posts /\ g.parsed = job[r].parsed /\ g.posts = job[r].posts
    BY <1>1, <1>2 DEF RunState
  <1> HIDE DEF g
  <1>4. RunInv(g, table)
    <2>1. Underway(g, table)
      BY <1>3 DEF Underway, SameObservation
    <2> QED BY <1>1, <1>2, <1>3, <2>1 DEF RunInv, Recalled, InHandOrSafe, Held, Phased
  <1>5. Short(g)
    <2>1. Len(job[r].posts) \in Nat /\ BulkAbove \in Nat
      <3>1. job[r].posts \in Seq(Row)
        BY <1>1 DEF RunState
      <3> QED BY <3>1, LenProperties, FtpAssumption
    <2> QED BY <1>2, <1>3, <2>1 DEF Short
  <1> QED BY <1>1, <1>2, <1>3, <1>4, <1>5, RunKeeps

LEMMA FilePostedKeeps == ASSUME FtpInv, NEW r \in Run, FilePosted(r) PROVE FtpInv'
  <1> DEFINE g == [job[r] EXCEPT !.at = IF job[r].parsed # <<>> THEN "query" ELSE "sent",
                                 !.bulk = FALSE]
  <1>1. /\ job[r] \in RunState /\ RunInv(job[r], table) /\ table \in Tables /\ Grown(table, table)
        /\ box \in [File -> {"inbox", "sent", "error"}]
        /\ started \in Nat /\ started <= MaxStart /\ faults \in Nat /\ faults <= MaxFault
    BY RunAt
  <1>2. /\ job' = [job EXCEPT ![r] = g] /\ job[r].at = "post" /\ job[r].posts = <<>>
        /\ UNCHANGED <<policy, table, box, started, faults>>
    BY DEF FilePosted, Become
  <1>3. job[r].singles = <<>>
    BY <1>1, <1>2 DEF RunInv, Phased
  <1>4. /\ g \in RunState /\ g.file = job[r].file /\ g.cached = job[r].cached
        /\ g.singles = <<>> /\ g.parsed = job[r].parsed /\ g.posts = <<>>
        /\ \/ g.at = "query" /\ g.parsed # <<>>
           \/ g.at = "sent" /\ g.parsed = <<>>
    BY <1>1, <1>2, <1>3 DEF RunState
  <1> HIDE DEF g
  <1>5. RunInv(g, table)
    BY <1>1, <1>2, <1>4 DEF RunInv, Recalled, InHandOrSafe, Held, Phased, Underway
  <1>6. Short(g)
    BY <1>4, FtpAssumption, EmptySeq DEF Short
  <1> QED BY <1>1, <1>2, <1>4, <1>5, <1>6, RunKeeps

LEMMA CallFailsKeeps == ASSUME FtpInv, NEW r \in Run, CallFails(r) PROVE FtpInv'
  <1> DEFINE g == [job[r] EXCEPT !.at = "error"]
  <1>1. /\ job[r] \in RunState /\ RunInv(job[r], table) /\ table \in Tables /\ Grown(table, table)
        /\ box \in [File -> {"inbox", "sent", "error"}] /\ Short(job[r])
        /\ started \in Nat /\ started <= MaxStart /\ faults \in Nat /\ MaxFault \in Nat
    BY RunAt, FtpAssumption
  <1>2. /\ job' = [job EXCEPT ![r] = g] /\ faults < MaxFault /\ faults' = faults + 1
        /\ UNCHANGED <<policy, box, started>>
        /\ table' = table \/ table' = With(Sending(r))
    BY DEF CallFails, Become
  <1>3. Sending(r) \in Seq(Row)
    <2>1. /\ job[r].patches \in Seq(Row) /\ job[r].singles \in Seq(Row) /\ job[r].posts \in Seq(Row)
          /\ BatchSize \in Nat
      BY <1>1, FtpAssumption DEF RunState
    <2>2. /\ FirstRows(job[r].patches, 1) \in Seq(Row) /\ FirstRows(job[r].singles, 1) \in Seq(Row)
          /\ Batch(r) \in Seq(Row) /\ <<>> \in Seq(Row)
      BY <2>1, FirstRowsAre, EmptySeq, 1 \in Nat DEF Batch
    <2> QED BY <2>2 DEF Sending
  <1>4. table' \in Tables /\ Grown(table, table')
    <2>1. With(Sending(r)) \in Tables /\ Grown(table, With(Sending(r)))
      BY <1>1, <1>3, WithIs
    <2> QED BY <1>1, <1>2, <2>1
  <1>5. g \in RunState /\ g.at = "error" /\ g.cached = job[r].cached /\ g.singles = job[r].singles
    BY <1>1 DEF RunState
  <1> HIDE DEF g
  <1>6. RunInv(job[r], table')
    BY <1>1, <1>4, MoreRowsKeep
  <1>7. RunInv(g, table')
    BY <1>5, <1>6, GivenUp DEF RunInv, Recalled
  <1>8. Short(g)
    BY <1>1, <1>5 DEF Short
  <1>9. faults' \in Nat /\ faults' <= MaxFault
    BY <1>1, <1>2
  <1> QED BY <1>1, <1>2, <1>4, <1>5, <1>7, <1>8, <1>9, RunKeeps

\* The times of rows that are there are not beyond the ranges.
LEMMA RecordedIsRecalled ==
    ASSUME NEW f \in RunState, NEW tab \in Tables, Recalled(f, tab), NEW rows \in Seq(Row),
           \A i \in DOMAIN rows : HasRow(tab, rows[i])
    PROVE  /\ Record(f.cached, rows) \in [Stream -> 0 .. MaxTime]
           /\ \A s \in Stream : Record(f.cached, rows)[s] <= Ranges(tab)[s]
  <1>1. f.cached \in [Stream -> 0 .. MaxTime]
    BY DEF RunState
  <1>2. ASSUME NEW s \in Stream
        PROVE  Record(f.cached, rows)[s] \in 0 .. MaxTime /\ Record(f.cached, rows)[s] <= Ranges(tab)[s]
    <2>1. /\ Record(f.cached, rows)[s] \in 0 .. MaxTime
          /\ \/ Record(f.cached, rows)[s] = f.cached[s]
             \/ \E i \in DOMAIN rows : /\ rows[i].stream = s
                                       /\ Record(f.cached, rows)[s] = rows[i].time
      BY <1>1, RecordIs
    <2>2. ASSUME NEW i \in DOMAIN rows, rows[i].stream = s PROVE rows[i].time <= Ranges(tab)[s]
      <3>1. rows[i] \in Row
        OBVIOUS
      <3>2. Within(tab, rows[i])
        BY <3>1, StoredSafe
      <3> QED BY <2>2, <3>2 DEF Within
    <2> QED BY <2>1, <2>2 DEF Recalled
  <1>3. Record(f.cached, rows) = [s \in Stream |-> Record(f.cached, rows)[s]]
    BY DEF Record
  <1> QED BY <1>2, <1>3

\* The first rows are there: the others are in hand.
LEMMA FirstRowsGone ==
    ASSUME NEW f \in RunState, NEW g \in RunState, NEW tab \in Tables, NEW n \in Nat,
           RunInv(f, tab), f.at = "post", g.at = "post",
           g.file = f.file, g.parsed = f.parsed,
           \/ /\ g.posts = SubSeq(f.posts, n + 1, Len(f.posts))
              /\ \A i \in DOMAIN f.posts : i <= n => HasRow(tab, f.posts[i])
           \/ \A i \in DOMAIN f.posts : HasRow(tab, f.posts[i])
    PROVE  InHandOrSafe(g, tab)
  <1>1. \A i \in DOMAIN f.posts :
          HasRow(tab, f.posts[i]) \/ \E k \in DOMAIN g.posts : g.posts[k] = f.posts[i]
    <2>1. PICK p \in Seq(Row) : p = f.posts
      BY DEF RunState
    <2>2. DOMAIN p = 1 .. Len(p) /\ Len(p) \in Nat
      BY <2>1, LenProperties
    <2>3. \A i \in DOMAIN p : i > n =>
            \E k \in DOMAIN SubSeq(p, n + 1, Len(p)) : SubSeq(p, n + 1, Len(p))[k] = p[i]
      BY <2>1, RowsAfter
    <2>4. \A i \in DOMAIN p : i <= n \/ i > n
      BY <2>2
    <2>5. CASE \A i \in DOMAIN f.posts : HasRow(tab, f.posts[i])
      BY <2>5
    <2>6. CASE /\ g.posts = SubSeq(f.posts, n + 1, Len(f.posts))
               /\ \A i \in DOMAIN f.posts : i <= n => HasRow(tab, f.posts[i])
      <3>1. g.posts = SubSeq(p, n + 1, Len(p)) /\ \A i \in DOMAIN p : i <= n => HasRow(tab, p[i])
        BY <2>1, <2>6
      <3>2. \A i \in DOMAIN p : HasRow(tab, p[i]) \/ \E k \in DOMAIN g.posts : g.posts[k] = p[i]
        BY <2>3, <2>4, <3>1, Zenon
      <3> QED BY <2>1, <3>2
    <2> QED BY <2>5, <2>6
  <1>2. f.file \in File
    BY DEF RunInv, InHandOrSafe
  <1>3. ASSUME NEW i \in DOMAIN Content[f.file]
        PROVE  Safe(tab, Content[f.file][i]) \/ Held(g, Content[f.file][i])
    <2> DEFINE row == Content[f.file][i]
    <2>1. row \in Row
      BY <1>2, FtpAssumption
    <2>2. Safe(tab, row) \/ Held(f, row)
      BY DEF RunInv, InHandOrSafe
    <2> HIDE DEF row
    <2>3. ASSUME NEW k \in DOMAIN f.posts, SameObservation(f.posts[k], row)
          PROVE  Safe(tab, row) \/ Held(g, row)
      <3>1. CASE HasRow(tab, f.posts[k])
        BY <2>1, <2>3, <3>1, SameIsThere, StoredSafe
      <3>2. CASE \E l \in DOMAIN g.posts : g.posts[l] = f.posts[k]
        BY <2>3, <3>2 DEF Held
      <3> QED BY <1>1, <3>1, <3>2
    <2> QED BY <2>2, <2>3 DEF Held, row
  <1> QED BY <1>2, <1>3 DEF InHandOrSafe

LEMMA PostBulkKeeps == ASSUME FtpInv, NEW r \in Run, PostBulk(r) PROVE FtpInv'
  <1>1. /\ job[r] \in RunState /\ RunInv(job[r], table) /\ table \in Tables /\ Grown(table, table)
        /\ box \in [File -> {"inbox", "sent", "error"}] /\ Short(job[r])
        /\ started \in Nat /\ started <= MaxStart /\ faults \in Nat /\ faults <= MaxFault
    BY RunAt
  <1>2. /\ job[r].at = "post" /\ job[r].posts # <<>> /\ job[r].singles = <<>>
        /\ UNCHANGED <<policy, box, started, faults>>
    BY DEF PostBulk
  <1>3. job[r].posts \in Seq(Row) /\ BatchSize \in Nat
    BY <1>1, FtpAssumption DEF RunState
  <1>4. /\ Batch(r) \in Seq(Row) /\ Len(Batch(r)) <= BatchSize
        /\ \A i \in DOMAIN Batch(r) : i \in DOMAIN job[r].posts /\ Batch(r)[i] = job[r].posts[i]
        /\ \A i \in DOMAIN job[r].posts : i <= BatchSize => i \in DOMAIN Batch(r)
    BY <1>3, FirstRowsAre DEF Batch
  <1>5. CASE \E row \in ToSet(Batch(r)) : Stored(row)
    <2> DEFINE g == AfterDuplicate(r)
    <2>1. job' = [job EXCEPT ![r] = g] /\ table' = table
      BY <1>5 DEF PostBulk, Become
    <2>2. /\ g \in RunState /\ g.at = "post" /\ g.file = job[r].file /\ g.cached = job[r].cached
          /\ g.singles = Batch(r) /\ g.parsed = job[r].parsed /\ g.posts = job[r].posts
      BY <1>1, <1>2, <1>4 DEF RunState, AfterDuplicate
    <2>3. g.bulk = TRUE
      BY <1>1 DEF RunState, AfterDuplicate
    <2> HIDE DEF g
    <2>4. Underway(g, table)
      BY <1>4, <2>2, <2>3 DEF Underway, SameObservation
    <2>5. RunInv(g, table)
      BY <1>1, <1>2, <2>2, <2>4 DEF RunInv, Recalled, InHandOrSafe, Held, Phased
    <2>6. Short(g)
      BY <1>4, <2>2 DEF Short
    <2> QED BY <1>1, <1>2, <2>1, <2>2, <2>5, <2>6, RunKeeps
  <1>6. CASE ~\E row \in ToSet(Batch(r)) : Stored(row)
    <2> DEFINE new == With(Batch(r))
               g == [job[r] EXCEPT !.bulk = TRUE, !.posts = SubSeq(@, BatchSize + 1, Len(@)),
                                   !.cached = Record(@, Batch(r))]
    <2>1. job' = [job EXCEPT ![r] = g] /\ table' = new
      BY <1>6 DEF PostBulk, Become
    <2>2. /\ new \in Tables /\ Grown(table, new)
          /\ \A i \in DOMAIN Batch(r) : HasRow(new, Batch(r)[i])
      BY <1>1, <1>4, WithIs
    <2> HIDE DEF new
    <2>3. RunInv(job[r], new)
      BY <1>1, <2>2, MoreRowsKeep
    <2>4. /\ Record(job[r].cached, Batch(r)) \in [Stream -> 0 .. MaxTime]
          /\ \A s \in Stream : Record(job[r].cached, Batch(r))[s] <= Ranges(new)[s]
      <3>1. Recalled(job[r], new)
        BY <2>3 DEF RunInv
      <3> QED BY <1>1, <1>4, <2>2, <3>1, RecordedIsRecalled
    <2>5. SubSeq(job[r].posts, BatchSize + 1, Len(job[r].posts)) \in Seq(Row)
      BY <1>3, RowsAfter
    <2>6. /\ g \in RunState /\ g.at = "post" /\ g.file = job[r].file
          /\ g.cached = Record(job[r].cached, Batch(r)) /\ g.singles = <<>>
          /\ g.parsed = job[r].parsed /\ g.posts = SubSeq(job[r].posts, BatchSize + 1, Len(job[r].posts))
      BY <1>1, <1>2, <2>4, <2>5 DEF RunState
    <2> HIDE DEF g
    <2>7. InHandOrSafe(g, new)
      <3>1. \A i \in DOMAIN job[r].posts : i <= BatchSize => HasRow(new, job[r].posts[i])
        BY <1>4, <2>2
      <3> QED BY <1>1, <1>2, <1>3, <2>2, <2>3, <2>6, <3>1, FirstRowsGone
    <2>8. RunInv(g, new)
      BY <2>4, <2>6, <2>7 DEF RunInv, Recalled, Phased, Underway
    <2>9. Short(g)
      BY <2>6, FtpAssumption, EmptySeq DEF Short
    <2> QED BY <1>1, <1>2, <2>1, <2>2, <2>6, <2>8, <2>9, RunKeeps
  <1> QED BY <1>5, <1>6

LEMMA PostSingleKeeps == ASSUME FtpInv, NEW r \in Run, PostSingle(r) PROVE FtpInv'
  <1> DEFINE f == job[r]
             row == Head(f.singles)
             last == Len(f.singles) = 1
             dropped == SubSeq(f.posts, BatchSize + 1, Len(f.posts))
             g == [f EXCEPT
                    !.singles = Tail(@),
                    !.posts = IF ~last THEN @
                              ELSE IF f.bulk THEN SubSeq(@, BatchSize + 1, Len(@)) ELSE <<>>,
                    !.cached = IF ~last THEN @
                               ELSE IF f.bulk THEN Ranges(table') ELSE Record(@, f.posts)]
  <1>1. /\ f \in RunState /\ RunInv(f, table) /\ table \in Tables /\ Grown(table, table)
        /\ box \in [File -> {"inbox", "sent", "error"}] /\ Short(f)
        /\ started \in Nat /\ started <= MaxStart /\ faults \in Nat /\ faults <= MaxFault
    BY RunAt
  <1>2. /\ job' = [job EXCEPT ![r] = g] /\ f.at = "post" /\ f.singles # <<>>
        /\ table' = IF Stored(row) THEN table ELSE With(<<row>>)
        /\ UNCHANGED <<policy, box, started, faults>>
    BY DEF PostSingle, Become
  <1>3. /\ f.singles \in Seq(Row) /\ f.posts \in Seq(Row) /\ f.bulk \in BOOLEAN
        /\ BatchSize \in Nat /\ BulkAbove \in Nat
    BY <1>1, FtpAssumption DEF RunState
  <1>4. /\ row \in Row /\ Tail(f.singles) \in Seq(Row)
        /\ Len(f.singles) \in Nat /\ Len(Tail(f.singles)) = Len(f.singles) - 1
        /\ \A k \in DOMAIN f.singles : f.singles[k] = row \/
             \E l \in DOMAIN Tail(f.singles) : Tail(f.singles)[l] = f.singles[k]
        /\ last => Tail(f.singles) = <<>>
    BY <1>2, <1>3, FirstAndRest
  <1> HIDE DEF row
  <1>5. table' \in Tables /\ Grown(table, table') /\ HasRow(table', row)
    <2>1. CASE Stored(row)
      BY <1>1, <1>2, <2>1 DEF Stored, HasRow
    <2>2. CASE ~Stored(row)
      <3>1. <<row>> \in Seq(Row) /\ 1 \in DOMAIN <<row>> /\ <<row>>[1] = row
        <4> HIDE DEF f
        <4> QED BY <1>4
      <3>2. /\ With(<<row>>) \in Tables /\ Grown(table, With(<<row>>))
            /\ HasRow(With(<<row>>), <<row>>[1])
        <4> HIDE DEF f
        <4> QED BY <1>1, <3>1, WithIs
      <3>3. table' = With(<<row>>)
        BY <1>2, <2>2
      <3> QED BY <3>1, <3>2, <3>3
    <2> QED BY <2>1, <2>2
  <1>6. RunInv(f, table')
    <2> HIDE DEF f
    <2> QED BY <1>1, <1>5, MoreRowsKeep
  <1>7. \A i \in DOMAIN f.posts : (f.bulk => i <= BatchSize) =>
          \/ HasRow(table', f.posts[i])
          \/ \E l \in DOMAIN Tail(f.singles) : SameObservation(Tail(f.singles)[l], f.posts[i])
    <2> SUFFICES ASSUME NEW i \in DOMAIN f.posts, f.bulk => i <= BatchSize,
                        NEW k \in DOMAIN f.singles, SameObservation(f.singles[k], f.posts[i])
                 PROVE  \/ HasRow(table', f.posts[i])
                        \/ \E l \in DOMAIN Tail(f.singles) :
                             SameObservation(Tail(f.singles)[l], f.posts[i])
      <3> HIDE DEF f
      <3> QED BY <1>2, <1>6 DEF RunInv, Underway
    <2>1. CASE f.singles[k] = row
      BY <1>5, <2>1, SameIsThere
    <2>2. CASE f.singles[k] # row
      BY <1>4, <2>2
    <2> QED BY <2>1, <2>2
  <1>8. CASE ~last
    <2>1. /\ g \in RunState /\ g.at = "post" /\ g.file = f.file /\ g.cached = f.cached
          /\ g.singles = Tail(f.singles) /\ g.parsed = f.parsed /\ g.posts = f.posts
          /\ g.bulk = f.bulk
      <3> HIDE DEF f
      <3> QED BY <1>1, <1>2, <1>4, <1>8 DEF RunState
    <2> HIDE DEF g, f
    <2>2. f.posts # <<>>
      BY <1>2, <1>6 DEF RunInv, Phased
    <2>3. RunInv(g, table')
      <3>1. Underway(g, table')
        BY <1>7, <2>1 DEF Underway
      <3> QED BY <1>2, <1>6, <2>1, <2>2, <3>1 DEF RunInv, Recalled, InHandOrSafe, Held, Phased
    <2>4. Short(g)
      BY <1>1, <1>3, <1>4, <2>1 DEF Short
    <2> QED BY <1>1, <1>2, <1>5, <2>1, <2>3, <2>4, RunKeeps
  <1>9. CASE last
    <2>1. Tail(f.singles) = <<>>
      BY <1>4, <1>9
    <2>2. \A i \in DOMAIN f.posts : (f.bulk => i <= BatchSize) => HasRow(table', f.posts[i])
      BY <1>7, <2>1
    <2>3. /\ dropped \in Seq(Row) /\ <<>> \in Seq(Row)
      BY <1>3, RowsAfter, EmptySeq
    <2>4. \A s \in Stream : Ranges(table')[s] \in 0 .. MaxTime
      BY <1>5, RangesIs
    <2>5. Ranges(table') \in [Stream -> 0 .. MaxTime]
      BY <2>4 DEF Ranges
    <2>6. ~f.bulk => /\ Record(f.cached, f.posts) \in [Stream -> 0 .. MaxTime]
                     /\ \A s \in Stream : Record(f.cached, f.posts)[s] <= Ranges(table')[s]
      <3>1. Recalled(f, table')
        BY <1>6 DEF RunInv
      <3> HIDE DEF f
      <3> QED BY <1>1, <1>3, <1>5, <2>2, <3>1, RecordedIsRecalled
    <2>7. /\ g \in RunState /\ g.at = "post" /\ g.file = f.file /\ g.singles = <<>>
          /\ g.parsed = f.parsed
          /\ \/ f.bulk /\ g.posts = dropped /\ g.cached = Ranges(table')
             \/ ~f.bulk /\ g.posts = <<>> /\ g.cached = Record(f.cached, f.posts)
      <3> HIDE DEF f
      <3> QED BY <1>1, <1>2, <1>3, <1>9, <2>1, <2>3, <2>5, <2>6 DEF RunState
    <2> HIDE DEF g, f
    <2>8. Recalled(g, table')
      <3>1. \A s \in Stream : Ranges(table')[s] <= Ranges(table')[s]
        BY <2>4
      <3> QED BY <2>6, <2>7, <3>1 DEF Recalled
    <2>9. InHandOrSafe(g, table')
      BY <1>1, <1>2, <1>3, <1>5, <1>6, <2>2, <2>7, FirstRowsGone
    <2>10. RunInv(g, table')
      BY <2>7, <2>8, <2>9 DEF RunInv, Phased, Underway
    <2>11. Short(g)
      BY <2>7, FtpAssumption, EmptySeq DEF Short
    <2> QED BY <1>1, <1>2, <1>5, <2>7, <2>10, <2>11, RunKeeps
  <1> QED BY <1>8, <1>9

-----------------------------------------------------------------------------
(* FTP import: theorems.                                                  *)

LEMMA FtpGoesOn == FtpInv /\ [FtpNext]_ftpVars => FtpInv'
  <1> SUFFICES ASSUME FtpInv, [FtpNext]_ftpVars PROVE FtpInv'
    OBVIOUS
  <1>1. CASE UNCHANGED ftpVars
    BY <1>1 DEF ftpVars, FtpInv, FtpTypes, RunInv, InHandOrSafe, Safe, SentCovered, Stored
  <1>2. ASSUME NEW r \in Run, RunStep(r) PROVE FtpInv'
    <2>1. CASE ListFiles(r)
      BY <2>1, ListFilesKeeps
    <2>2. CASE EndRun(r)
      <3>1. /\ job' = [job EXCEPT ![r] = Off] /\ UNCHANGED <<policy, table, box, started, faults>>
        BY <2>2 DEF EndRun, Become
      <3>2. faults' \in Nat /\ faults' <= MaxFault
        BY <3>1, RunAt
      <3> QED BY <3>1, <3>2, GoneKeeps
    <2>3. CASE QueryWindow(r)
      BY <2>3, QueryWindowKeeps
    <2>4. CASE Patch(r)
      BY <2>4, PatchKeeps
    <2>5. CASE PostBulk(r)
      BY <2>5, PostBulkKeeps
    <2>6. CASE PostFew(r)
      BY <2>6, PostFewKeeps
    <2>7. CASE PostSingle(r)
      BY <2>7, PostSingleKeeps
    <2>8. CASE FilePosted(r)
      BY <2>8, FilePostedKeeps
    <2>9. CASE Archive(r)
      BY <2>9, ArchiveKeeps
    <2>10. CASE \E f \in File : Download(r, f)
      BY <2>10, DownloadKeeps
    <2> QED BY <1>2, <2>1, <2>2, <2>3, <2>4, <2>5, <2>6, <2>7, <2>8, <2>9, <2>10 DEF RunStep
  <1>3. ASSUME NEW r \in Run, MoveFails(r) \/ KillRun(r) PROVE FtpInv'
    <2>1. /\ faults < MaxFault /\ faults' = faults + 1 /\ UNCHANGED <<policy, table, box, started>>
          /\ job' = [job EXCEPT ![r] = NextFile(r)] \/ job' = [job EXCEPT ![r] = Off]
      BY <1>3 DEF MoveFails, KillRun, Become
    <2>2. /\ faults' \in Nat /\ faults' <= MaxFault
          /\ box' \in [File -> {"inbox", "sent", "error"}]
          /\ \A f \in File : box'[f] = "sent" => box[f] = "sent" \/ AllSafe(f, table)
      <3>1. faults \in Nat /\ MaxFault \in Nat /\ box \in [File -> {"inbox", "sent", "error"}]
        BY RunAt, FtpAssumption
      <3> QED BY <2>1, <3>1
    <2> QED BY <2>1, <2>2, NextFileKeeps, GoneKeeps
  <1> QED BY <1>1, <1>2, <1>3, StartKeeps, CallFailsKeeps, ForeignKeeps DEF FtpNext

\* A run has in hand what is not safe yet of the file it is at, and remembers no range
\* that is beyond the table's.
THEOREM FtpInvariance == FtpSpec => []FtpInv
  BY FtpBegins, FtpGoesOn, PTL DEF FtpSpec

\* load_datastreams, record_observation_times and post_observations_individually keep a
\* run's cached ranges ranges, and its row by row posts as few as a batch.
THEOREM FtpTypesHold == FtpSpec => []FtpTypeOK
  <1>1. FtpInv => FtpTypeOK
    <2> SUFFICES ASSUME FtpInv PROVE FtpTypeOK
      OBVIOUS
    <2>1. ASSUME NEW r \in Run
          PROVE  /\ job[r].at \in {"off", "list", "next", "query", "patch", "post", "sent", "error"}
                 /\ job[r].todo \subseteq File /\ job[r].file \in File \union {NoFile}
                 /\ job[r].cached \in [Stream -> 0 .. MaxTime]
                 /\ Len(job[r].singles) <= BatchSize \/ Len(job[r].singles) <= BulkAbove
      BY RunAt DEF RunState, Short
    <2> QED BY <2>1 DEF FtpInv, FtpTypes, FtpTypeOK, Tables
  <1> QED BY <1>1, FtpInvariance, PTL

\* archive_ftp_file moves a file to the sent directory only when every row of it is stored
\* (update), or lies not after the range of its Datastream (append, backfill): runs that
\* overlap, that are killed or whose calls fail, and the posts of others, do not make it lose
\* a later row.  A row in a gap of the range may be missing, see GapsFilled.
THEOREM ArchivedIsCovered == FtpSpec => []SentCovered
  BY FtpInvariance, PTL DEF FtpInv
=============================================================================
