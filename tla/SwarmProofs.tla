---------------------------- MODULE SwarmProofs -----------------------------
(***************************************************************************)
(* Proofs about Swarm, for every buffer size, every set of callers, peers  *)
(* and addresses and every bound: the types, that no receiver of the event *)
(* channel ever lags, that the channel implements Multicast, that tree_map *)
(* follows the routing table and that a query gets its results.            *)
(***************************************************************************)
EXTENDS Swarm, FiniteSetTheorems, TLAPS

-----------------------------------------------------------------------------
(* The inductive invariant, in five parts. *)

(* The event channel: a receiver has at most UpperBound events to read,     *)
(* which is what the channel holds or less.                                 *)
ChannelInv ==
  /\ subs \subseteq Receivers
  /\ unread \in [Receivers -> Seq(Event)]
  /\ \A r \in Receivers : IF r \in subs THEN Len(unread[r]) <= UpperBound
                          ELSE unread[r] = <<>>
  /\ lagged = {}
  /\ kadTask = "running"

(* The loop: what select! found when it was entered still holds, because    *)
(* only the loop publishes.                                                 *)
PollInv == polling \in BOOLEAN /\ (polling => Room)

(* kad: a query that runs has steps left.                                   *)
KadInv ==
  /\ pending \in Seq(Event)
  /\ table \in [Peers -> SUBSET Addrs]
  /\ mirror \in [Peers -> SUBSET Addrs]
  /\ progress \in [Ids -> 0 .. MaxSteps]
  /\ open \subseteq Ids
  /\ \A i \in open : progress[i] < MaxSteps
  /\ conns \subseteq Peers \X Addrs

(* Commands: one with a callback is in the channel of its operation, once,  *)
(* and its caller waits for it.                                             *)
Silent == {"AutonatTell", "SetMode"}
Entry  == [op : Ops, from : Callers]
CommandType ==
  /\ chan \in [Channels -> Seq(Entry)]
  /\ call \in [Callers -> Call]
  /\ \A c \in Callers : call[c].phase # "panicked"
Queued(h, i) ==
  /\ ChannelOf(chan[h][i].op) = h
  /\ chan[h][i].op \notin Silent =>
       /\ call[chan[h][i].from].phase = "waiting"
       /\ call[chan[h][i].from].op = chan[h][i].op
       /\ \A j \in DOMAIN chan[h] : chan[h][i] = chan[h][j] => i = j
CommandInv ==
  CommandType /\ \A h \in Channels : \A i \in DOMAIN chan[h] : Queued(h, i)

(* Every query was asked for by a call: those that are made and those that  *)
(* callers are about to make are not more than the calls so far.            *)
Asking == {c \in Callers : /\ call[c].op \in {"PeerLookup", "BootStrap"}
                           /\ call[c].phase \in {"sending", "waiting"}}
CountInv ==
  /\ queries \in Nat
  /\ inputs \in 0 .. MaxInputs
  /\ IsFiniteSet(Asking)
  /\ queries + Cardinality(Asking) <= inputs

Inv == ChannelInv /\ PollInv /\ KadInv /\ CommandInv /\ CountInv

-----------------------------------------------------------------------------
(* Facts about the constants and the events. *)

\* The loop's bound is a natural number below the capacity of the channel.
LEMMA BoundFits ==
  UpperBound \in Nat /\ UpperBound <= BufferSize /\ UpperBound <= Capacity
  BY BufferAssumption DEF UpperBound

\* The channels.
LEMMA ChannelNames == Channels = {"swarm", "kad", "autonat", "mdns"}
  BY DEF Channels, Fields

\* Every operation has one.
LEMMA ChannelOfType ==
  ASSUME NEW op \in Ops
  PROVE  ChannelOf(op) \in Channels
  BY ChannelNames DEF Ops, SwarmOps, KadOps, AutonatOps, MdnsOps, ChannelOf

\* What the events that are published are.
LEMMA EventTypes ==
  /\ Other \in Event
  /\ [kind |-> "ModeChanged"] \in Event
  /\ \A p \in Peers, as \in SUBSET Addrs : RoutingUpdated(p, as) \in Event
  /\ \A i \in Ids, n \in 1 .. MaxSteps, last \in BOOLEAN :
       [kind |-> "QueryProgressed", id |-> i, step |-> n, last |-> last] \in Event
  BY DEF Event, Other, RoutingUpdated

\* What a reader finds in them.
LEMMA EventFields ==
  ASSUME NEW e \in Event
  PROVE  /\ e.kind = "QueryProgressed" => e.step \in 1 .. MaxSteps /\ e.id \in Ids
         /\ e.kind = "RoutingUpdated" => e.peer \in Peers /\ e.addrs \subseteq Addrs
  BY DEF Event

\* What an idle caller is.
LEMMA IdleType == Idle \in Call
  BY DEF Idle, Call, Ops, SwarmOps

\* add_address keeps the types.
LEMMA AddedType ==
  ASSUME table \in [Peers -> SUBSET Addrs], pending \in Seq(Event),
         NEW p \in Peers, NEW a \in Addrs, NEW fits \in BOOLEAN
  PROVE  /\ Added(p, a, fits) \in [Peers -> SUBSET Addrs]
         /\ pending \o AddedEvents(p, a, fits) \in Seq(Event)
<1>1. Added(p, a, fits) \in [Peers -> SUBSET Addrs]
  BY DEF Added
<1>2. RoutingUpdated(p, Added(p, a, fits)[p]) \in Event
  BY <1>1, EventTypes
<1>3. AddedEvents(p, a, fits) \in Seq(Event)
  BY <1>2 DEF AddedEvents
<1>4. QED
  BY <1>1, <1>3
-----------------------------------------------------------------------------
(* The event channel. *)

\* What a step may do to the event channel.
ChannelStep ==
  \/ UNCHANGED <<subs, unread, lagged, kadTask>> /\ polling' \in {polling, Room}
  \/ /\ Room /\ (\E e \in Event : Publish(e)) /\ UNCHANGED <<subs, kadTask>>
     /\ polling' = Room'
  \/ \E c \in Callers : Subscribe(c) /\ UNCHANGED <<kadTask, polling>>
  \/ \E c \in Callers : Unsubscribe(c) /\ UNCHANGED <<kadTask, polling>>
  \/ \E r \in Receivers :
       unread[r] # <<>> /\ Received(r) /\ UNCHANGED <<kadTask, polling>>

LEMMA StepOfChannel ==
  ASSUME Inv, [Next]_vars
  PROVE  ChannelStep
<1>1. ASSUME NEW c \in Callers, NEW op, Start(c, op)
      PROVE  ChannelStep
  BY <1>1 DEF Start, ChannelStep
<1>2. ASSUME NEW c \in Callers, Send(c)
      PROVE  ChannelStep
  BY <1>2 DEF Send, ChannelStep
<1>3. ASSUME NEW c \in Callers, Listen(c)
      PROVE  ChannelStep
  <2>1. c \notin lagged /\ c \in Receivers
    BY DEF Inv, ChannelInv, Receivers
  <2>2. \/ Unsubscribe(c) /\ UNCHANGED <<kadTask, polling>>
        \/ unread[c] # <<>> /\ Received(c) /\ UNCHANGED <<kadTask, polling>>
    BY <1>3, <2>1 DEF Listen
  <2>3. QED
    BY <2>1, <2>2 DEF ChannelStep
<1>4. ASSUME NEW c \in Callers, SetModeTimeout(c)
      PROVE  ChannelStep
  BY <1>4 DEF SetModeTimeout, ChannelStep
<1>5. ASSUME NEW c \in Callers, Command(c)
      PROVE  ChannelStep
  BY <1>5 DEF Command, SwarmOpExec, MdnsOpExec, AutonatOpExec, PeerLookup,
     BootStrap, InsertNode, SetMode, Take, ChannelStep
<1>6. CASE Mirror
  <2>1. KadTask \notin lagged /\ KadTask \in Receivers
    BY DEF Inv, ChannelInv, Receivers
  <2>2. unread[KadTask] # <<>> /\ Received(KadTask) /\ UNCHANGED <<kadTask, polling>>
    BY <1>6, <2>1 DEF Mirror
  <2>3. QED
    BY <2>1, <2>2 DEF ChannelStep
<1>7. ASSUME NEW e \in Event, PollSwarm(e)
      PROVE  ChannelStep
  BY <1>7 DEF PollSwarm, ChannelStep, Inv, PollInv
<1>8. CASE KadEvent
  <2>1. Head(pending) \in Event
    BY <1>8 DEF KadEvent, Inv, KadInv
  <2>2. QED
    BY <1>7, <1>8, <2>1 DEF KadEvent
<1>9. CASE Network
  <2>1. PollSwarm(Other)
    BY <1>9 DEF Network, OtherSwarmEvent, ConnectionEstablished,
       ConnectionClosed, MdnsEvent
  <2>2. QED
    BY <1>7, <2>1, EventTypes
<1>10. ASSUME NEW i \in Ids, NEW last \in BOOLEAN, KadProgress(i, last)
       PROVE  ChannelStep
  BY <1>10 DEF KadProgress, ChannelStep
<1>11. CASE Timer \/ UNCHANGED vars
  BY <1>11 DEF vars, Timer, ChannelStep
<1>12. QED
  BY <1>1, <1>2, <1>3, <1>4, <1>5, <1>6, <1>8, <1>9, <1>10, <1>11 DEF Next

\* Publishing with room overwrites nothing.
LEMMA PublishAppends ==
  ASSUME ChannelInv, Room, NEW e \in Event, Publish(e)
  PROVE  /\ unread' = [r \in Receivers |->
                         IF r \in subs THEN Append(unread[r], e) ELSE unread[r]]
         /\ lagged' = {}
<1>1. ASSUME NEW r \in subs
      PROVE  r \in Receivers /\ Len(unread[r]) < Capacity
  BY BoundFits, BufferAssumption DEF ChannelInv, Room
<1>2. \A r \in Receivers : r \in subs => Push(unread[r], e) = Append(unread[r], e)
  BY <1>1 DEF Push
<1>3. {r \in subs : Len(unread[r]) >= Capacity} = {}
  BY <1>1, BufferAssumption DEF ChannelInv
<1>4. QED
  BY <1>2, <1>3 DEF Publish, ChannelInv

\* The channel stays within its bound.
LEMMA ChannelKept ==
  ASSUME ChannelInv, ChannelStep
  PROVE  ChannelInv'
<1>1. CASE UNCHANGED <<subs, unread, lagged, kadTask>>
  BY <1>1 DEF ChannelInv
<1>2. CASE /\ Room /\ UNCHANGED <<subs, kadTask>>
           /\ \E e \in Event : Publish(e)
  <2>1. PICK e \in Event : Publish(e)
    BY <1>2
  <2>2. /\ unread' = [r \in Receivers |->
                        IF r \in subs THEN Append(unread[r], e) ELSE unread[r]]
        /\ lagged' = {}
    BY <1>2, <2>1, PublishAppends
  <2>3. unread' \in [Receivers -> Seq(Event)]
    BY <2>2 DEF ChannelInv
  <2>4. ASSUME NEW r \in Receivers
        PROVE  IF r \in subs' THEN Len(unread'[r]) <= UpperBound
               ELSE unread'[r] = <<>>
    <3>1. CASE r \in subs
      <4>1. Len(unread[r]) < UpperBound /\ Len(unread[r]) \in Nat
        BY <1>2, <3>1 DEF Room, ChannelInv
      <4>2. Len(unread'[r]) = Len(unread[r]) + 1
        BY <2>2, <3>1 DEF ChannelInv
      <4>3. QED
        BY <1>2, <3>1, <4>1, <4>2, BoundFits
    <3>2. CASE r \notin subs
      BY <1>2, <2>2, <3>2 DEF ChannelInv
    <3>3. QED
      BY <3>1, <3>2
  <2>5. QED
    BY <1>2, <2>2, <2>3, <2>4 DEF ChannelInv
<1>3. ASSUME NEW c \in Callers, Subscribe(c), UNCHANGED kadTask
      PROVE  ChannelInv'
  <2>1. c \in Receivers
    BY DEF Receivers
  <2>2. QED
    BY <1>3, <2>1, BoundFits DEF ChannelInv, Subscribe
<1>4. ASSUME NEW c \in Callers, Unsubscribe(c), UNCHANGED kadTask
      PROVE  ChannelInv'
  <2>1. c \in Receivers
    BY DEF Receivers
  <2>2. unread' \in [Receivers -> Seq(Event)]
    BY <1>4, <2>1 DEF ChannelInv, Unsubscribe
  <2>3. QED
    BY <1>4, <2>1, <2>2 DEF ChannelInv, Unsubscribe
<1>5. ASSUME NEW r \in Receivers, unread[r] # <<>>, Received(r),
             UNCHANGED kadTask
      PROVE  ChannelInv'
  <2>1. unread' \in [Receivers -> Seq(Event)]
    BY <1>5 DEF ChannelInv, Received
  <2>2. r \in subs /\ Len(unread'[r]) <= UpperBound
    <3>1. r \in subs /\ Len(unread[r]) <= UpperBound /\ unread[r] \in Seq(Event)
      BY <1>5 DEF ChannelInv
    <3>2. unread'[r] = Tail(unread[r])
      BY <1>5 DEF ChannelInv, Received
    <3>3. QED
      BY <1>5, <3>1, <3>2, BoundFits
  <2>3. QED
    BY <1>5, <2>1, <2>2 DEF ChannelInv, Received
<1>6. QED
  BY <1>1, <1>2, <1>3, <1>4, <1>5 DEF ChannelStep

\* Readers only make room.
LEMMA PollKept ==
  ASSUME ChannelInv, PollInv, ChannelStep
  PROVE  PollInv'
<1>1. ASSUME polling, NEW c \in Callers, Subscribe(c)
      PROVE  Room'
  <2>1. Room /\ c \in Receivers
    BY <1>1 DEF PollInv, Receivers
  <2>2. Len(unread[c]) < UpperBound
    BY <2>1, BoundFits DEF Room, ChannelInv
  <2>3. QED
    BY <1>1, <2>1, <2>2 DEF Room, Subscribe, UpperBound
<1>2. ASSUME polling, NEW c \in Callers, Unsubscribe(c)
      PROVE  Room'
  <2>1. Room
    BY <1>2 DEF PollInv
  <2>2. \A r \in subs' : r \in subs /\ unread'[r] = unread[r]
    BY <1>2 DEF Unsubscribe, ChannelInv
  <2>3. QED
    BY <2>1, <2>2 DEF Room, UpperBound
<1>3. ASSUME polling, NEW r \in Receivers, unread[r] # <<>>, Received(r)
      PROVE  Room'
  <2>1. Room
    BY <1>3 DEF PollInv
  <2>2. /\ unread[r] \in Seq(Event) /\ r \in subs /\ subs' = subs
        /\ unread' = [unread EXCEPT ![r] = Tail(@)]
    BY <1>3 DEF ChannelInv, Received
  <2>3. Len(unread'[r]) < UpperBound
    <3>1. Len(unread[r]) < UpperBound /\ unread'[r] = Tail(unread[r])
      BY <2>1, <2>2 DEF Room, ChannelInv
    <3>2. Len(Tail(unread[r])) < Len(unread[r]) /\ Len(Tail(unread[r])) \in Nat
      BY <1>3, <2>2
    <3>3. QED
      BY <2>2, <3>1, <3>2, BoundFits
  <2>4. \A x \in subs : x # r => unread'[x] = unread[x]
    BY <2>2 DEF ChannelInv
  <2>5. QED
    BY <2>1, <2>2, <2>3, <2>4 DEF Room, UpperBound
<1>4. CASE UNCHANGED <<subs, unread>> /\ polling' \in {polling, Room}
  BY <1>4 DEF PollInv, Room, UpperBound
<1>5. CASE polling' = Room'
  BY <1>5 DEF PollInv, Room
<1>6. QED
  BY <1>1, <1>2, <1>3, <1>4, <1>5 DEF ChannelStep, PollInv
-----------------------------------------------------------------------------
(* Commands. *)

\* An entry of a channel is a command of a caller.
LEMMA EntryType ==
  ASSUME CommandType, NEW h \in Channels, NEW i \in DOMAIN chan[h]
  PROVE  /\ chan[h][i] \in Entry
         /\ chan[h][i].op \in Ops /\ chan[h][i].from \in Callers
<1>1. chan[h] \in Seq(Entry)
  BY DEF CommandType
<1>2. chan[h][i] \in Entry
  BY <1>1
<1>3. QED
  BY <1>2 DEF Entry

\* One queue of several gets longer, or loses its head.
LEMMA QueueType ==
  ASSUME NEW I, NEW S, NEW f \in [I -> Seq(S)], NEW i \in I
  PROVE  /\ \A e \in S : [f EXCEPT ![i] = Append(@, e)] \in [I -> Seq(S)]
         /\ f[i] # <<>> => [f EXCEPT ![i] = Tail(@)] \in [I -> Seq(S)]
  OBVIOUS

\* A step that leaves the channels and the calls alone.
LEMMA CommandSame ==
  ASSUME CommandInv, UNCHANGED <<chan, call>>
  PROVE  CommandInv'
  BY DEF CommandInv, CommandType, Queued

\* A caller that does not wait for an answer changes its call.
LEMMA CallChanged ==
  ASSUME CommandInv, NEW c \in Callers, call[c].phase # "waiting",
         NEW r \in Call, r.phase # "panicked",
         call' = [call EXCEPT ![c] = r], UNCHANGED chan
  PROVE  CommandInv'
<1>1. CommandType'
  BY DEF CommandInv, CommandType
<1>2. ASSUME NEW h \in Channels, NEW i \in DOMAIN chan'[h]
      PROVE  Queued(h, i)'
  <2>1. chan[h][i].op \notin Silent =>
          call'[chan[h][i].from] = call[chan[h][i].from]
    BY <1>2, EntryType DEF CommandInv, CommandType, Queued
  <2>2. QED
    BY <1>2, <2>1 DEF CommandInv, Queued
<1>3. QED
  BY <1>1, <1>2 DEF CommandInv

\* A command enters its channel.
LEMMA CommandSent ==
  ASSUME CommandInv, NEW c \in Callers, call[c].phase = "sending",
         NEW r \in Call, r.phase # "panicked", call' = [call EXCEPT ![c] = r],
         call[c].op \notin Silent => r.phase = "waiting" /\ r.op = call[c].op,
         chan' = [chan EXCEPT ![ChannelOf(call[c].op)] =
                    Append(@, [op |-> call[c].op, from |-> c])]
  PROVE  CommandInv'
<1> DEFINE op == call[c].op
           g  == ChannelOf(op)
           m  == [op |-> op, from |-> c]
<1>1. op \in Ops /\ m \in Entry
  BY DEF CommandInv, CommandType, Call, Entry
<1>2. g \in Channels
  BY <1>1, ChannelOfType
<1>3. CommandType'
  <2>1. chan' \in [Channels -> Seq(Entry)]
    BY <1>1, <1>2, QueueType DEF CommandInv, CommandType
  <2>2. QED
    BY <2>1 DEF CommandInv, CommandType
<1>4. ASSUME NEW h \in Channels, NEW i \in DOMAIN chan'[h]
      PROVE  \/ i \in DOMAIN chan[h] /\ chan'[h][i] = chan[h][i]
             \/ h = g /\ i = Len(chan[g]) + 1 /\ chan'[h][i] = m
  <2>1. chan[g] \in Seq(Entry)
    BY <1>2 DEF CommandInv, CommandType
  <2>2. CASE h = g
    BY <1>1, <1>2, <2>1, <2>2 DEF CommandInv, CommandType
  <2>3. CASE h # g
    BY <1>2, <2>3 DEF CommandInv, CommandType
  <2>4. QED
    BY <2>2, <2>3
<1>5. ASSUME NEW h \in Channels, NEW i \in DOMAIN chan[h],
             chan[h][i].op \notin Silent
      PROVE  /\ chan[h][i].from # c
             /\ call'[chan[h][i].from] = call[chan[h][i].from]
  BY <1>5, EntryType DEF CommandInv, CommandType, Queued
<1>6. m.op = op /\ m.from = c /\ ChannelOf(m.op) = g
  OBVIOUS
<1>7. ASSUME NEW h \in Channels, NEW i \in DOMAIN chan'[h],
             NEW j \in DOMAIN chan'[h],
             chan'[h][i].op \notin Silent, chan'[h][i] = chan'[h][j]
      PROVE  i = j
  <2>1. CASE /\ i \in DOMAIN chan[h] /\ chan'[h][i] = chan[h][i]
             /\ j \in DOMAIN chan[h] /\ chan'[h][j] = chan[h][j]
    BY <1>7, <2>1 DEF CommandInv, Queued
  <2>2. CASE /\ i \in DOMAIN chan[h] /\ chan'[h][i] = chan[h][i]
             /\ chan'[h][j] = m
    BY <1>5, <1>6, <1>7, <2>2
  <2>3. CASE /\ j \in DOMAIN chan[h] /\ chan'[h][j] = chan[h][j]
             /\ chan'[h][i] = m
    BY <1>5, <1>6, <1>7, <2>3
  <2>4. QED
    BY <1>4, <1>7, <2>1, <2>2, <2>3
<1>8. ASSUME NEW h \in Channels, NEW i \in DOMAIN chan'[h]
      PROVE  Queued(h, i)'
  <2>1. CASE i \in DOMAIN chan[h] /\ chan'[h][i] = chan[h][i]
    BY <1>5, <1>7, <2>1 DEF CommandInv, Queued
  <2>2. CASE h = g /\ chan'[h][i] = m
    <3>1. call'[c] = r
      BY DEF CommandInv, CommandType
    <3>2. QED
      BY <1>6, <1>7, <2>2, <3>1 DEF Queued
  <2>3. QED
    BY <1>4, <2>1, <2>2
<1>9. QED
  BY <1>3, <1>8 DEF CommandInv

\* The loop takes a command: its caller waits for it, and for no other.
LEMMA CommandTaken ==
  ASSUME CommandInv, NEW c \in Callers, NEW op \in Ops, Take(c, op)
  PROVE  /\ op \notin Silent => call[c].phase = "waiting" /\ call[c].op = op
         /\ chan' \in [Channels -> Seq(Entry)]
         /\ \A h \in Channels : \A i \in DOMAIN chan'[h] :
              \E j \in DOMAIN chan[h] : /\ chan'[h][i] = chan[h][j]
                                        /\ h = ChannelOf(op) => j = i + 1
                                        /\ h # ChannelOf(op) => j = i
         /\ op \notin Silent =>
              \A h \in Channels : \A i \in DOMAIN chan'[h] :
                chan'[h][i].op \notin Silent => chan'[h][i].from # c
<1> DEFINE g == ChannelOf(op)
           m == [op |-> op, from |-> c]
<1>1. g \in Channels
  BY ChannelOfType
<1>2. chan[g] \in Seq(Entry) /\ chan[g] # <<>>
  BY <1>1 DEF CommandInv, CommandType, Take
<1>3. 1 \in DOMAIN chan[g] /\ chan[g][1] = m
  BY <1>2 DEF Take
<1>4. chan' = [chan EXCEPT ![g] = Tail(@)]
  BY DEF Take
<1>5. op \notin Silent => call[c].phase = "waiting" /\ call[c].op = op
  BY <1>1, <1>3 DEF CommandInv, Queued
<1>6. chan' \in [Channels -> Seq(Entry)]
  BY <1>1, <1>2, <1>4, QueueType DEF CommandInv, CommandType
<1>7. ASSUME NEW h \in Channels, NEW i \in DOMAIN chan'[h]
      PROVE  \E j \in DOMAIN chan[h] : /\ chan'[h][i] = chan[h][j]
                                       /\ h = g => j = i + 1
                                       /\ h # g => j = i
  <2>1. CASE h = g
    <3>1. chan'[h] = Tail(chan[g])
      BY <1>1, <1>4, <2>1 DEF CommandInv, CommandType
    <3>2. i + 1 \in DOMAIN chan[g] /\ chan'[h][i] = chan[g][i + 1]
      BY <1>2, <3>1
    <3>3. QED
      BY <2>1, <3>2
  <2>2. CASE h # g
    BY <1>1, <1>4, <2>2 DEF CommandInv, CommandType
  <2>3. QED
    BY <2>1, <2>2
<1>8. ASSUME op \notin Silent, NEW h \in Channels, NEW i \in DOMAIN chan'[h],
             chan'[h][i].op \notin Silent, chan'[h][i].from = c
      PROVE  FALSE
  <2>1. PICK j \in DOMAIN chan[h] : /\ chan'[h][i] = chan[h][j]
                                    /\ h = g => j = i + 1
                                    /\ h # g => j = i
    BY <1>7
  <2>2. chan[h][j].op = op /\ ChannelOf(chan[h][j].op) = h
    BY <1>5, <1>8, <2>1 DEF CommandInv, Queued
  <2>3. h = g /\ j # 1
    <3>1. h = g
      BY <2>2
    <3>2. i \in Nat \ {0}
      BY <1>6
    <3>3. QED
      BY <2>1, <3>1, <3>2
  <2>4. chan[h][j] = m
    <3>1. chan[h][j] \in Entry
      BY EntryType DEF CommandInv
    <3>2. QED
      BY <1>8, <2>1, <2>2, <3>1 DEF Entry
  <2>5. QED
    BY <1>1, <1>3, <1>8, <2>3, <2>4 DEF CommandInv, Queued
<1>9. QED
  BY <1>5, <1>6, <1>7, <1>8

\* The loop answers: the call changes only when it waited for this command.
LEMMA CommandDone ==
  ASSUME CommandInv, NEW c \in Callers, NEW op \in Ops, Take(c, op),
         \/ op \in Silent /\ UNCHANGED call
         \/ /\ op \notin Silent
            /\ \E r \in Call : /\ r.phase # "panicked"
                               /\ call' = [call EXCEPT ![c] = r]
  PROVE  CommandInv'
<1>1. CommandType'
  <2>1. chan' \in [Channels -> Seq(Entry)]
    BY CommandTaken
  <2>2. QED
    BY <2>1 DEF CommandInv, CommandType
<1>2. ASSUME NEW h \in Channels, NEW i \in DOMAIN chan'[h]
      PROVE  Queued(h, i)'
  <2>1. PICK j \in DOMAIN chan[h] : /\ chan'[h][i] = chan[h][j]
                                    /\ h = ChannelOf(op) => j = i + 1
                                    /\ h # ChannelOf(op) => j = i
    BY CommandTaken
  <2>2. Queued(h, j)
    BY DEF CommandInv
  <2>3. chan'[h][i].op \notin Silent =>
          call'[chan'[h][i].from] = call[chan'[h][i].from]
    <3>1. CASE UNCHANGED call
      BY <3>1
    <3>2. CASE op \notin Silent
      <4>1. chan'[h][i].op \notin Silent =>
              chan'[h][i].from # c /\ chan'[h][i].from \in Callers
        BY <2>1, <3>2, CommandTaken, EntryType DEF CommandInv
      <4>2. QED
        BY <3>2, <4>1 DEF CommandInv, CommandType
    <3>3. QED
      BY <3>1, <3>2
  <2>4. ASSUME chan'[h][i].op \notin Silent, NEW k \in DOMAIN chan'[h],
               chan'[h][i] = chan'[h][k]
        PROVE  i = k
    <3>1. PICK l \in DOMAIN chan[h] : /\ chan'[h][k] = chan[h][l]
                                      /\ h = ChannelOf(op) => l = k + 1
                                      /\ h # ChannelOf(op) => l = k
      BY CommandTaken
    <3>2. j = l
      BY <2>1, <2>2, <2>4, <3>1 DEF Queued
    <3>3. i \in Nat /\ k \in Nat
      <4>1. chan'[h] \in Seq(Entry)
        BY <1>1 DEF CommandType
      <4>2. QED
        BY <4>1
    <3>4. QED
      BY <2>1, <3>1, <3>2, <3>3
  <2>5. QED
    BY <2>1, <2>2, <2>3, <2>4 DEF Queued
<1>3. QED
  BY <1>1, <1>2 DEF CommandInv

\* A command keeps CommandInv, whatever it is.
LEMMA CommandStep ==
  ASSUME Inv, NEW c \in Callers, Command(c), queries + 1 \in Ids \/ ~ PeerLookup(c)
  PROVE  CommandInv'
<1> USE DEF Inv
<1>1. ASSUME NEW op \in Ops \ Silent, Take(c, op), Return(c)
      PROVE  CommandInv'
  <2>1. Idle \in Call /\ Idle.phase # "panicked"
    BY IdleType DEF Idle
  <2>2. QED
    BY <1>1, <2>1, CommandDone DEF Return
<1>2. ASSUME NEW op \in Silent, Take(c, op), UNCHANGED call
      PROVE  CommandInv'
  BY <1>2, CommandDone DEF Silent, Ops, AutonatOps, KadOps
<1>3. CASE PeerLookup(c)
  <2>1. call[c] \in Call
    BY DEF CommandInv, CommandType
  <2> DEFINE r == [call[c] EXCEPT !.phase = "listening", !.id = queries + 1]
  <2>2. r \in Call /\ r.phase # "panicked"
    BY <1>3, <2>1 DEF Call
  <2>3. call' = [call EXCEPT ![c] = r]
    BY <1>3 DEF PeerLookup, CommandInv, CommandType
  <2>4. Take(c, "PeerLookup") /\ "PeerLookup" \in Ops /\ "PeerLookup" \notin Silent
    BY <1>3 DEF PeerLookup, Ops, KadOps, Silent
  <2>5. QED
    BY <2>2, <2>3, <2>4, CommandDone
<1>4. CASE SwarmOpExec(c) \/ MdnsOpExec(c)
  BY <1>1, <1>4 DEF SwarmOpExec, MdnsOpExec, Ops, SwarmOps, MdnsOps, Silent
<1>5. CASE AutonatOpExec(c)
  BY <1>1, <1>2, <1>5 DEF AutonatOpExec, Ops, AutonatOps, Silent
<1>6. CASE BootStrap(c)
  BY <1>1, <1>6 DEF BootStrap, Ops, KadOps, Silent
<1>7. ASSUME NEW p, NEW a, NEW fits, InsertNode(c, p, a, fits)
      PROVE  CommandInv'
  BY <1>1, <1>7 DEF InsertNode, Ops, KadOps, Silent
<1>8. ASSUME NEW announced, SetMode(c, announced)
      PROVE  CommandInv'
  BY <1>2, <1>8 DEF SetMode, Silent
<1>9. QED
  BY <1>3, <1>4, <1>5, <1>6, <1>7, <1>8 DEF Command

\* So does what a caller does itself.
LEMMA CallerStep ==
  ASSUME Inv, NEW c \in Callers,
         \/ \E op \in Does[c] : Start(c, op)
         \/ Send(c) \/ Listen(c) \/ SetModeTimeout(c)
  PROVE  CommandInv'
<1> USE DEF Inv
<1>1. call[c] \in Call
  BY DEF CommandInv, CommandType
<1>2. Idle \in Call /\ Idle.phase # "panicked"
  BY IdleType DEF Idle
<1>3. ASSUME NEW op \in Does[c], Start(c, op)
      PROVE  CommandInv'
  <2> DEFINE r == [Idle EXCEPT !.phase = "sending", !.op = op]
  <2>1. r \in Call /\ r.phase # "panicked"
    BY <1>2, DoesAssumption DEF Call, Idle
  <2>2. QED
    BY <1>3, <2>1, CallChanged DEF Start
<1>4. CASE Send(c)
  <2> DEFINE W == [call[c] EXCEPT !.phase = "waiting"]
             L == [call[c] EXCEPT !.phase = "listening"]
  <2>1. /\ W \in Call /\ W.phase = "waiting" /\ W.op = call[c].op
        /\ L \in Call /\ L.phase = "listening"
    BY <1>1 DEF Call
  <2>2. \/ call[c].op \in Silent /\ call' = [call EXCEPT ![c] = Idle]
        \/ call[c].op \in Silent /\ call' = [call EXCEPT ![c] = L]
        \/ call' = [call EXCEPT ![c] = W]
    BY <1>4 DEF Send, Return, Silent, CommandInv, CommandType
  <2>3. PICK r \in Call : /\ r.phase # "panicked" /\ call' = [call EXCEPT ![c] = r]
                          /\ call[c].op \notin Silent =>
                               r.phase = "waiting" /\ r.op = call[c].op
    BY <1>2, <2>1, <2>2
  <2>4. /\ call[c].phase = "sending"
        /\ chan' = [chan EXCEPT ![ChannelOf(call[c].op)] =
                      Append(@, [op |-> call[c].op, from |-> c])]
    BY <1>4 DEF Send
  <2>5. QED
    BY <2>3, <2>4, CommandSent
<1>5. CASE Listen(c)
  <2>1. c \notin lagged /\ unread[c] # <<>> /\ unread[c] \in Seq(Event)
    BY <1>5 DEF ChannelInv, Listen, Receivers
  <2> DEFINE e == Head(unread[c])
             G == [call[c] EXCEPT !.got = Append(@, e.step)]
  <2>2. e \in Event
    BY <2>1
  <2>3. Mine(c, e) => G \in Call /\ G.phase = call[c].phase
    <3>1. Mine(c, e) => e.step \in 1 .. MaxSteps
      BY <2>2, EventFields DEF Mine
    <3>2. call[c].got \in Seq(1 .. MaxSteps)
      BY <1>1 DEF Call
    <3>3. Mine(c, e) => Append(call[c].got, e.step) \in Seq(1 .. MaxSteps)
      BY <3>1, <3>2
    <3>4. QED
      BY <1>1, <3>3 DEF Call
  <2>4. \/ call' = [call EXCEPT ![c] = Idle]
        \/ Mine(c, e) /\ call' = [call EXCEPT ![c] = G]
        \/ call' = call
    BY <1>5, <2>1 DEF Listen, Return, CommandInv, CommandType
  <2>5. chan' = chan /\ call[c].phase = "listening"
    BY <1>5 DEF Listen
  <2>6. QED
    BY <1>2, <2>3, <2>4, <2>5, CallChanged, CommandSame
<1>6. CASE SetModeTimeout(c)
  BY <1>2, <1>6, CallChanged DEF SetModeTimeout, Return
<1>7. QED
  BY <1>3, <1>4, <1>5, <1>6

-----------------------------------------------------------------------------
(* The calls and the queries they ask for. *)

\* Nobody begins to ask.
LEMMA CountKept ==
  ASSUME CountInv, Asking' \subseteq Asking, queries' = queries,
         inputs' \in {inputs, inputs + 1}, inputs' <= MaxInputs
  PROVE  CountInv'
<1>1. /\ IsFiniteSet(Asking')
      /\ Cardinality(Asking') <= Cardinality(Asking)
  BY FS_Subset DEF CountInv
<1>2. Cardinality(Asking') \in Nat /\ Cardinality(Asking) \in Nat
  BY <1>1, FS_CardinalityType DEF CountInv
<1>3. QED
  BY <1>1, <1>2, SwarmBoundsAssumption DEF CountInv

\* A caller begins to ask, and the call is counted.
LEMMA CountStarted ==
  ASSUME CountInv, NEW c, Asking' \subseteq Asking \cup {c}, queries' = queries,
         inputs' = inputs + 1, inputs < MaxInputs
  PROVE  CountInv'
<1>1. /\ IsFiniteSet(Asking \cup {c})
      /\ Cardinality(Asking \cup {c}) <= Cardinality(Asking) + 1
  <2>1. Cardinality(Asking) \in Nat
    BY FS_CardinalityType DEF CountInv
  <2>2. /\ IsFiniteSet(Asking \cup {c})
        /\ \/ Cardinality(Asking \cup {c}) = Cardinality(Asking)
           \/ Cardinality(Asking \cup {c}) = Cardinality(Asking) + 1
    BY FS_AddElement DEF CountInv
  <2>3. QED
    BY <2>1, <2>2
<1>2. /\ IsFiniteSet(Asking')
      /\ Cardinality(Asking') <= Cardinality(Asking \cup {c})
  BY <1>1, FS_Subset
<1>3. /\ Cardinality(Asking') \in Nat /\ Cardinality(Asking) \in Nat
      /\ Cardinality(Asking \cup {c}) \in Nat
  BY <1>1, <1>2, FS_CardinalityType DEF CountInv
<1>4. QED
  BY <1>1, <1>2, <1>3, SwarmBoundsAssumption DEF CountInv

\* There is an id for the query of a caller that asks.
LEMMA CountRoom ==
  ASSUME CountInv, NEW c \in Asking
  PROVE  queries + 1 \in Ids
<1>1. /\ Cardinality(Asking) \in Nat
      /\ Cardinality(Asking) # 0
  BY FS_CardinalityType, FS_EmptySet DEF CountInv
<1>2. QED
  BY <1>1, SwarmBoundsAssumption DEF CountInv, Ids

\* A query is made for a caller that asked.
LEMMA CountAsked ==
  ASSUME CountInv, NEW c \in Asking, Asking' \subseteq Asking \ {c},
         queries' \in {queries, queries + 1}, inputs' = inputs
  PROVE  CountInv'
<1>1. /\ IsFiniteSet(Asking \ {c})
      /\ Cardinality(Asking \ {c}) = Cardinality(Asking) - 1
  BY FS_RemoveElement DEF CountInv
<1>2. /\ IsFiniteSet(Asking')
      /\ Cardinality(Asking') <= Cardinality(Asking \ {c})
  BY <1>1, FS_Subset
<1>3. Cardinality(Asking') \in Nat /\ Cardinality(Asking) \in Nat
  BY <1>2, FS_CardinalityType DEF CountInv
<1>4. QED
  BY <1>1, <1>2, <1>3 DEF CountInv

\* Who asks after one call has changed.
LEMMA AskingChanged ==
  ASSUME CommandInv, NEW c \in Callers, NEW r, call' = [call EXCEPT ![c] = r]
  PROVE  /\ Asking' \subseteq Asking \cup {c}
         /\ \/ r.phase \notin {"sending", "waiting"}
            \/ r.op \notin {"PeerLookup", "BootStrap"}
            => Asking' \subseteq Asking \ {c}
         /\ c \in Asking => Asking' \subseteq Asking
<1>1. \A d \in Callers : call'[d] = IF d = c THEN r ELSE call[d]
  BY DEF CommandInv, CommandType
<1>2. QED
  BY <1>1 DEF Asking

\* A call that is over does not ask.
LEMMA AskingReturned ==
  ASSUME CommandInv, NEW c \in Callers, Return(c)
  PROVE  Asking' \subseteq Asking \ {c}
<1>1. Idle.phase \notin {"sending", "waiting"}
  BY DEF Idle
<1>2. call' = [call EXCEPT ![c] = Idle]
  BY DEF Return
<1>3. QED
  BY <1>1, <1>2, AskingChanged

\* The loop makes queries only for callers that asked.
LEMMA QueryAsked ==
  ASSUME Inv, NEW c \in Callers, PeerLookup(c) \/ BootStrap(c)
  PROVE  c \in Asking /\ queries + 1 \in Ids
<1>1. c \in Asking
  BY CommandTaken DEF Inv, Asking, PeerLookup, BootStrap, Ops, KadOps, Silent
<1>2. QED
  BY <1>1, CountRoom DEF Inv

\* The count is kept.
LEMMA CountStep ==
  ASSUME Inv, [Next]_vars
  PROVE  CountInv'
<1> USE DEF Inv
<1>1. ASSUME Asking' \subseteq Asking, UNCHANGED <<queries, inputs>>
      PROVE  CountInv'
  BY <1>1, CountKept DEF CountInv
<1>2. ASSUME UNCHANGED call
      PROVE  Asking' = Asking
  BY <1>2 DEF Asking
<1>3. ASSUME NEW c \in Callers, Return(c), UNCHANGED <<queries, inputs>>
      PROVE  CountInv'
  BY <1>1, <1>3, AskingReturned
<1>4. ASSUME NEW c \in Callers, NEW op, Start(c, op)
      PROVE  CountInv'
  <2>1. Asking' \subseteq Asking \cup {c}
    BY <1>4, AskingChanged DEF Start
  <2>2. QED
    BY <1>4, <2>1, CountStarted DEF Start
<1>5. ASSUME NEW c \in Callers, Send(c)
      PROVE  CountInv'
  <2> DEFINE W == [call[c] EXCEPT !.phase = "waiting"]
             L == [call[c] EXCEPT !.phase = "listening"]
  <2>1. call[c] \in Call
    BY DEF CommandInv, CommandType
  <2>2. W.op = call[c].op /\ L.phase = "listening"
    BY <2>1 DEF Call
  <2>3. \/ Return(c)
        \/ call' = [call EXCEPT ![c] = L]
        \/ call' = [call EXCEPT ![c] = W]
    BY <1>5 DEF Send, CommandInv, CommandType
  <2>4. c \in Asking \/ call[c].op \notin {"PeerLookup", "BootStrap"}
    BY <1>5 DEF Asking, Send
  <2>5. Asking' \subseteq Asking
    BY <2>2, <2>3, <2>4, AskingChanged, AskingReturned
  <2>6. QED
    BY <1>1, <1>5, <2>5 DEF Send
<1>6. ASSUME NEW c \in Callers, Listen(c)
      PROVE  CountInv'
  <2>1. c \notin lagged
    BY DEF ChannelInv
  <2> DEFINE G == [call[c] EXCEPT !.got = Append(@, Head(unread[c]).step)]
  <2>2. call[c] \in Call /\ call[c].phase = "listening"
    BY <1>6 DEF Listen, CommandInv, CommandType
  <2>3. G.phase = "listening"
    BY <2>2 DEF Call
  <2>4. \/ Return(c)
        \/ call' = [call EXCEPT ![c] = G]
        \/ UNCHANGED call
    BY <1>6, <2>1 DEF Listen, CommandInv, CommandType
  <2>5. Asking' \subseteq Asking
    BY <1>2, <2>3, <2>4, AskingChanged, AskingReturned
  <2>6. QED
    BY <1>1, <1>6, <2>5 DEF Listen
<1>7. ASSUME NEW c \in Callers, SetModeTimeout(c)
      PROVE  CountInv'
  BY <1>3, <1>7 DEF SetModeTimeout
<1>8. ASSUME NEW c \in Callers, Command(c)
      PROVE  CountInv'
  <2>1. CASE PeerLookup(c) \/ BootStrap(c)
    <3> DEFINE r == [call[c] EXCEPT !.phase = "listening", !.id = queries + 1]
    <3>1. c \in Asking
      BY <2>1, QueryAsked
    <3>2. call[c] \in Call
      BY DEF CommandInv, CommandType
    <3>3. r.phase = "listening"
      BY <3>2 DEF Call
    <3>4. Return(c) \/ call' = [call EXCEPT ![c] = r]
      BY <2>1 DEF PeerLookup, BootStrap, CommandInv, CommandType
    <3>5. Asking' \subseteq Asking \ {c}
      BY <3>3, <3>4, AskingChanged, AskingReturned
    <3>6. queries' \in {queries, queries + 1} /\ inputs' = inputs
      BY <2>1 DEF PeerLookup, BootStrap, NewQuery, Take
    <3>7. QED
      BY <3>1, <3>5, <3>6, CountAsked
  <2>2. CASE ~ (PeerLookup(c) \/ BootStrap(c))
    <3>1. (Return(c) \/ UNCHANGED call) /\ UNCHANGED <<queries, inputs>>
      BY <1>8, <2>2 DEF Command, SwarmOpExec, MdnsOpExec, AutonatOpExec,
         InsertNode, SetMode, Take
    <3>2. QED
      BY <1>1, <1>2, <1>3, <3>1
  <2>3. QED
    BY <2>1, <2>2
<1>9. CASE Mirror \/ KadEvent
  BY <1>1, <1>2, <1>9 DEF Mirror, KadEvent, PollSwarm
<1>10. CASE Network
  <2>1. /\ UNCHANGED <<call, queries>>
        /\ inputs' = inputs + 1 /\ inputs < MaxInputs
    BY <1>10 DEF Network, OtherSwarmEvent, ConnectionEstablished,
       ConnectionClosed, MdnsEvent, PollSwarm
  <2>2. inputs' <= MaxInputs
    BY <2>1, SwarmBoundsAssumption DEF CountInv
  <2>3. QED
    BY <1>2, <2>1, <2>2, CountKept
<1>11. ASSUME NEW i, NEW last, KadProgress(i, last)
       PROVE  CountInv'
  BY <1>1, <1>2, <1>11 DEF KadProgress
<1>12. CASE Timer \/ UNCHANGED vars
  BY <1>1, <1>2, <1>12 DEF vars, Timer
<1>13. QED
  BY <1>4, <1>5, <1>6, <1>7, <1>8, <1>9, <1>10, <1>11, <1>12 DEF Next

-----------------------------------------------------------------------------
(* kad. *)

\* A query is made: it has an id of its own and steps left.
LEMMA QueryMade ==
  ASSUME KadInv, NewQuery, queries + 1 \in Ids,
         UNCHANGED <<pending, table, mirror, conns>>
  PROVE  KadInv'
<1>1. progress' \in [Ids -> 0 .. MaxSteps]
  BY SwarmBoundsAssumption DEF KadInv, NewQuery
<1>2. \A i \in open' : progress'[i] < MaxSteps
  BY SwarmBoundsAssumption DEF KadInv, NewQuery
<1>3. QED
  BY <1>1, <1>2 DEF KadInv, NewQuery

\* Addresses are added or removed, and what is announced is an event.
LEMMA TableChanged ==
  ASSUME KadInv, table' \in [Peers -> SUBSET Addrs], pending' \in Seq(Event),
         conns' \subseteq Peers \X Addrs, UNCHANGED <<mirror, progress, open>>
  PROVE  KadInv'
  BY DEF KadInv

\* The types of kad and of tree_map are kept.
LEMMA KadStep ==
  ASSUME Inv, [Next]_vars
  PROVE  KadInv'
<1> USE DEF Inv
<1>1. ASSUME UNCHANGED <<pending, table, mirror, progress, open, conns>>
      PROVE  KadInv'
  BY <1>1 DEF KadInv
<1>2. ASSUME NEW c \in Callers, NEW op, Start(c, op)
      PROVE  KadInv'
  BY <1>1, <1>2 DEF Start
<1>3. ASSUME NEW c \in Callers, Send(c) \/ Listen(c) \/ SetModeTimeout(c)
      PROVE  KadInv'
  BY <1>1, <1>3 DEF Send, Listen, SetModeTimeout
<1>4. ASSUME NEW p \in Peers, NEW a \in Addrs, NEW fits \in BOOLEAN
      PROVE  /\ Added(p, a, fits) \in [Peers -> SUBSET Addrs]
             /\ pending \o AddedEvents(p, a, fits) \in Seq(Event)
             /\ Removed(p, a) \in [Peers -> SUBSET Addrs]
             /\ <<p, a>> \in Peers \X Addrs
  BY AddedType DEF KadInv, Removed
<1>5. ASSUME NEW c \in Callers, Command(c)
      PROVE  KadInv'
  <2>1. CASE SwarmOpExec(c) \/ MdnsOpExec(c) \/ AutonatOpExec(c)
    BY <1>1, <2>1 DEF SwarmOpExec, MdnsOpExec, AutonatOpExec, Take
  <2>2. CASE PeerLookup(c) \/ BootStrap(c)
    <3>1. queries + 1 \in Ids
      BY <2>2, QueryAsked
    <3>2. /\ NewQuery \/ UNCHANGED <<progress, open, queries>>
          /\ UNCHANGED <<pending, table, mirror, conns>>
      BY <2>2 DEF PeerLookup, BootStrap, Take
    <3>3. QED
      BY <1>1, <3>1, <3>2, QueryMade
  <2>3. ASSUME NEW p \in Peers, NEW a \in Addrs, NEW fits \in BOOLEAN,
               InsertNode(c, p, a, fits)
        PROVE  KadInv'
    <3>1. /\ table' = Added(p, a, fits)
          /\ pending' = pending \o AddedEvents(p, a, fits)
          /\ UNCHANGED <<mirror, progress, open, conns>>
      BY <2>3 DEF InsertNode, Take
    <3>2. QED
      BY <1>4, <3>1, TableChanged DEF KadInv
  <2>4. ASSUME NEW announced \in BOOLEAN, SetMode(c, announced)
        PROVE  KadInv'
    <3>1. pending' \in Seq(Event)
      BY <2>4, EventTypes DEF SetMode, KadInv
    <3>2. UNCHANGED <<table, mirror, progress, open, conns>>
      BY <2>4 DEF SetMode, Take
    <3>3. QED
      BY <3>1, <3>2, TableChanged DEF KadInv
  <2>5. QED
    BY <1>5, <2>1, <2>2, <2>3, <2>4 DEF Command
<1>6. CASE Mirror
  <2>1. /\ KadTask \notin lagged /\ KadTask \in Receivers
        /\ unread[KadTask] \in Seq(Event) /\ unread[KadTask] # <<>>
    BY <1>6 DEF ChannelInv, Receivers, Mirror
  <2> DEFINE e == Head(unread[KadTask])
  <2>2. e \in Event
    BY <2>1
  <2>3. Applied(e) \in [Peers -> SUBSET Addrs]
    BY <2>2, EventFields DEF Applied, KadInv
  <2>4. mirror' = Applied(e) /\ UNCHANGED <<pending, table, progress, open, conns>>
    BY <1>6, <2>1 DEF Mirror
  <2>5. QED
    BY <2>3, <2>4 DEF KadInv
<1>7. CASE KadEvent
  <2>1. pending' \in Seq(Event)
    BY <1>7 DEF KadEvent, KadInv
  <2>2. UNCHANGED <<table, mirror, progress, open, conns>>
    BY <1>7 DEF KadEvent, PollSwarm
  <2>3. QED
    BY <2>1, <2>2, TableChanged DEF KadInv
<1>8. CASE Network
  <2>1. UNCHANGED <<mirror, progress, open>>
    BY <1>8 DEF Network, OtherSwarmEvent, ConnectionEstablished,
       ConnectionClosed, MdnsEvent, PollSwarm
  <2>2. CASE OtherSwarmEvent
    BY <2>1, <2>2, TableChanged DEF OtherSwarmEvent, KadInv
  <2>3. ASSUME NEW p \in Peers, NEW a \in Addrs, NEW fits \in BOOLEAN,
               ConnectionEstablished(p, a, fits)
        PROVE  KadInv'
    <3>1. conns' \subseteq Peers \X Addrs
      BY <1>4, <2>3 DEF ConnectionEstablished, KadInv
    <3>2. QED
      BY <1>4, <2>1, <2>3, <3>1, TableChanged DEF ConnectionEstablished
  <2>4. ASSUME NEW p \in Peers, NEW a \in Addrs, ConnectionClosed(p, a)
        PROVE  KadInv'
    <3>1. conns' \subseteq Peers \X Addrs /\ pending' \in Seq(Event)
      BY <2>4 DEF ConnectionClosed, KadInv
    <3>2. QED
      BY <1>4, <2>1, <2>4, <3>1, TableChanged DEF ConnectionClosed
  <2>5. ASSUME NEW k, NEW p \in Peers, NEW a \in Addrs, NEW fits \in BOOLEAN,
               MdnsEvent(k, p, a, fits)
        PROVE  KadInv'
    <3>1. conns' \subseteq Peers \X Addrs
      BY <2>5 DEF MdnsEvent, KadInv
    <3>2. /\ table' \in [Peers -> SUBSET Addrs]
          /\ pending' \in Seq(Event)
      <4>1. CASE /\ table' = Added(p, a, fits)
                 /\ pending' = pending \o AddedEvents(p, a, fits)
        BY <1>4, <4>1
      <4>2. CASE table' = Removed(p, a) /\ UNCHANGED pending
        BY <1>4, <4>2 DEF KadInv
      <4>3. QED
        BY <2>5, <4>1, <4>2 DEF MdnsEvent
    <3>3. QED
      BY <2>1, <3>1, <3>2, TableChanged
  <2>6. QED
    BY <1>8, <2>2, <2>3, <2>4, <2>5 DEF Network
<1>9. ASSUME NEW i \in Ids, NEW last \in BOOLEAN, KadProgress(i, last)
      PROVE  KadInv'
  <2>1. progress[i] + 1 \in 1 .. MaxSteps /\ (~ last => progress[i] + 1 < MaxSteps)
    BY <1>9, SwarmBoundsAssumption DEF KadProgress, KadInv
  <2>2. progress' = [progress EXCEPT ![i] = @ + 1]
    BY <1>9 DEF KadProgress
  <2>3. progress' \in [Ids -> 0 .. MaxSteps]
    BY <2>1, <2>2 DEF KadInv
  <2>4. open' \subseteq open /\ (last => i \notin open')
    BY <1>9 DEF KadProgress
  <2>5. \A j \in open' : progress'[j] < MaxSteps
    BY <2>1, <2>2, <2>4 DEF KadInv
  <2>6. pending' \in Seq(Event)
    <3>1. [kind |-> "QueryProgressed", id |-> i,
           step |-> progress[i] + 1, last |-> last] \in Event
      BY <2>1, EventTypes
    <3>2. pending' = Append(pending, [kind |-> "QueryProgressed", id |-> i,
                                      step |-> progress[i] + 1, last |-> last])
      BY <1>9 DEF KadProgress
    <3>3. \A e \in Event : Append(pending, e) \in Seq(Event)
      BY DEF KadInv
    <3>4. QED
      BY <3>1, <3>2, <3>3
  <2>7. UNCHANGED <<table, mirror, conns>>
    BY <1>9 DEF KadProgress
  <2>8. QED
    BY <2>3, <2>4, <2>5, <2>6, <2>7 DEF KadInv
<1>10. CASE Timer \/ UNCHANGED vars
  BY <1>1, <1>10 DEF vars, Timer
<1>11. QED
  BY <1>2, <1>3, <1>5, <1>6, <1>7, <1>8, <1>9, <1>10 DEF Next

-----------------------------------------------------------------------------
(* tree_map. *)

(* With t in the table for p, q queued in kad, s in the channel and m in    *)
(* tree_map: t is in the newest news of p.                                  *)
Trails(t, q, s, m, p) ==
  \/ Newest(q, p, t)
  \/ Nothing(q, p) /\ Newest(s, p, t)
  \/ Nothing(q, p) /\ Nothing(s, p) /\ t \subseteq m

(* The mirroring task is subscribed, so it is told everything.              *)
NewsInv == KadTask \in subs /\ TableIsMirrored

\* An event is added.
LEMMA NewsAdded ==
  ASSUME NEW s \in Seq(Event), NEW e \in Event, NEW p, NEW t
  PROVE  /\ About(p, e) /\ t \subseteq e.addrs => Newest(Append(s, e), p, t)
         /\ ~ About(p, e) /\ Newest(s, p, t) => Newest(Append(s, e), p, t)
         /\ ~ About(p, e) /\ Nothing(s, p) => Nothing(Append(s, e), p)
<1> DEFINE z == Append(s, e)
           N == Len(s) + 1
<1>1. /\ N \in DOMAIN z /\ z[N] = e
      /\ \A n \in DOMAIN z : n <= N
      /\ \A n \in DOMAIN z : n # N => n \in DOMAIN s /\ z[n] = s[n]
      /\ \A n \in DOMAIN s : n \in DOMAIN z /\ z[n] = s[n]
  OBVIOUS
<1> HIDE DEF z, N
<1>2. About(p, e) /\ t \subseteq e.addrs => Newest(z, p, t)
  BY <1>1 DEF Newest
<1>3. ~ About(p, e) /\ Newest(s, p, t) => Newest(z, p, t)
  BY <1>1 DEF Newest
<1>4. ~ About(p, e) /\ Nothing(s, p) => Nothing(z, p)
  BY <1>1 DEF Nothing
<1>5. QED
  BY <1>2, <1>3, <1>4 DEF z

\* The first event is taken.
LEMMA NewsTaken ==
  ASSUME NEW s \in Seq(Event), s # <<>>, NEW p, NEW t
  PROVE  /\ Newest(s, p, t) =>
              \/ Newest(Tail(s), p, t)
              \/ /\ Nothing(Tail(s), p) /\ About(p, Head(s))
                 /\ t \subseteq Head(s).addrs
         /\ Nothing(s, p) => Nothing(Tail(s), p) /\ ~ About(p, Head(s))
<1> DEFINE z == Tail(s)
           h == Head(s)
<1>1. /\ 1 \in DOMAIN s /\ s[1] = h
      /\ \A n \in DOMAIN z : n \in Nat /\ n >= 1 /\ n + 1 \in DOMAIN s /\ z[n] = s[n + 1]
      /\ \A n \in DOMAIN s : /\ n \in Nat
                             /\ n # 1 => n - 1 \in DOMAIN z /\ z[n - 1] = s[n]
  OBVIOUS
<1> HIDE DEF z, h
<1>2. ASSUME Newest(s, p, t)
      PROVE  \/ Newest(z, p, t)
             \/ Nothing(z, p) /\ About(p, h) /\ t \subseteq h.addrs
  <2>1. PICK n \in DOMAIN s : /\ About(p, s[n]) /\ t \subseteq s[n].addrs
                              /\ \A m \in DOMAIN s : About(p, s[m]) => m <= n
    BY <1>2 DEF Newest
  <2>2. \A m \in DOMAIN z : About(p, z[m]) => m + 1 <= n
    BY <1>1, <2>1
  <2>3. CASE n = 1
    <3>1. Nothing(z, p)
      BY <1>1, <2>2, <2>3 DEF Nothing
    <3>2. QED
      BY <1>1, <2>1, <2>3, <3>1
  <2>4. CASE n # 1
    <3>1. n - 1 \in DOMAIN z /\ z[n - 1] = s[n] /\ n \in Nat
      BY <1>1, <2>4
    <3>2. \A m \in DOMAIN z : About(p, z[m]) => m <= n - 1
      BY <1>1, <2>2, <3>1
    <3>3. QED
      BY <2>1, <3>1, <3>2 DEF Newest
  <2>5. QED
    BY <2>3, <2>4
<1>3. Nothing(s, p) => Nothing(z, p) /\ ~ About(p, h)
  BY <1>1 DEF Nothing
<1>4. QED
  BY <1>2, <1>3 DEF z, h

\* An address is removed, or an event that is not about p is added.
LEMMA TrailsLess ==
  ASSUME NEW t, NEW u, NEW q, NEW s, NEW m, NEW p, Trails(t, q, s, m, p),
         u \subseteq t
  PROVE  Trails(u, q, s, m, p)
<1>1. ASSUME NEW z, Newest(z, p, t)
      PROVE  Newest(z, p, u)
  BY <1>1 DEF Newest
<1>2. QED
  BY <1>1 DEF Trails

LEMMA TrailsOther ==
  ASSUME NEW t, NEW q \in Seq(Event), NEW s \in Seq(Event), NEW m, NEW p,
         NEW e \in Event, Trails(t, q, s, m, p), ~ About(p, e)
  PROVE  Trails(t, Append(q, e), s, m, p) /\ Trails(t, q, Append(s, e), m, p)
  BY NewsAdded DEF Trails

\* kad announces what it has of p.
LEMMA TrailsAnnounced ==
  ASSUME NEW t, NEW q \in Seq(Event), NEW s, NEW m, NEW p, NEW e \in Event,
         About(p, e), t \subseteq e.addrs
  PROVE  Trails(t, Append(q, e), s, m, p)
  BY NewsAdded DEF Trails

\* The loop publishes the next event of kad.
LEMMA TrailsPublished ==
  ASSUME NEW t, NEW q \in Seq(Event), NEW s \in Seq(Event), NEW m, NEW p,
         Trails(t, q, s, m, p), q # <<>>
  PROVE  Trails(t, Tail(q), Append(s, Head(q)), m, p)
<1> DEFINE e == Head(q)
<1>1. e \in Event
  OBVIOUS
<1>2. /\ Newest(q, p, t) =>
           \/ Newest(Tail(q), p, t)
           \/ Nothing(Tail(q), p) /\ About(p, e) /\ t \subseteq e.addrs
      /\ Nothing(q, p) => Nothing(Tail(q), p) /\ ~ About(p, e)
  BY NewsTaken
<1> HIDE DEF e
<1>3. /\ About(p, e) /\ t \subseteq e.addrs => Newest(Append(s, e), p, t)
      /\ ~ About(p, e) /\ Newest(s, p, t) => Newest(Append(s, e), p, t)
      /\ ~ About(p, e) /\ Nothing(s, p) => Nothing(Append(s, e), p)
  BY <1>1, NewsAdded
<1>4. Trails(t, Tail(q), Append(s, e), m, p)
  BY <1>2, <1>3 DEF Trails
<1>5. QED
  BY <1>4 DEF e

\* The task applies the next event of the channel.
LEMMA TrailsApplied ==
  ASSUME NEW t, NEW q, NEW s \in Seq(Event), NEW m, NEW p, NEW n,
         Trails(t, q, s, m, p), s # <<>>,
         n = IF About(p, Head(s)) THEN Head(s).addrs ELSE m
  PROVE  Trails(t, q, Tail(s), n, p)
<1> DEFINE e == Head(s)
<1>1. /\ Newest(s, p, t) =>
           \/ Newest(Tail(s), p, t)
           \/ Nothing(Tail(s), p) /\ About(p, e) /\ t \subseteq e.addrs
      /\ Nothing(s, p) => Nothing(Tail(s), p) /\ ~ About(p, e)
  BY NewsTaken
<1>2. n = IF About(p, e) THEN e.addrs ELSE m
  OBVIOUS
<1> HIDE DEF e
<1>3. QED
  BY <1>1, <1>2 DEF Trails

\* TableIsMirrored in these words.
LEMMA MirroredPointwise ==
  TableIsMirrored <=>
    \A p \in Peers : Trails(table[p], pending, unread[KadTask], mirror[p], p)
  BY DEF TableIsMirrored, Trails

\* add_address announces every address it adds.
LEMMA AddedAnnounced ==
  ASSUME KadInv, NEW s \in Seq(Event), NEW p \in Peers, NEW a \in Addrs,
         NEW fits \in BOOLEAN, NEW x \in Peers,
         Trails(table[x], pending, s, mirror[x], x)
  PROVE  Trails(Added(p, a, fits)[x], pending \o AddedEvents(p, a, fits), s,
                mirror[x], x)
<1> DEFINE N == Added(p, a, fits)
           e == RoutingUpdated(p, N[p])
<1>1. table \in [Peers -> SUBSET Addrs] /\ pending \in Seq(Event)
  BY DEF KadInv
<1>2. N \in [Peers -> SUBSET Addrs] /\ (x # p => N[x] = table[x])
  BY <1>1 DEF Added
<1>3. AddedEvents(p, a, fits) = IF N = table THEN <<>> ELSE <<e>>
  BY DEF AddedEvents
<1>4. e \in Event /\ e.kind = "RoutingUpdated" /\ e.peer = p /\ e.addrs = N[p]
  BY <1>2, EventTypes DEF RoutingUpdated
<1> HIDE DEF N, e
<1>5. CASE N = table
  <2>1. pending \o <<>> = pending
    BY <1>1
  <2>2. QED
    BY <1>3, <1>5, <2>1 DEF N
<1>6. CASE N # table
  <2>1. pending \o <<e>> = Append(pending, e)
    BY <1>1, <1>4
  <2>2. CASE x = p
    <3>1. About(x, e) /\ N[x] \subseteq e.addrs
      BY <1>4, <2>2 DEF About
    <3>2. Trails(N[x], Append(pending, e), s, mirror[x], x)
      BY <1>1, <1>4, <3>1, TrailsAnnounced
    <3>3. QED
      BY <1>3, <1>6, <2>1, <3>2 DEF N
  <2>3. CASE x # p
    <3>1. ~ About(x, e)
      BY <1>4, <2>3 DEF About
    <3>2. Trails(table[x], Append(pending, e), s, mirror[x], x)
      BY <1>1, <1>4, <3>1, TrailsOther
    <3>3. QED
      BY <1>2, <1>3, <1>6, <2>1, <2>3, <3>2 DEF N
  <2>4. QED
    BY <2>2, <2>3
<1>7. QED
  BY <1>5, <1>6

\* What the table and kad's queue may do in a step that leaves tree_map alone.
TableStep ==
  \/ UNCHANGED <<table, pending>>
  \/ \E p \in Peers, a \in Addrs, fits \in BOOLEAN :
       /\ table' = Added(p, a, fits)
       /\ pending' = pending \o AddedEvents(p, a, fits)
  \/ \E p \in Peers, a \in Addrs : table' = Removed(p, a) /\ UNCHANGED pending

LEMMA TableStepTrails ==
  ASSUME KadInv, NEW s \in Seq(Event), TableStep, UNCHANGED mirror,
         NEW x \in Peers, Trails(table[x], pending, s, mirror[x], x)
  PROVE  Trails(table'[x], pending', s, mirror'[x], x)
<1>1. CASE UNCHANGED <<table, pending>>
  BY <1>1
<1>2. ASSUME NEW p \in Peers, NEW a \in Addrs, NEW fits \in BOOLEAN,
             table' = Added(p, a, fits),
             pending' = pending \o AddedEvents(p, a, fits)
      PROVE  Trails(table'[x], pending', s, mirror'[x], x)
  BY <1>2, AddedAnnounced
<1>3. ASSUME NEW p \in Peers, NEW a \in Addrs, table' = Removed(p, a),
             UNCHANGED pending
      PROVE  Trails(table'[x], pending', s, mirror'[x], x)
  <2>1. table'[x] \subseteq table[x]
    BY <1>3 DEF KadInv, Removed
  <2>2. QED
    BY <1>3, <2>1, TrailsLess
<1>4. QED
  BY <1>1, <1>2, <1>3 DEF TableStep

\* The news stay complete.
LEMMA NewsStep ==
  ASSUME Inv, NewsInv, [Next]_vars
  PROVE  NewsInv'
<1> DEFINE s == unread[KadTask]
<1>1. /\ KadTask \in Receivers /\ s \in Seq(Event) /\ KadInv /\ ChannelInv
      /\ unread \in [Receivers -> Seq(Event)] /\ KadTask \in subs
      /\ pending \in Seq(Event) /\ mirror \in [Peers -> SUBSET Addrs]
      /\ KadTask \notin lagged
  BY DEF Inv, ChannelInv, KadInv, NewsInv, Receivers
<1>2. ASSUME NEW x \in Peers
      PROVE  Trails(table[x], pending, s, mirror[x], x)
  BY MirroredPointwise DEF NewsInv
<1>3. KadTask \in subs'
  BY <1>1, StepOfChannel, CallersAssumption
     DEF ChannelStep, Subscribe, Unsubscribe, Received
<1>4. SUFFICES ASSUME NEW x \in Peers
               PROVE  Trails(table'[x], pending', unread'[KadTask], mirror'[x], x)
  <2>1. TableIsMirrored'
    BY <1>4 DEF TableIsMirrored, Trails
  <2>2. QED
    BY <1>3, <2>1 DEF NewsInv
<1>5. ASSUME TableStep, unread'[KadTask] = s, UNCHANGED mirror
      PROVE  Trails(table'[x], pending', unread'[KadTask], mirror'[x], x)
  BY <1>1, <1>2, <1>5, TableStepTrails
<1>6. ASSUME NEW e \in Event, Publish(e), Room
      PROVE  unread'[KadTask] = Append(s, e)
  <2>1. unread' = [r \in Receivers |->
                     IF r \in subs THEN Append(unread[r], e) ELSE unread[r]]
    BY <1>1, <1>6, PublishAppends
  <2>2. QED
    BY <1>1, <2>1
<1>7. ASSUME NEW c \in Callers,
             \/ \E op \in Does[c] : Start(c, op)
             \/ Send(c) \/ Listen(c) \/ SetModeTimeout(c)
      PROVE  Trails(table'[x], pending', unread'[KadTask], mirror'[x], x)
  <2>1. c # KadTask
    BY CallersAssumption
  <2>2. UNCHANGED <<table, pending, mirror>>
    BY <1>7 DEF Start, Send, Listen, SetModeTimeout
  <2>3. \/ unread' = unread
        \/ unread' = [unread EXCEPT ![c] = <<>>]
        \/ unread' = [unread EXCEPT ![c] = Tail(@)]
    BY <1>7 DEF Start, Send, Listen, SetModeTimeout, Subscribe, Unsubscribe,
       Received
  <2>4. unread'[KadTask] = s
    BY <1>1, <2>1, <2>3
  <2>5. QED
    BY <1>5, <2>2, <2>4 DEF TableStep
<1>8. ASSUME NEW e \in Event, pending' = Append(pending, e), ~ About(x, e),
             UNCHANGED <<table, mirror, unread>>
      PROVE  Trails(table'[x], pending', unread'[KadTask], mirror'[x], x)
  BY <1>1, <1>2, <1>8, TrailsOther
<1>9. ASSUME NEW c \in Callers, Command(c)
      PROVE  Trails(table'[x], pending', unread'[KadTask], mirror'[x], x)
  <2>1. UNCHANGED <<unread, mirror>>
    BY <1>9 DEF Command, SwarmOpExec, MdnsOpExec, AutonatOpExec, PeerLookup,
       BootStrap, InsertNode, SetMode, Take
  <2>2. CASE SwarmOpExec(c) \/ MdnsOpExec(c) \/ AutonatOpExec(c)
             \/ PeerLookup(c) \/ BootStrap(c)
    <3>1. UNCHANGED <<table, pending>>
      BY <2>2 DEF SwarmOpExec, MdnsOpExec, AutonatOpExec, PeerLookup, BootStrap
    <3>2. QED
      BY <1>5, <2>1, <3>1 DEF TableStep
  <2>3. ASSUME NEW p \in Peers, NEW a \in Addrs, NEW fits \in BOOLEAN,
               InsertNode(c, p, a, fits)
        PROVE  TableStep
    BY <2>3 DEF InsertNode, TableStep
  <2>4. ASSUME NEW announced \in BOOLEAN, SetMode(c, announced)
        PROVE  Trails(table'[x], pending', unread'[KadTask], mirror'[x], x)
    <3> DEFINE e == [kind |-> "ModeChanged"]
    <3>1. e \in Event /\ ~ About(x, e)
      BY EventTypes DEF About
    <3>2. /\ pending' = Append(pending, e) \/ UNCHANGED pending
          /\ UNCHANGED table
      BY <2>4 DEF SetMode
    <3>3. QED
      BY <1>5, <1>8, <2>1, <3>1, <3>2 DEF TableStep
  <2>5. QED
    BY <1>5, <1>9, <2>1, <2>2, <2>3, <2>4 DEF Command
<1>10. CASE Mirror
  <2>1. /\ mirror' = Applied(Head(s)) /\ unread' = [unread EXCEPT ![KadTask] = Tail(@)]
        /\ s # <<>> /\ UNCHANGED <<table, pending>>
    BY <1>1, <1>10 DEF Mirror, Received
  <2>2. Head(s) \in Event
    BY <1>1, <2>1
  <2>3. unread'[KadTask] = Tail(s)
    BY <1>1, <2>1
  <2>4. mirror'[x] = IF About(x, Head(s)) THEN Head(s).addrs ELSE mirror[x]
    BY <1>1, <2>1, <2>2, EventFields DEF Applied, About
  <2>5. Trails(table[x], pending, s, mirror[x], x)
    BY <1>2
  <2>6. QED
    BY <1>1, <2>1, <2>3, <2>4, <2>5, TrailsApplied
<1>11. CASE KadEvent
  <2>1. /\ pending # <<>> /\ Room /\ Publish(Head(pending))
        /\ pending' = Tail(pending) /\ UNCHANGED <<table, mirror>>
    BY <1>11 DEF KadEvent, PollSwarm, Inv, PollInv
  <2>2. Head(pending) \in Event
    BY <1>1, <2>1
  <2>3. unread'[KadTask] = Append(s, Head(pending))
    BY <1>6, <2>1, <2>2
  <2>4. QED
    BY <1>1, <1>2, <2>1, <2>3, TrailsPublished
<1>12. CASE Network
  <2>1. PollSwarm(Other) /\ TableStep
    BY <1>12 DEF Network, OtherSwarmEvent, ConnectionEstablished,
       ConnectionClosed, MdnsEvent, TableStep
  <2>2. unread'[KadTask] = Append(s, Other) /\ UNCHANGED mirror
    BY <1>6, <2>1, EventTypes DEF PollSwarm, Inv, PollInv
  <2>3. Trails(table[x], pending, Append(s, Other), mirror[x], x)
    <3>1. ~ About(x, Other)
      BY DEF About, Other
    <3>2. QED
      BY <1>1, <1>2, <3>1, EventTypes, TrailsOther
  <2>4. Append(s, Other) \in Seq(Event)
    BY <1>1, EventTypes
  <2>5. QED
    BY <1>1, <2>1, <2>2, <2>3, <2>4, TableStepTrails
<1>13. ASSUME NEW i \in Ids, NEW last \in BOOLEAN, KadProgress(i, last)
       PROVE  Trails(table'[x], pending', unread'[KadTask], mirror'[x], x)
  <2> DEFINE e == [kind |-> "QueryProgressed", id |-> i,
                   step |-> progress[i] + 1, last |-> last]
  <2>1. progress[i] + 1 \in 1 .. MaxSteps
    BY <1>1, <1>13, SwarmBoundsAssumption DEF KadProgress, KadInv
  <2>2. e \in Event
    BY <2>1, EventTypes
  <2>3. ~ About(x, e)
    BY DEF About
  <2>4. pending' = Append(pending, e) /\ UNCHANGED <<table, mirror, unread>>
    BY <1>13 DEF KadProgress
  <2>5. QED
    BY <1>8, <2>2, <2>3, <2>4
<1>14. CASE Timer \/ UNCHANGED vars
  BY <1>5, <1>14 DEF vars, Timer, TableStep
<1>15. QED
  BY <1>7, <1>9, <1>10, <1>11, <1>12, <1>13, <1>14 DEF Next

-----------------------------------------------------------------------------
(* Results of queries. *)

ResultOf(e, i) == e.kind = "QueryProgressed" /\ e.id = i

(* got, the events s in the channel and the events q of kad are the first P *)
(* steps of query i.                                                        *)
Gathered(got, i, s, q, P) ==
  /\ \A n \in 1 .. Len(got) : got[n] = n
  /\ \E k \in Len(got) .. P : Brings(s, i, Len(got), k) /\ Brings(q, i, k, P)

(* All results in s are of the first N queries.                             *)
Asked(s, N) == \A n \in DOMAIN s : s[n].kind = "QueryProgressed" => s[n].id <= N

(* Nothing is heard of a query that was not made yet.                       *)
EventsInv ==
  /\ Asked(pending, queries)
  /\ \A r \in Receivers : Asked(unread[r], queries)
  /\ open \subseteq 1 .. queries

(* A caller that will listen is subscribed before its command is sent.      *)
Listener(c) ==
  /\ Listens(call[c].op) /\ call[c].phase \in {"sending", "waiting", "listening"}
       => c \in subs
  /\ call[c].phase # "listening" => call[c].got = <<>>
  /\ call[c].phase = "listening" /\ call[c].op = "PeerLookup" =>
       /\ call[c].id \in 1 .. queries
       /\ Gathered(call[c].got, call[c].id, unread[c], pending, progress[call[c].id])

ResultInv == EventsInv /\ \A c \in Callers : Listener(c)

\* Which places of a longer sequence hold a result.
LEMMA ResultsAdded ==
  ASSUME NEW s \in Seq(Event), NEW e \in Event, NEW i
  PROVE  /\ Append(s, e)[Len(s) + 1] = e
         /\ \A n \in Results(s, i) : n < Len(s) + 1 /\ Append(s, e)[n] = s[n]
         /\ Results(Append(s, e), i) = Results(s, i) \cup
              (IF ResultOf(e, i) THEN {Len(s) + 1} ELSE {})
<1> DEFINE z == Append(s, e)
           N == Len(s) + 1
<1>1. /\ N \in DOMAIN z /\ z[N] = e
      /\ \A n \in DOMAIN z : n # N => n \in DOMAIN s /\ z[n] = s[n]
      /\ \A n \in DOMAIN s : n < N /\ n \in DOMAIN z /\ z[n] = s[n]
  OBVIOUS
<1> HIDE DEF z, N
<1>2. /\ z[N] = e
      /\ \A n \in Results(s, i) : n < N /\ z[n] = s[n]
      /\ Results(z, i) = Results(s, i) \cup (IF ResultOf(e, i) THEN {N} ELSE {})
  BY <1>1 DEF Results, ResultOf
<1>3. QED
  BY <1>2 DEF z, N

\* No results, no steps.
LEMMA BringsNothing ==
  ASSUME NEW s, NEW i, NEW k \in Nat, Results(s, i) = {}
  PROVE  Brings(s, i, k, k)
  BY DEF Brings

\* An event of something else is added.
LEMMA BringsOther ==
  ASSUME NEW s \in Seq(Event), NEW e \in Event, NEW i, NEW lo, NEW hi,
         ~ ResultOf(e, i), Brings(s, i, lo, hi)
  PROVE  Brings(Append(s, e), i, lo, hi)
<1> DEFINE z == Append(s, e)
           N == Len(s) + 1
<1>1. /\ z[N] = e
      /\ \A n \in Results(s, i) : n < N /\ z[n] = s[n]
      /\ Results(z, i) = Results(s, i) \cup (IF ResultOf(e, i) THEN {N} ELSE {})
  BY ResultsAdded
<1> HIDE DEF z, N
<1>2. Results(z, i) = Results(s, i)
  BY <1>1
<1>3. {z[n].step : n \in Results(z, i)} = {s[n].step : n \in Results(s, i)}
  BY <1>1, <1>2
<1>4. Brings(z, i, lo, hi)
  BY <1>1, <1>2, <1>3 DEF Brings
<1>5. QED
  BY <1>4 DEF z

\* The next result is added.
LEMMA BringsNext ==
  ASSUME NEW s \in Seq(Event), NEW e \in Event, NEW i, NEW lo \in Nat,
         NEW hi \in Nat, lo <= hi, ResultOf(e, i), e.step = hi + 1,
         Brings(s, i, lo, hi)
  PROVE  Brings(Append(s, e), i, lo, hi + 1)
<1> DEFINE z == Append(s, e)
           N == Len(s) + 1
<1>1. /\ z[N] = e
      /\ \A n \in Results(s, i) : n < N /\ z[n] = s[n]
      /\ Results(z, i) = Results(s, i) \cup {N}
  BY ResultsAdded
<1>2. N \in Nat /\ \A n \in Results(s, i) : n \in Nat
  BY DEF Results
<1> HIDE DEF z, N
<1>3. \A n \in Results(s, i) : s[n].step \in (lo + 1) .. hi
  BY DEF Brings
<1>4. {z[n].step : n \in Results(z, i)} = (lo + 1) .. (hi + 1)
  <2>1. {z[n].step : n \in Results(z, i)} = {s[n].step : n \in Results(s, i)} \cup {hi + 1}
    BY <1>1
  <2>2. QED
    BY <2>1, SMTT(30) DEF Brings
<1>5. ASSUME NEW m \in Results(z, i), NEW n \in Results(z, i), m < n
      PROVE  z[m].step < z[n].step
  <2>1. CASE n = N
    <3>1. m # N /\ m \in Results(s, i)
      BY <1>1, <1>2, <1>5, <2>1
    <3>2. QED
      BY <1>1, <1>3, <2>1, <3>1
  <2>2. CASE n # N
    <3>1. n \in Results(s, i) /\ m \in Results(s, i)
      BY <1>1, <1>2, <1>5, <2>2
    <3>2. QED
      BY <1>1, <1>5, <3>1 DEF Brings
  <2>3. QED
    BY <2>1, <2>2
<1>6. Brings(z, i, lo, hi + 1)
  BY <1>4, <1>5 DEF Brings
<1>7. QED
  BY <1>6 DEF z

\* The first event is taken: if it is a result, it is the one that is due.
LEMMA BringsTaken ==
  ASSUME NEW s \in Seq(Event), s # <<>>, NEW i, NEW lo \in Nat, NEW hi \in Nat,
         Brings(s, i, lo, hi)
  PROVE  IF ResultOf(Head(s), i)
         THEN /\ Head(s).step = lo + 1 /\ lo < hi
              /\ Brings(Tail(s), i, lo + 1, hi)
         ELSE Brings(Tail(s), i, lo, hi)
<1> DEFINE z == Tail(s)
           h == Head(s)
<1>1. /\ 1 \in DOMAIN s /\ s[1] = h
      /\ \A n \in DOMAIN z : /\ n \in Nat /\ n >= 1
                             /\ n + 1 \in DOMAIN s /\ z[n] = s[n + 1]
      /\ \A n \in DOMAIN s : /\ n \in Nat /\ n >= 1
                             /\ n # 1 => n - 1 \in DOMAIN z /\ z[n - 1] = s[n]
  OBVIOUS
<1> HIDE DEF z, h
<1>2. \A n \in Results(z, i) : /\ n \in Nat /\ n >= 1
                               /\ n + 1 \in Results(s, i) /\ z[n] = s[n + 1]
  BY <1>1 DEF Results
<1>3. \A n \in Results(s, i) : /\ n \in Nat /\ n >= 1
                               /\ n # 1 => n - 1 \in Results(z, i) /\ z[n - 1] = s[n]
  BY <1>1 DEF Results
<1>4. 1 \in Results(s, i) <=> ResultOf(h, i)
  BY <1>1 DEF Results, ResultOf
<1>5. ASSUME NEW m \in Results(z, i), NEW n \in Results(z, i), m < n
      PROVE  z[m].step < z[n].step
  <2>1. m + 1 < n + 1 /\ m + 1 \in Results(s, i) /\ n + 1 \in Results(s, i)
    BY <1>2, <1>5
  <2>2. s[m + 1].step < s[n + 1].step
    BY <2>1 DEF Brings
  <2>3. QED
    BY <1>2, <2>2
<1>6. /\ \A n \in Results(s, i) : s[n].step \in (lo + 1) .. hi
      /\ \A k \in (lo + 1) .. hi : \E n \in Results(s, i) : s[n].step = k
  BY DEF Brings
<1>7. CASE ~ ResultOf(h, i)
  <2>1. {z[n].step : n \in Results(z, i)} = {s[n].step : n \in Results(s, i)}
    <3>1. ASSUME NEW n \in Results(z, i)
          PROVE  z[n].step \in {s[m].step : m \in Results(s, i)}
      BY <1>2
    <3>2. ASSUME NEW n \in Results(s, i)
          PROVE  s[n].step \in {z[m].step : m \in Results(z, i)}
      <4>1. n - 1 \in Results(z, i) /\ z[n - 1] = s[n]
        BY <1>3, <1>4, <1>7
      <4>2. QED
        BY <4>1
    <3>3. QED
      BY <3>1, <3>2
  <2>2. Brings(z, i, lo, hi)
    BY <1>5, <2>1 DEF Brings
  <2>3. QED
    BY <1>7, <2>2 DEF z, h
<1>8. CASE ResultOf(h, i)
  <2>1. 1 \in Results(s, i) /\ h.step \in (lo + 1) .. hi
    BY <1>1, <1>4, <1>6, <1>8
  <2>2. ASSUME NEW n \in Results(s, i), n # 1
        PROVE  h.step < s[n].step
    <3>1. 1 < n
      BY <1>3, <2>2
    <3>2. QED
      BY <1>1, <2>1, <3>1 DEF Brings
  <2>3. h.step = lo + 1
    <3>1. PICK n \in Results(s, i) : s[n].step = lo + 1
      BY <1>6, <2>1
    <3>2. CASE n = 1
      BY <1>1, <3>1, <3>2
    <3>3. CASE n # 1
      BY <2>1, <2>2, <3>1, <3>3
    <3>4. QED
      BY <3>2, <3>3
  <2>4. ASSUME NEW n \in Results(z, i)
        PROVE  z[n].step \in (lo + 2) .. hi
    <3>1. n + 1 \in Results(s, i) /\ n + 1 # 1 /\ z[n] = s[n + 1]
      BY <1>2, <2>4
    <3>2. QED
      BY <1>6, <2>2, <2>3, <3>1
  <2>5. ASSUME NEW k \in (lo + 2) .. hi
        PROVE  k \in {z[n].step : n \in Results(z, i)}
    <3>1. PICK n \in Results(s, i) : s[n].step = k
      BY <1>6, <2>5
    <3>2. n # 1
      BY <1>1, <2>3, <3>1
    <3>3. n - 1 \in Results(z, i) /\ z[n - 1].step = k
      BY <1>3, <3>1, <3>2
    <3>4. QED
      BY <3>3
  <2>6. {z[n].step : n \in Results(z, i)} = (lo + 2) .. hi
    BY <2>4, <2>5
  <2>7. (lo + 1) + 1 = lo + 2 /\ lo < hi
    BY <2>1
  <2>8. Brings(z, i, lo + 1, hi)
    BY <1>5, <2>6, <2>7 DEF Brings
  <2>9. QED
    BY <1>8, <2>3, <2>7, <2>8 DEF z, h
<1>9. QED
  BY <1>7, <1>8

\* The first step of a query, with nothing heard of it.
LEMMA GatheredFirst ==
  ASSUME NEW i, NEW s, NEW q, Results(s, i) = {}, Results(q, i) = {}
  PROVE  Gathered(<<>>, i, s, q, 0)
<1>1. Len(<<>>) = 0
  OBVIOUS
<1>2. Brings(s, i, 0, 0) /\ Brings(q, i, 0, 0)
  BY BringsNothing
<1>3. QED
  BY <1>1, <1>2 DEF Gathered

\* An event of something else is added on either side.
LEMMA GatheredOther ==
  ASSUME NEW got, NEW i, NEW s \in Seq(Event), NEW q \in Seq(Event), NEW P,
         NEW e \in Event, ~ ResultOf(e, i), Gathered(got, i, s, q, P)
  PROVE  /\ Gathered(got, i, Append(s, e), q, P)
         /\ Gathered(got, i, s, Append(q, e), P)
  BY BringsOther DEF Gathered

\* kad queues the next result.
LEMMA GatheredNext ==
  ASSUME NEW got \in Seq(1 .. MaxSteps), NEW i, NEW s, NEW q \in Seq(Event),
         NEW P \in Nat, NEW e \in Event, ResultOf(e, i), e.step = P + 1,
         Gathered(got, i, s, q, P)
  PROVE  Gathered(got, i, s, Append(q, e), P + 1)
<1>1. PICK k \in Len(got) .. P : Brings(s, i, Len(got), k) /\ Brings(q, i, k, P)
  BY DEF Gathered
<1>2. k \in Nat /\ k <= P /\ k \in Len(got) .. (P + 1)
  BY <1>1
<1>3. Brings(Append(q, e), i, k, P + 1)
  BY <1>1, <1>2, BringsNext
<1>4. QED
  BY <1>1, <1>2, <1>3 DEF Gathered

\* The loop publishes the next event of kad.
LEMMA GatheredPublished ==
  ASSUME NEW got \in Seq(1 .. MaxSteps), NEW i, NEW s \in Seq(Event),
         NEW q \in Seq(Event), q # <<>>, NEW P \in Nat, Gathered(got, i, s, q, P)
  PROVE  Gathered(got, i, Append(s, Head(q)), Tail(q), P)
<1> DEFINE e == Head(q)
<1>1. PICK k \in Len(got) .. P : Brings(s, i, Len(got), k) /\ Brings(q, i, k, P)
  BY DEF Gathered
<1>2. k \in Nat /\ Len(got) \in Nat /\ Len(got) <= k /\ k <= P /\ e \in Event
  BY <1>1
<1>3. IF ResultOf(e, i)
      THEN e.step = k + 1 /\ k < P /\ Brings(Tail(q), i, k + 1, P)
      ELSE Brings(Tail(q), i, k, P)
  BY <1>1, <1>2, BringsTaken
<1> HIDE DEF e
<1>4. CASE ResultOf(e, i)
  <2>1. Brings(Append(s, e), i, Len(got), k + 1)
    BY <1>1, <1>2, <1>3, <1>4, BringsNext
  <2>2. k + 1 \in Len(got) .. P
    BY <1>2, <1>3, <1>4
  <2>3. QED
    BY <1>3, <1>4, <2>1, <2>2 DEF Gathered, e
<1>5. CASE ~ ResultOf(e, i)
  <2>1. Brings(Append(s, e), i, Len(got), k)
    BY <1>1, <1>2, <1>5, BringsOther
  <2>2. QED
    BY <1>1, <1>3, <1>5, <2>1 DEF Gathered, e
<1>6. QED
  BY <1>4, <1>5

\* The caller receives the next event of the channel.
LEMMA GatheredHeard ==
  ASSUME NEW got \in Seq(1 .. MaxSteps), NEW i, NEW s \in Seq(Event), s # <<>>,
         NEW q, NEW P \in Nat, Gathered(got, i, s, q, P)
  PROVE  IF ResultOf(Head(s), i)
         THEN Gathered(Append(got, Head(s).step), i, Tail(s), q, P)
         ELSE Gathered(got, i, Tail(s), q, P)
<1> DEFINE e == Head(s)
           G == Append(got, e.step)
<1>1. PICK k \in Len(got) .. P : Brings(s, i, Len(got), k) /\ Brings(q, i, k, P)
  BY DEF Gathered
<1>2. k \in Nat /\ Len(got) \in Nat /\ Len(got) <= k /\ k <= P /\ e \in Event
  BY <1>1
<1>3. IF ResultOf(e, i)
      THEN /\ e.step = Len(got) + 1 /\ Len(got) < k
           /\ Brings(Tail(s), i, Len(got) + 1, k)
      ELSE Brings(Tail(s), i, Len(got), k)
  BY <1>1, <1>2, BringsTaken
<1>4. e.kind = "QueryProgressed" => e.step \in 1 .. MaxSteps
  BY <1>2, EventFields
<1> HIDE DEF e
<1>5. CASE ResultOf(e, i)
  <2>1. e.step \in 1 .. MaxSteps
    BY <1>4, <1>5 DEF ResultOf
  <2>2. /\ Len(G) = Len(got) + 1
        /\ \A n \in 1 .. Len(G) : G[n] = IF n <= Len(got) THEN got[n] ELSE e.step
    BY <2>1
  <2>3. ASSUME NEW n \in 1 .. Len(G)
        PROVE  G[n] = n
    BY <1>2, <1>3, <1>5, <2>2 DEF Gathered
  <2> HIDE DEF G
  <2>4. k \in Len(G) .. P
    BY <1>2, <1>3, <1>5, <2>2
  <2>5. Gathered(G, i, Tail(s), q, P)
    BY <1>1, <1>3, <1>5, <2>2, <2>3, <2>4 DEF Gathered
  <2>6. QED
    BY <1>5, <2>5 DEF G, e
<1>6. CASE ~ ResultOf(e, i)
  <2>1. Gathered(got, i, Tail(s), q, P)
    BY <1>1, <1>3, <1>6 DEF Gathered
  <2>2. QED
    BY <1>6, <2>1 DEF e
<1>7. QED
  BY <1>5, <1>6

\* Ids of queries are within the bound.
LEMMA QueriesBound ==
  ASSUME Inv
  PROVE  queries \in Nat /\ 1 .. queries \subseteq Ids
<1>1. Cardinality(Asking) \in Nat
  BY FS_CardinalityType DEF Inv, CountInv
<1>2. QED
  BY <1>1, SwarmBoundsAssumption DEF Inv, CountInv, Ids

(* What a step may do to a queue of events.                                 *)
Plain(e)    == e.kind # "QueryProgressed"
Fresh(e)    == e.kind = "QueryProgressed" => e.id \in 1 .. queries
Moves(s, z) == \/ z = s \/ z = <<>>
               \/ s # <<>> /\ z = Tail(s)
               \/ \E e \in Event : Fresh(e) /\ z = Append(s, e)
Quiet(s, z) == z = s \/ \E e \in Event : Plain(e) /\ z = Append(s, e)

LEMMA QuietMoves ==
  ASSUME NEW s, NEW z, Quiet(s, z)
  PROVE  Moves(s, z)
  BY DEF Quiet, Moves, Plain, Fresh

\* A queue still has results of queries that were made only.
LEMMA AskedKept ==
  ASSUME NEW s \in Seq(Event), queries \in Nat, Asked(s, queries), NEW z, Moves(s, z),
         NEW M \in Nat, queries <= M
  PROVE  Asked(z, M)
<1> DEFINE ok(e) == e.kind = "QueryProgressed" => e.id <= M
<1>1. ASSUME NEW e \in Event, e.kind = "QueryProgressed" => e.id <= queries
      PROVE  ok(e)
  <2>1. e.kind = "QueryProgressed" => e.id \in Nat
    BY <1>1, EventFields DEF Ids
  <2>2. QED
    BY <1>1, <2>1
<1>2. \A n \in DOMAIN s : ok(s[n])
  BY <1>1 DEF Asked
<1>3. CASE z = s \/ z = <<>>
  BY <1>2, <1>3 DEF Asked
<1>4. CASE s # <<>> /\ z = Tail(s)
  <2>1. \A n \in DOMAIN z : n + 1 \in DOMAIN s /\ z[n] = s[n + 1]
    BY <1>4
  <2>2. QED
    BY <1>2, <2>1 DEF Asked
<1>5. ASSUME NEW e \in Event, Fresh(e), z = Append(s, e)
      PROVE  Asked(z, M)
  <2>1. ok(e)
    BY <1>1, <1>5 DEF Fresh
  <2>2. \A n \in DOMAIN z : z[n] = e \/ (n \in DOMAIN s /\ z[n] = s[n])
    BY <1>5
  <2>3. QED
    BY <1>2, <2>1, <2>2 DEF Asked
<1>6. QED
  BY <1>3, <1>4, <1>5 DEF Moves

LEMMA EventsKept ==
  ASSUME Inv, EventsInv, Moves(pending, pending'),
         \A r \in Receivers : Moves(unread[r], unread'[r]),
         queries' \in Nat, queries <= queries', open' \subseteq 1 .. queries'
  PROVE  EventsInv'
<1>1. pending \in Seq(Event) /\ \A r \in Receivers : unread[r] \in Seq(Event)
  BY DEF Inv, KadInv, ChannelInv
<1>2. queries \in Nat
  BY QueriesBound
<1>3. Asked(pending', queries')
  BY <1>1, <1>2, AskedKept DEF EventsInv
<1>4. ASSUME NEW r \in Receivers
      PROVE  Asked(unread'[r], queries')
  BY <1>1, <1>2, AskedKept DEF EventsInv
<1>5. QED
  BY <1>3, <1>4 DEF EventsInv

\* A caller about whom nothing changes but events that are no results.
LEMMA ListenerSame ==
  ASSUME Inv, NEW d \in Callers, Listener(d), call'[d] = call[d],
         d \in subs => d \in subs', Quiet(unread[d], unread'[d]),
         Quiet(pending, pending'), queries' \in Nat, queries <= queries',
         \A i \in 1 .. queries : progress'[i] = progress[i]
  PROVE  Listener(d)'
<1> DEFINE r == call[d]
<1>1. CASE r.phase = "listening" /\ r.op = "PeerLookup"
  <2> DEFINE i == r.id
             s == unread[d]
             P == progress[i]
  <2>1. i \in 1 .. queries /\ Gathered(r.got, i, s, pending, P)
    BY <1>1 DEF Listener
  <2>2. s \in Seq(Event) /\ pending \in Seq(Event)
    BY DEF Inv, ChannelInv, KadInv, Receivers
  <2>3. progress'[i] = P /\ i \in 1 .. queries'
    BY <2>1, QueriesBound
  <2>4. \A e : Plain(e) => ~ ResultOf(e, i)
    BY DEF Plain, ResultOf
  <2> HIDE DEF i, P, s, r
  <2>5. Gathered(r.got, i, unread'[d], pending, P)
    <3>1. CASE unread'[d] = s
      BY <2>1, <3>1
    <3>2. CASE \E e \in Event : Plain(e) /\ unread'[d] = Append(s, e)
      BY <2>1, <2>2, <2>4, <3>2, GatheredOther
    <3>3. QED
      BY <3>1, <3>2 DEF Quiet, s
  <2>6. unread'[d] \in Seq(Event)
    <3>1. \A e \in Event : Append(s, e) \in Seq(Event)
      BY <2>2
    <3>2. QED
      BY <2>2, <3>1 DEF Quiet, s
  <2>7. Gathered(r.got, i, unread'[d], pending', P)
    <3>1. CASE pending' = pending
      BY <2>5, <3>1
    <3>2. CASE \E e \in Event : Plain(e) /\ pending' = Append(pending, e)
      BY <2>2, <2>4, <2>5, <2>6, <3>2, GatheredOther
    <3>3. QED
      BY <3>1, <3>2 DEF Quiet
  <2>8. QED
    BY <1>1, <2>3, <2>7 DEF Listener, r, i, P
<1>2. CASE ~ (r.phase = "listening" /\ r.op = "PeerLookup")
  BY <1>2 DEF Listener
<1>3. QED
  BY <1>1, <1>2

\* A caller that does not listen for results.
LEMMA ListenerElse ==
  ASSUME NEW d \in Callers,
         ~ (call'[d].phase = "listening" /\ call'[d].op = "PeerLookup"),
         call'[d].phase # "listening" => call'[d].got = <<>>,
         Listens(call'[d].op) /\ call'[d].phase \in {"sending", "waiting", "listening"}
           => d \in subs'
  PROVE  Listener(d)'
  BY DEF Listener

\* add_address announces no result.
LEMMA AddedQuiet ==
  ASSUME KadInv, NEW p \in Peers, NEW a \in Addrs, NEW fits \in BOOLEAN
  PROVE  Quiet(pending, pending \o AddedEvents(p, a, fits))
<1> DEFINE N == Added(p, a, fits)
           e == RoutingUpdated(p, N[p])
<1>1. table \in [Peers -> SUBSET Addrs] /\ pending \in Seq(Event)
  BY DEF KadInv
<1>2. N \in [Peers -> SUBSET Addrs]
  BY <1>1 DEF Added
<1>3. AddedEvents(p, a, fits) = IF N = table THEN <<>> ELSE <<e>>
  BY DEF AddedEvents
<1>4. e \in Event /\ Plain(e)
  BY <1>2, EventTypes DEF RoutingUpdated, Plain
<1> HIDE DEF N, e
<1>5. pending \o <<>> = pending /\ pending \o <<e>> = Append(pending, e)
  BY <1>1, <1>4
<1>6. QED
  BY <1>3, <1>4, <1>5 DEF Quiet

LEMMA TableStepQuiet ==
  ASSUME KadInv, TableStep
  PROVE  Quiet(pending, pending')
  BY AddedQuiet DEF TableStep, Quiet

\* What publishing does for a receiver.
LEMMA PublishedTo ==
  ASSUME ChannelInv, Room, NEW e \in Event, Publish(e), NEW r \in Receivers
  PROVE  unread'[r] = IF r \in subs THEN Append(unread[r], e) ELSE unread[r]
<1>1. unread' = [x \in Receivers |->
                   IF x \in subs THEN Append(unread[x], e) ELSE unread[x]]
  BY PublishAppends
<1>2. QED
  BY <1>1

\* A call starts: query and set_mode subscribe first.
LEMMA ResultsStart ==
  ASSUME Inv, ResultInv, NEW c \in Callers, NEW op, Start(c, op)
  PROVE  ResultInv'
<1> DEFINE r == [Idle EXCEPT !.phase = "sending", !.op = op]
<1>1. /\ call' = [call EXCEPT ![c] = r]
      /\ UNCHANGED <<pending, progress, open, queries, unread>>
      /\ subs \subseteq subs' /\ (Listens(op) => c \in subs')
  BY DEF Start, Subscribe
<1>2. r.phase = "sending" /\ r.op = op /\ r.got = <<>>
  BY DEF Idle
<1>3. call \in [Callers -> Call] /\ queries \in Nat
  BY QueriesBound DEF Inv, CommandInv, CommandType
<1> HIDE DEF r
<1>4. EventsInv'
  BY <1>1, <1>3, EventsKept DEF ResultInv, EventsInv, Moves
<1>5. ASSUME NEW d \in Callers
      PROVE  Listener(d)'
  <2>1. CASE d = c
    BY <1>1, <1>2, <1>3, <2>1, ListenerElse
  <2>2. CASE d # c
    <3>1. call'[d] = call[d]
      BY <1>1, <1>3, <2>2
    <3>2. QED
      BY <1>1, <1>3, <3>1, ListenerSame DEF ResultInv, Quiet
  <2>3. QED
    BY <2>1, <2>2
<1>6. QED
  BY <1>4, <1>5 DEF ResultInv

\* A caller stops listening or stays out of it; the others notice nothing.
LEMMA ResultsElse ==
  ASSUME Inv, ResultInv, NEW c \in Callers, NEW r \in Call,
         call' = [call EXCEPT ![c] = r],
         ~ (r.phase = "listening" /\ r.op = "PeerLookup"),
         r.phase # "listening" => r.got = <<>>,
         Listens(r.op) /\ r.phase \in {"sending", "waiting", "listening"}
           => c \in subs',
         \A d \in Callers \ {c} : /\ d \in subs => d \in subs'
                                  /\ unread'[d] = unread[d],
         Quiet(pending, pending'), queries' \in Nat, queries <= queries',
         \A i \in 1 .. queries : progress'[i] = progress[i]
  PROVE  \A d \in Callers : Listener(d)'
<1>1. call \in [Callers -> Call]
  BY DEF Inv, CommandInv, CommandType
<1> SUFFICES ASSUME NEW d \in Callers
             PROVE  Listener(d)'
  OBVIOUS
<1>2. CASE d = c
  BY <1>1, <1>2, ListenerElse
<1>3. CASE d # c
  <2>1. call'[d] = call[d]
    BY <1>1, <1>3
  <2>2. Quiet(unread[d], unread'[d])
    BY <1>3 DEF Quiet
  <2>3. QED
    BY <1>3, <2>1, <2>2, ListenerSame DEF ResultInv
<1>4. QED
  BY <1>2, <1>3

\* An idle caller meets what ResultsElse asks for.
LEMMA IdleElse ==
  /\ Idle \in Call /\ Idle.phase = "idle" /\ Idle.got = <<>>
  BY IdleType DEF Idle

\* The command is sent; only set_mode listens at once.
LEMMA ResultsSend ==
  ASSUME Inv, ResultInv, NEW c \in Callers, Send(c)
  PROVE  ResultInv'
<1> DEFINE W == [call[c] EXCEPT !.phase = "waiting"]
           L == [call[c] EXCEPT !.phase = "listening"]
<1>1. call \in [Callers -> Call] /\ queries \in Nat /\ call[c] \in Call
  BY QueriesBound DEF Inv, CommandInv, CommandType
<1>2. /\ UNCHANGED <<pending, progress, open, queries, unread, subs>>
      /\ call[c].phase = "sending"
  BY DEF Send
<1>3. call[c].got = <<>> /\ (Listens(call[c].op) => c \in subs)
  BY <1>2 DEF ResultInv, Listener
<1>4. /\ W \in Call /\ W.phase = "waiting" /\ W.op = call[c].op /\ W.got = <<>>
      /\ L \in Call /\ L.phase = "listening" /\ L.op = call[c].op
  BY <1>1, <1>3 DEF Call
<1>5. \/ call' = [call EXCEPT ![c] = Idle]
      \/ call' = [call EXCEPT ![c] = L] /\ call[c].op = "SetMode"
      \/ call' = [call EXCEPT ![c] = W]
  BY <1>1 DEF Send, Return
<1> HIDE DEF W, L
<1>6. EventsInv'
  BY <1>1, <1>2, EventsKept DEF ResultInv, EventsInv, Moves
<1>7. Quiet(pending, pending') /\ queries <= queries'
  BY <1>1, <1>2 DEF Quiet
<1>8. CASE call' = [call EXCEPT ![c] = Idle]
  BY <1>1, <1>2, <1>6, <1>7, <1>8, IdleElse, ResultsElse DEF ResultInv
<1>9. CASE call' = [call EXCEPT ![c] = L] /\ call[c].op = "SetMode"
  <2>1. \A d \in Callers : Listener(d)'
    BY <1>1, <1>2, <1>3, <1>4, <1>7, <1>9, ResultsElse
  <2>2. QED
    BY <1>6, <2>1 DEF ResultInv
<1>10. CASE call' = [call EXCEPT ![c] = W]
  <2>1. \A d \in Callers : Listener(d)'
    BY <1>1, <1>2, <1>3, <1>4, <1>7, <1>10, ResultsElse
  <2>2. QED
    BY <1>6, <2>1 DEF ResultInv
<1>11. QED
  BY <1>5, <1>8, <1>9, <1>10

\* A caller goes and its receiver with it.
LEMMA ResultsGone ==
  ASSUME Inv, ResultInv, NEW c \in Callers, Return(c), Unsubscribe(c),
         UNCHANGED <<pending, progress, open, queries>>
  PROVE  ResultInv'
<1>1. /\ unread \in [Receivers -> Seq(Event)] /\ c \in Receivers /\ queries \in Nat
      /\ Callers \subseteq Receivers
  BY QueriesBound DEF Inv, ChannelInv, Receivers
<1>2. \A r \in Receivers : unread'[r] = IF r = c THEN <<>> ELSE unread[r]
  BY <1>1 DEF Unsubscribe
<1>3. EventsInv'
  BY <1>1, <1>2, EventsKept DEF ResultInv, EventsInv, Moves
<1>4. /\ Quiet(pending, pending') /\ queries <= queries' /\ queries' \in Nat
      /\ call' = [call EXCEPT ![c] = Idle]
      /\ \A i \in 1 .. queries : progress'[i] = progress[i]
  BY <1>1 DEF Quiet, Return
<1>5. \A d \in Callers \ {c} : /\ d \in subs => d \in subs'
                               /\ unread'[d] = unread[d]
  BY <1>1, <1>2 DEF Unsubscribe
<1>6. \A d \in Callers : Listener(d)'
  BY <1>4, <1>5, IdleElse, ResultsElse
<1>7. QED
  BY <1>3, <1>6 DEF ResultInv

\* A caller listens: a result of its query is the one that is due.
LEMMA ResultsListen ==
  ASSUME Inv, ResultInv, NEW c \in Callers, Listen(c)
  PROVE  ResultInv'
<1> DEFINE s == unread[c]
           e == Head(s)
           r == call[c]
           G == [r EXCEPT !.got = Append(@, e.step)]
<1>1. /\ unread \in [Receivers -> Seq(Event)] /\ c \in Receivers /\ queries \in Nat
      /\ call \in [Callers -> Call] /\ c \notin lagged /\ Callers \subseteq Receivers
      /\ pending \in Seq(Event) /\ progress \in [Ids -> 0 .. MaxSteps]
  BY QueriesBound DEF Inv, ChannelInv, Receivers, CommandInv, CommandType, KadInv
<1>2. /\ r.phase = "listening" /\ s # <<>> /\ s \in Seq(Event) /\ r \in Call
      /\ UNCHANGED <<pending, progress, open, queries>>
  BY <1>1 DEF Listen
<1>3. e \in Event
  BY <1>2
<1>4. CASE Ends(c, e)
  BY <1>1, <1>2, <1>4, ResultsGone DEF Listen
<1>5. CASE ~ Ends(c, e)
  <2>1. /\ call' = IF Mine(c, e) THEN [call EXCEPT ![c].got = Append(@, e.step)] ELSE call
        /\ Received(c)
    BY <1>1, <1>5 DEF Listen
  <2>2. unread' = [unread EXCEPT ![c] = Tail(@)] /\ subs' = subs
    BY <2>1 DEF Received
  <2>3. \A x \in Receivers : unread'[x] = IF x = c THEN Tail(s) ELSE unread[x]
    BY <1>1, <2>2
  <2>4. EventsInv'
    <3>1. \A x \in Receivers : Moves(unread[x], unread'[x])
      BY <1>2, <2>3 DEF Moves
    <3>2. Moves(pending, pending') /\ open' \subseteq 1 .. queries'
      BY <1>2 DEF Moves, ResultInv, EventsInv
    <3>3. QED
      BY <1>1, <1>2, <3>1, <3>2, EventsKept DEF ResultInv
  <2>5. call' = IF Mine(c, e) THEN [call EXCEPT ![c] = G] ELSE call
    BY <1>1, <2>1
  <2>6. /\ G.phase = r.phase /\ G.op = r.op /\ G.id = r.id
        /\ G.got = Append(r.got, e.step)
    BY <1>2 DEF Call
  <2>7. \A d \in Callers : d # c => call'[d] = call[d]
    BY <1>1, <2>5
  <2>8. call'[c] = IF Mine(c, e) THEN G ELSE r
    BY <1>1, <2>5
  <2>9. Mine(c, e) <=> (r.op = "PeerLookup" /\ ResultOf(e, r.id))
    BY DEF Mine, ResultOf
  <2>10. Listener(c) /\ r.got \in Seq(1 .. MaxSteps)
    BY <1>2 DEF ResultInv, Call
  <2> HIDE DEF G, r, e, s
  <2>11. Listener(c)'
    <3>1. CASE r.op = "PeerLookup"
      <4> DEFINE P == progress[r.id]
      <4>1. /\ r.id \in 1 .. queries /\ c \in subs
            /\ Gathered(r.got, r.id, s, pending, P)
        BY <1>2, <2>10, <3>1 DEF Listener, r, s, Listens
      <4>2. P \in Nat
        BY <1>1, <4>1, QueriesBound
      <4>3. IF ResultOf(e, r.id)
            THEN Gathered(Append(r.got, e.step), r.id, Tail(s), pending, P)
            ELSE Gathered(r.got, r.id, Tail(s), pending, P)
        BY <1>1, <1>2, <2>10, <4>1, <4>2, GatheredHeard DEF e
      <4>4. /\ unread'[c] = Tail(s) /\ call'[c].id = r.id /\ call'[c].phase = "listening"
            /\ call'[c].got = IF ResultOf(e, r.id) THEN Append(r.got, e.step) ELSE r.got
        BY <1>1, <1>2, <2>3, <2>6, <2>8, <2>9, <3>1
      <4>5. Gathered(call'[c].got, r.id, Tail(s), pending, P)
        BY <4>3, <4>4
      <4>6. QED
        BY <1>2, <2>2, <4>1, <4>4, <4>5 DEF Listener
    <3>2. CASE r.op # "PeerLookup"
      <4>1. call'[c] = r
        BY <2>8, <2>9, <3>2
      <4>2. Listens(r.op) => c \in subs
        BY <1>2, <2>10 DEF Listener, r
      <4>3. QED
        BY <1>2, <2>2, <3>2, <4>1, <4>2 DEF Listener
    <3>3. QED
      BY <3>1, <3>2
  <2>12. ASSUME NEW d \in Callers, d # c
         PROVE  Listener(d)'
    <3>1. /\ call'[d] = call[d] /\ Quiet(unread[d], unread'[d])
          /\ Quiet(pending, pending')
      BY <1>1, <1>2, <2>3, <2>7, <2>12 DEF Quiet
    <3>2. QED
      BY <1>1, <1>2, <2>2, <3>1, ListenerSame DEF ResultInv
  <2>13. QED
    BY <2>4, <2>11, <2>12 DEF ResultInv
<1>6. QED
  BY <1>4, <1>5

\* The event channel and the calls stay, or a call returns: no result is
\* touched by events that are none.
LEMMA ResultsReturned ==
  ASSUME Inv, ResultInv, NEW c \in Callers, UNCHANGED call \/ Return(c),
         UNCHANGED <<subs, unread>>, Quiet(pending, pending'),
         queries' \in Nat, queries <= queries', open' \subseteq 1 .. queries',
         \A i \in 1 .. queries : progress'[i] = progress[i]
  PROVE  ResultInv'
<1>1. EventsInv'
  <2>1. \A r \in Receivers : Moves(unread[r], unread'[r])
    BY DEF Moves
  <2>2. QED
    BY <2>1, QuietMoves, EventsKept DEF ResultInv
<1>2. \A s : Quiet(s, s)
  BY DEF Quiet
<1>3. CASE Return(c)
  <2>1. \A d \in Callers : Listener(d)'
    BY <1>3, IdleElse, ResultsElse DEF Return
  <2>2. QED
    BY <1>1, <2>1 DEF ResultInv
<1>4. CASE UNCHANGED call
  <2>1. ASSUME NEW d \in Callers
        PROVE  Listener(d)'
    BY <1>2, <1>4, ListenerSame DEF ResultInv
  <2>2. QED
    BY <1>1, <2>1 DEF ResultInv
<1>5. QED
  BY <1>3, <1>4

\* A new query: nothing was heard of it, and the others keep their steps.
LEMMA QueryFresh ==
  ASSUME Inv, ResultInv, NewQuery
  PROVE  /\ queries' = queries + 1 /\ queries' \in Nat /\ queries <= queries'
         /\ open' \subseteq 1 .. queries'
         /\ \A i \in 1 .. queries : progress'[i] = progress[i]
<1>1. queries \in Nat /\ 1 .. queries \subseteq Ids
  BY QueriesBound
<1>2. progress \in [Ids -> 0 .. MaxSteps] /\ open \subseteq 1 .. queries
  BY DEF Inv, KadInv, ResultInv, EventsInv
<1>3. QED
  BY <1>1, <1>2 DEF NewQuery

\* query gets its id: it has listened since before the command was sent.
LEMMA ResultsLookup ==
  ASSUME Inv, ResultInv, NEW c \in Callers, PeerLookup(c)
  PROVE  ResultInv'
<1> DEFINE i == queries + 1
           r == [call[c] EXCEPT !.phase = "listening", !.id = i]
<1>1. /\ queries' = i /\ queries' \in Nat /\ queries <= queries'
      /\ open' \subseteq 1 .. queries'
      /\ \A j \in 1 .. queries : progress'[j] = progress[j]
  BY QueryFresh DEF PeerLookup
<1>2. /\ i \in Ids /\ queries \in Nat /\ i \in 1 .. i /\ i > queries
  BY QueryAsked, QueriesBound
<1>3. /\ UNCHANGED <<subs, unread, pending>>
      /\ progress' = [progress EXCEPT ![i] = 0]
  BY DEF PeerLookup, Take, NewQuery
<1>4. /\ call \in [Callers -> Call] /\ call[c] \in Call
      /\ progress \in [Ids -> 0 .. MaxSteps] /\ c \in Receivers
      /\ pending \in Seq(Event) /\ unread[c] \in Seq(Event)
  BY DEF Inv, CommandInv, CommandType, KadInv, ChannelInv, Receivers
<1>5. call[c].phase = "waiting" /\ call[c].op = "PeerLookup"
  <2>1. "PeerLookup" \in Ops \ Silent
    BY DEF Ops, KadOps, Silent
  <2>2. CommandInv /\ Take(c, "PeerLookup")
    BY DEF Inv, PeerLookup
  <2>3. QED
    BY <2>1, <2>2, CommandTaken
<1>6. c \in subs /\ call[c].got = <<>>
  BY <1>5 DEF ResultInv, Listener, Listens
<1>7. call' = [call EXCEPT ![c] = r]
  BY <1>4 DEF PeerLookup
<1>8. /\ r.phase = "listening" /\ r.op = "PeerLookup" /\ r.id = i /\ r.got = <<>>
  BY <1>4, <1>5, <1>6 DEF Call
<1> HIDE DEF r
<1>9. call'[c] = r /\ progress'[i] = 0
  BY <1>2, <1>3, <1>4, <1>7
<1>10. \A s : Quiet(s, s) /\ Moves(s, s)
  BY DEF Quiet, Moves
<1>11. EventsInv'
  BY <1>1, <1>3, <1>10, EventsKept DEF ResultInv
<1>12. Listener(c)'
  <2>1. ASSUME NEW s \in Seq(Event), Asked(s, queries)
        PROVE  Results(s, i) = {}
    BY <1>2, <2>1 DEF Asked, Results
  <2>2. Results(unread[c], i) = {} /\ Results(pending, i) = {}
    BY <1>4, <2>1 DEF ResultInv, EventsInv
  <2>3. Gathered(<<>>, i, unread[c], pending, 0)
    BY <2>2, GatheredFirst
  <2>4. QED
    BY <1>1, <1>2, <1>3, <1>6, <1>8, <1>9, <2>3 DEF Listener
<1>13. ASSUME NEW d \in Callers, d # c
       PROVE  Listener(d)'
  <2>1. call'[d] = call[d]
    BY <1>4, <1>7, <1>13
  <2>2. QED
    BY <1>1, <1>3, <1>10, <2>1, ListenerSame DEF ResultInv
<1>14. QED
  BY <1>11, <1>12, <1>13 DEF ResultInv

\* A command is executed.
LEMMA ResultsCommand ==
  ASSUME Inv, ResultInv, NEW c \in Callers, Command(c)
  PROVE  ResultInv'
<1>1. /\ queries \in Nat /\ queries <= queries /\ open \subseteq 1 .. queries
      /\ KadInv /\ pending \in Seq(Event)
  BY QueriesBound DEF Inv, ResultInv, EventsInv, KadInv
<1>2. \A s : Quiet(s, s)
  BY DEF Quiet
<1>3. ASSUME Quiet(pending, pending'), UNCHANGED call \/ Return(c),
             UNCHANGED <<subs, unread, progress, open, queries>>
      PROVE  ResultInv'
  BY <1>1, <1>3, ResultsReturned
<1>4. CASE SwarmOpExec(c) \/ MdnsOpExec(c) \/ AutonatOpExec(c)
  BY <1>2, <1>3, <1>4 DEF SwarmOpExec, MdnsOpExec, AutonatOpExec, Take
<1>5. CASE BootStrap(c)
  <2>1. /\ UNCHANGED <<subs, unread, pending>> /\ Return(c)
        /\ NewQuery \/ UNCHANGED <<progress, open, queries>>
    BY <1>5 DEF BootStrap, Take
  <2>2. CASE NewQuery
    BY <1>2, <2>1, <2>2, QueryFresh, ResultsReturned
  <2>3. CASE UNCHANGED <<progress, open, queries>>
    BY <1>2, <1>3, <2>1, <2>3
  <2>4. QED
    BY <2>1, <2>2, <2>3
<1>6. ASSUME NEW p \in Peers, NEW a \in Addrs, NEW fits \in BOOLEAN,
             InsertNode(c, p, a, fits)
      PROVE  ResultInv'
  <2>1. Quiet(pending, pending')
    BY <1>1, <1>6, AddedQuiet DEF InsertNode
  <2>2. Return(c) /\ UNCHANGED <<subs, unread, progress, open, queries>>
    BY <1>6 DEF InsertNode, Take
  <2>3. QED
    BY <1>3, <2>1, <2>2
<1>7. ASSUME NEW announced \in BOOLEAN, SetMode(c, announced)
      PROVE  ResultInv'
  <2> DEFINE e == [kind |-> "ModeChanged"]
  <2>1. e \in Event /\ Plain(e)
    BY EventTypes DEF Plain
  <2>2. /\ pending' = Append(pending, e) \/ UNCHANGED pending
        /\ UNCHANGED <<call, subs, unread, progress, open, queries>>
    BY <1>7 DEF SetMode, Take
  <2>3. Quiet(pending, pending')
    BY <2>1, <2>2 DEF Quiet
  <2>4. QED
    BY <1>3, <2>2, <2>3
<1>8. QED
  BY <1>4, <1>5, <1>6, <1>7, ResultsLookup DEF Command

\* The loop publishes the next event of kad: nobody who listens misses it.
LEMMA ResultsPublished ==
  ASSUME Inv, ResultInv, KadEvent
  PROVE  ResultInv'
<1> DEFINE e == Head(pending)
<1>1. /\ pending # <<>> /\ Room /\ Publish(e) /\ pending' = Tail(pending)
      /\ UNCHANGED <<call, subs, progress, open, queries>>
  BY DEF KadEvent, PollSwarm, Inv, PollInv
<1>2. /\ pending \in Seq(Event) /\ unread \in [Receivers -> Seq(Event)]
      /\ call \in [Callers -> Call] /\ ChannelInv /\ Callers \subseteq Receivers
      /\ progress \in [Ids -> 0 .. MaxSteps]
      /\ queries \in Nat /\ 1 .. queries \subseteq Ids
  BY QueriesBound DEF Inv, KadInv, ChannelInv, CommandInv, CommandType, Receivers
<1>3. e \in Event
  BY <1>1, <1>2
<1>4. \A r \in Receivers :
        unread'[r] = IF r \in subs THEN Append(unread[r], e) ELSE unread[r]
  BY <1>1, <1>2, <1>3, PublishedTo
<1>5. EventsInv'
  <2>1. Fresh(e)
    <3>1. 1 \in DOMAIN pending /\ pending[1] = e
      BY <1>1, <1>2
    <3>2. e.kind = "QueryProgressed" => e.id <= queries /\ e.id \in Nat \ {0}
      BY <1>3, <3>1, EventFields DEF ResultInv, EventsInv, Asked, Ids
    <3>3. QED
      BY <1>2, <3>2 DEF Fresh
  <2>2. \A r \in Receivers : Moves(unread[r], unread'[r])
    BY <1>3, <1>4, <2>1 DEF Moves
  <2>3. Moves(pending, pending') /\ open' \subseteq 1 .. queries'
    BY <1>1 DEF Moves, ResultInv, EventsInv
  <2>4. QED
    BY <1>1, <1>2, <2>2, <2>3, EventsKept DEF ResultInv
<1>6. ASSUME NEW d \in Callers
      PROVE  Listener(d)'
  <2>1. CASE call[d].phase = "listening" /\ call[d].op = "PeerLookup"
    <3> DEFINE r == call[d]
               P == progress[r.id]
    <3>1. /\ d \in subs /\ r.id \in 1 .. queries
          /\ Gathered(r.got, r.id, unread[d], pending, P)
      BY <2>1 DEF ResultInv, Listener, Listens
    <3>2. /\ P \in Nat /\ unread[d] \in Seq(Event)
          /\ r.got \in Seq(1 .. MaxSteps)
      BY <1>2, <3>1 DEF Call
    <3>3. Gathered(r.got, r.id, Append(unread[d], e), Tail(pending), P)
      BY <1>1, <1>2, <3>1, <3>2, GatheredPublished
    <3>4. unread'[d] = Append(unread[d], e)
      BY <1>2, <1>4, <3>1
    <3>5. QED
      BY <1>1, <2>1, <3>1, <3>3, <3>4 DEF Listener
  <2>2. CASE ~ (call[d].phase = "listening" /\ call[d].op = "PeerLookup")
    BY <1>1, <2>2 DEF ResultInv, Listener
  <2>3. QED
    BY <2>1, <2>2
<1>7. QED
  BY <1>5, <1>6 DEF ResultInv

\* The network's events are no results.
LEMMA ResultsNetwork ==
  ASSUME Inv, ResultInv, Network
  PROVE  ResultInv'
<1>1. PollSwarm(Other) /\ TableStep
  BY DEF Network, OtherSwarmEvent, ConnectionEstablished, ConnectionClosed,
     MdnsEvent, TableStep
<1>2. /\ Room /\ Publish(Other) /\ UNCHANGED <<call, subs, progress, open, queries>>
  BY <1>1 DEF PollSwarm, Inv, PollInv
<1>3. /\ ChannelInv /\ KadInv /\ Callers \subseteq Receivers /\ queries \in Nat
  BY QueriesBound DEF Inv, Receivers
<1>4. Other \in Event /\ Plain(Other)
  BY EventTypes DEF Other, Plain
<1>5. \A r \in Receivers : Quiet(unread[r], unread'[r])
  BY <1>2, <1>3, <1>4, PublishedTo DEF Quiet
<1>6. Quiet(pending, pending')
  BY <1>1, <1>3, TableStepQuiet
<1>7. EventsInv'
  BY <1>2, <1>3, <1>5, <1>6, QuietMoves, EventsKept DEF ResultInv, EventsInv
<1>8. ASSUME NEW d \in Callers
      PROVE  Listener(d)'
  BY <1>2, <1>3, <1>5, <1>6, ListenerSame DEF ResultInv
<1>9. QED
  BY <1>7, <1>8 DEF ResultInv

\* A query makes progress: its next step is queued.
LEMMA ResultsProgress ==
  ASSUME Inv, ResultInv, NEW i \in Ids, NEW last \in BOOLEAN, KadProgress(i, last)
  PROVE  ResultInv'
<1> DEFINE n == progress[i] + 1
           e == [kind |-> "QueryProgressed", id |-> i, step |-> n, last |-> last]
<1>1. /\ i \in open /\ progress' = [progress EXCEPT ![i] = @ + 1]
      /\ open' \subseteq open
      /\ pending' = Append(pending, e)
      /\ UNCHANGED <<call, subs, unread, queries>>
  BY DEF KadProgress
<1>2. /\ pending \in Seq(Event) /\ unread \in [Receivers -> Seq(Event)]
      /\ call \in [Callers -> Call] /\ Callers \subseteq Receivers
      /\ progress \in [Ids -> 0 .. MaxSteps] /\ progress[i] < MaxSteps
      /\ queries \in Nat /\ 1 .. queries \subseteq Ids
      /\ open \subseteq 1 .. queries
  BY <1>1, QueriesBound DEF Inv, KadInv, ChannelInv, CommandInv, CommandType,
     Receivers, ResultInv, EventsInv
<1>3. n \in 1 .. MaxSteps /\ progress[i] \in Nat
  BY <1>2, SwarmBoundsAssumption
<1>4. e \in Event /\ e.kind = "QueryProgressed" /\ e.id = i /\ e.step = n
  BY <1>3, EventTypes
<1> HIDE DEF e
<1>5. EventsInv'
  <2>1. Fresh(e)
    BY <1>1, <1>2, <1>4 DEF Fresh
  <2>2. Moves(pending, pending') /\ \A r \in Receivers : Moves(unread[r], unread'[r])
    BY <1>1, <1>4, <2>1 DEF Moves
  <2>3. QED
    BY <1>1, <1>2, <2>2, EventsKept DEF ResultInv
<1>6. ASSUME NEW d \in Callers
      PROVE  Listener(d)'
  <2>1. CASE call[d].phase = "listening" /\ call[d].op = "PeerLookup"
    <3> DEFINE j == call[d].id
               got == call[d].got
    <3>1. /\ d \in subs /\ j \in 1 .. queries
          /\ Gathered(got, j, unread[d], pending, progress[j])
      BY <2>1 DEF ResultInv, Listener, Listens
    <3>2. unread[d] \in Seq(Event) /\ got \in Seq(1 .. MaxSteps)
      BY <1>2 DEF Call
    <3> HIDE DEF j, got
    <3>3. Gathered(got, j, unread[d], Append(pending, e), progress'[j])
      <4>1. CASE j = i
        <5>1. ResultOf(e, j) /\ progress'[j] = progress[j] + 1
          BY <1>1, <1>2, <1>4, <4>1 DEF ResultOf
        <5>2. e.step = progress[j] + 1 /\ progress[j] \in Nat
          BY <1>3, <1>4, <4>1
        <5>3. QED
          BY <1>2, <1>4, <3>1, <3>2, <5>1, <5>2, GatheredNext
      <4>2. CASE j # i
        <5>1. ~ ResultOf(e, j) /\ progress'[j] = progress[j]
          BY <1>1, <1>2, <1>4, <4>2 DEF ResultOf
        <5>2. QED
          BY <1>2, <1>4, <3>1, <3>2, <5>1, GatheredOther
      <4>3. QED
        BY <4>1, <4>2
    <3>4. QED
      BY <1>1, <2>1, <3>1, <3>3 DEF Listener, j, got
  <2>2. CASE ~ (call[d].phase = "listening" /\ call[d].op = "PeerLookup")
    BY <1>1, <2>2 DEF ResultInv, Listener
  <2>3. QED
    BY <2>1, <2>2
<1>7. QED
  BY <1>5, <1>6 DEF ResultInv

\* The results stay complete.
LEMMA ResultStep ==
  ASSUME Inv, ResultInv, [Next]_vars
  PROVE  ResultInv'
<1>1. /\ queries \in Nat /\ queries <= queries /\ open \subseteq 1 .. queries
  BY QueriesBound DEF ResultInv, EventsInv
<1>2. ASSUME NEW c \in Callers, SetModeTimeout(c)
      PROVE  ResultInv'
  BY <1>2, ResultsGone DEF SetModeTimeout
<1>3. \A s : Quiet(s, s) /\ Moves(s, s)
  BY DEF Quiet, Moves
<1>4. CASE Mirror
  <2>1. /\ KadTask \in Receivers /\ KadTask \notin lagged
        /\ unread \in [Receivers -> Seq(Event)]
    BY DEF Inv, ChannelInv, Receivers
  <2>2. /\ UNCHANGED <<call, subs, pending, progress, open, queries>>
        /\ unread[KadTask] # <<>>
        /\ unread' = [unread EXCEPT ![KadTask] = Tail(@)]
    BY <1>4, <2>1 DEF Mirror, Received
  <2>3. \A r \in Receivers :
          unread'[r] = IF r = KadTask THEN Tail(unread[r]) ELSE unread[r]
    BY <2>1, <2>2
  <2>4. EventsInv'
    <3>1. \A r \in Receivers : Moves(unread[r], unread'[r])
      BY <2>2, <2>3 DEF Moves
    <3>2. QED
      BY <1>1, <1>3, <2>2, <3>1, EventsKept DEF ResultInv
  <2>5. ASSUME NEW d \in Callers
        PROVE  Listener(d)'
    <3>1. unread'[d] = unread[d]
      BY <2>3, CallersAssumption DEF Receivers
    <3>2. QED
      BY <1>1, <1>3, <2>2, <3>1, ListenerSame DEF ResultInv
  <2>6. QED
    BY <2>4, <2>5 DEF ResultInv
<1>5. CASE Timer \/ UNCHANGED vars
  BY <1>5 DEF vars, Timer, ResultInv, EventsInv, Listener
<1>6. QED
  BY <1>2, <1>4, <1>5, ResultsStart, ResultsSend, ResultsListen, ResultsCommand,
     ResultsPublished, ResultsNetwork, ResultsProgress DEF Next
-----------------------------------------------------------------------------
(* The theorems. *)

\* The invariant holds at the start.
LEMMA InitInv == Init => Inv
<1> SUFFICES ASSUME Init PROVE Inv
  OBVIOUS
<1>1. ChannelInv
  BY BoundFits DEF Init, ChannelInv, Receivers
<1>2. KadInv
  BY SwarmBoundsAssumption DEF Init, KadInv
<1>3. CommandInv
  <2>1. Idle.phase = "idle"
    BY DEF Idle
  <2>2. QED
    BY <2>1, IdleType DEF Init, CommandInv, CommandType
<1>4. CountInv
  <2>1. Asking = {}
    BY DEF Asking, Init, Idle
  <2>2. QED
    BY <2>1, FS_EmptySet, SwarmBoundsAssumption DEF Init, CountInv
<1>5. PollInv
  BY DEF Init, PollInv, Room
<1>6. QED
  BY <1>1, <1>2, <1>3, <1>4, <1>5 DEF Inv

\* Every step keeps it.
LEMMA StepInv == Inv /\ [Next]_vars => Inv'
<1> SUFFICES ASSUME Inv, [Next]_vars PROVE Inv'
  OBVIOUS
<1>1. ChannelInv'
  BY StepOfChannel, ChannelKept DEF Inv
<1>2. KadInv'
  BY KadStep
<1>3. CommandInv'
  <2>1. ASSUME NEW c \in Callers, Command(c)
        PROVE  CommandInv'
    BY <2>1, CommandStep, QueryAsked
  <2>2. ASSUME NEW c \in Callers, ~ Command(c),
               \/ \E op \in Does[c] : Start(c, op)
               \/ Send(c) \/ Listen(c) \/ SetModeTimeout(c)
        PROVE  CommandInv'
    BY <2>2, CallerStep
  <2>3. CASE Mirror \/ KadEvent \/ Timer \/ Network \/ UNCHANGED vars
             \/ \E i \in Ids, last \in BOOLEAN : KadProgress(i, last)
    <3>1. UNCHANGED <<chan, call>>
      BY <2>3 DEF Mirror, KadEvent, Timer, Network, OtherSwarmEvent, vars, KadProgress,
         ConnectionEstablished, ConnectionClosed, MdnsEvent, PollSwarm
    <3>2. QED
      BY <3>1, CommandSame DEF Inv
  <2>4. QED
    BY <2>1, <2>2, <2>3 DEF Next
<1>4. CountInv'
  BY CountStep
<1>5. PollInv'
  BY StepOfChannel, PollKept DEF Inv
<1>6. QED
  BY <1>1, <1>2, <1>3, <1>4, <1>5 DEF Inv

\* So it always holds.
LEMMA InvHolds == Spec => []Inv
  BY InitInv, StepInv, PTL DEF Spec

\* Every value the loop, the handles and kad's task produce has its type; in
\* particular no query gets an id it was not asked for (kad.rs:311-344).
THEOREM TypeCorrect == Spec => []TypeOK
<1>1. Inv => TypeOK
  <2> SUFFICES ASSUME Inv PROVE TypeOK
    OBVIOUS
  <2>1. queries \in 0 .. inputs
    <3>1. Cardinality(Asking) \in Nat
      BY FS_CardinalityType DEF Inv, CountInv
    <3>2. QED
      BY <3>1 DEF Inv, CountInv
  <2>2. QED
    BY <2>1 DEF TypeOK, Inv, ChannelInv, PollInv, KadInv, CommandInv, CommandType,
       Entry, CountInv
<1>2. QED
  BY <1>1, InvHolds, PTL

\* No reader of the event channel ever lags, for every size of the buffer and
\* every number of readers: the loop stops polling before the channel
\* overwrites anything (mod.rs:173-195).
THEOREM ListenersAlwaysSurvive == Spec => []ListenersSurvive
<1>1. Inv => ListenersSurvive
  BY DEF Inv, ChannelInv, CommandInv, CommandType, ListenersSurvive
<1>2. QED
  BY <1>1, InvHolds, PTL

\* The event channel implements Multicast: who is subscribed receives every
\* event once and in order (mod.rs:183-187).
THEOREM EventsAreMulticast == Spec => Reliable
<1>1. Init => Channel!Init
  BY DEF Init, Channel!Init
<1>2. ASSUME Inv, [Next]_vars
      PROVE  [Channel!Next]_(Channel!vars)
  <2> USE DEF Channel!Next, Channel!vars
  <2>1. ChannelStep /\ ChannelInv
    BY <1>2, StepOfChannel DEF Inv
  <2>2. CASE UNCHANGED <<subs, unread, lagged, kadTask>>
    BY <2>2
  <2>3. ASSUME Room, NEW e \in Event, Publish(e), UNCHANGED subs
        PROVE  Channel!Next
    <3>1. Channel!Publish(e)
      BY <2>1, <2>3, PublishAppends DEF Channel!Publish
    <3>2. QED
      BY <3>1
  <2>4. ASSUME NEW c \in Callers, Subscribe(c)
        PROVE  [Channel!Next]_(Channel!vars)
    <3>1. c \in Receivers
      BY DEF Receivers
    <3>2. CASE c \in subs
      BY <2>4, <3>2 DEF Subscribe
    <3>3. CASE c \notin subs
      <4>1. Channel!Subscribe(c)
        BY <2>4, <3>3 DEF Subscribe, Channel!Subscribe
      <4>2. QED
        BY <3>1, <4>1
    <3>4. QED
      BY <3>2, <3>3
  <2>5. ASSUME NEW c \in Callers, Unsubscribe(c)
        PROVE  [Channel!Next]_(Channel!vars)
    <3>1. c \in Receivers /\ c \notin {KadTask}
      BY CallersAssumption DEF Receivers
    <3>2. CASE c \in subs
      <4>1. Channel!Drop(c)
        BY <2>5, <3>1, <3>2 DEF Unsubscribe, Channel!Drop
      <4>2. QED
        BY <3>1, <4>1
    <3>3. CASE c \notin subs
      <4>1. unread[c] = <<>>
        BY <2>1, <3>1, <3>3 DEF ChannelInv
      <4>2. unread' = unread
        BY <2>1, <2>5, <3>1, <4>1 DEF Unsubscribe, ChannelInv
      <4>3. subs' = subs
        BY <2>5, <3>3 DEF Unsubscribe
      <4>4. QED
        BY <4>2, <4>3
    <3>4. QED
      BY <3>2, <3>3
  <2>6. ASSUME NEW r \in Receivers, unread[r] # <<>>, Received(r)
        PROVE  Channel!Next
    <3>1. r \in subs
      BY <2>1, <2>6 DEF ChannelInv
    <3>2. Channel!Receive(r)
      BY <2>6, <3>1 DEF Received, Channel!Receive
    <3>3. QED
      BY <3>2
  <2>7. QED
    BY <2>1, <2>2, <2>3, <2>4, <2>5, <2>6 DEF ChannelStep
<1>3. QED
  BY <1>1, <1>2, InvHolds, PTL DEF Spec, Reliable, Channel!Spec

\* tree_map trails the routing table by what is still on its way to the
\* mirroring task and by nothing else, for every size of the buffer
\* (kad.rs:283-297).
THEOREM TableAlwaysMirrored == Spec => []TableIsMirrored
<1>1. Init => NewsInv
  <2> SUFFICES ASSUME Init PROVE NewsInv
    OBVIOUS
  <2>1. unread[KadTask] = <<>>
    BY DEF Init, Receivers
  <2>2. \A p : Nothing(<<>>, p)
    BY DEF Nothing
  <2>3. QED
    BY <2>1, <2>2 DEF Init, NewsInv, TableIsMirrored
<1>2. Inv /\ NewsInv /\ [Next]_vars => NewsInv'
  BY NewsStep
<1>3. NewsInv => TableIsMirrored
  BY DEF NewsInv
<1>4. QED
  BY <1>1, <1>2, <1>3, InvHolds, PTL DEF Spec

\* A query misses none of its results and takes none of another, for any
\* number of callers, queries and steps: it subscribes before it sends the
\* command (kad.rs:311-344).
THEOREM ResultsAlwaysComplete == Spec => []QueryResultsComplete
<1>1. Init => ResultInv
  <2> SUFFICES ASSUME Init PROVE ResultInv
    OBVIOUS
  <2>1. EventsInv
    BY DEF Init, EventsInv, Asked
  <2>2. ASSUME NEW c \in Callers
        PROVE  Listener(c)
    BY IdleElse DEF Init, Listener
  <2>3. QED
    BY <2>1, <2>2 DEF ResultInv
<1>2. Inv /\ ResultInv /\ [Next]_vars => ResultInv'
  BY ResultStep
<1>3. ResultInv => QueryResultsComplete
  BY DEF ResultInv, Listener, Gathered, QueryResultsComplete
<1>4. QED
  BY <1>1, <1>2, <1>3, InvHolds, PTL DEF Spec
=============================================================================
