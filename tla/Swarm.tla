------------------------------- MODULE Swarm --------------------------------
(***************************************************************************)
(* The swarm task of a node (owlnest/src/net/p2p/swarm), the command       *)
(* channels of the handles, the broadcast channel on which every swarm     *)
(* event is published, and kad, whose handle lives on that channel: a      *)
(* task mirrors the routing table into tree_map, and query and set_mode    *)
(* wait for their results among the events of everybody else               *)
(* (owlnest/src/net/p2p/protocols/kad.rs, mdns.rs).                        *)
(*                                                                         *)
(* The loop publishes only while event_out.len() is below a bound computed *)
(* from the configured size; the channel overwrites its oldest event when  *)
(* it is full, and a receiver that missed one gets an error its reader     *)
(* does not survive.  select! looks at that bound when it is entered and   *)
(* not again: a loop that waits with the swarm's branch disabled looks     *)
(* again after the next command or when its timer fires.  An event is a    *)
(* record; logging is left out.                                            *)
(***************************************************************************)
EXTENDS Naturals, Sequences

CONSTANTS
  BufferSize,   \* swarm_event_buffer_size
  Capacity,     \* events the broadcast channel holds; tokio rounds the size up
  Callers,      \* tasks that call the handles
  Does,         \* Does[c]: the operations the task c calls
  Peers, Addrs, \* remote peers and their addresses
  MaxInputs,    \* bound: calls on the handles and events from the network
  MaxSteps      \* bound: progress events of one query

KadTask   == "kad_task"
Receivers == Callers \cup {KadTask}
Ids       == 1 .. MaxInputs

ASSUME BufferAssumption ==
  /\ BufferSize \in Nat /\ Capacity \in Nat \ {0}
  /\ BufferSize <= Capacity
ASSUME CallersAssumption == KadTask \notin Callers
ASSUME SwarmBoundsAssumption ==
  MaxInputs \in Nat /\ MaxSteps \in Nat \ {0}

VARIABLES
  chan,      \* chan[h]: the mpsc channel from the handle h to the loop
  call,      \* call[c]: the call c is in
  subs,      \* the receivers of the broadcast channel that are alive
  unread,    \* unread[r]: events in the channel that r has not received
  lagged,    \* receivers whose next event has been overwritten
  polling,   \* the swarm's branch is enabled in the select! the loop waits in
  kadTask,   \* the task spawned by kad's Handle::new: "running" or "stopped"
  mirror,    \* mirror[p]: what tree_map holds for p
  pending,   \* events kad has queued for the swarm
  table,     \* table[p]: addresses of p in kad's routing table
  progress,  \* progress[i]: progress events kad has made for query i
  open,      \* queries kad is still running
  conns,     \* <<p, a>>: established connections and their remote address
  queries,   \* queries started so far; their ids are 1 .. queries
  inputs     \* calls and events from the network so far

vars == <<chan, call, subs, unread, lagged, polling, kadTask, mirror, pending, table,
          progress, open, conns, queries, inputs>>

-----------------------------------------------------------------------------
(* Events and calls.  An event no reader of the channel looks for is Other. *)

Event ==
  [kind : {"Other", "ModeChanged"}]
    \cup [kind : {"RoutingUpdated"}, peer : Peers, addrs : SUBSET Addrs]
    \cup [kind : {"QueryProgressed"}, id : Ids, step : 1 .. MaxSteps,
          last : BOOLEAN]

RoutingUpdated(p, as) == [kind |-> "RoutingUpdated", peer |-> p, addrs |-> as]
Other                 == [kind |-> "Other"]

(* The channels.  RxBundle polls them in the order of its fields: the first *)
(* that has something wins.                                                 *)
Fields    == <<"swarm", "kad", "autonat", "mdns">>
Channels  == {Fields[i] : i \in DOMAIN Fields}
Before(h) == {Fields[i] : i \in {i \in DOMAIN Fields :
                                   \E j \in DOMAIN Fields : i < j /\ Fields[j] = h}}

(* Operations of the handles.  SwarmOp stands for every operation of        *)
(* SwarmHandle, MdnsOp for both of mdns: they return what their callback    *)
(* brings.  AutonatTell stands for autonat's AddServer, RemoveServer and    *)
(* Probe, which have no callback.                                           *)
SwarmOps   == {"SwarmOp"}
KadOps     == {"PeerLookup", "BootStrap", "InsertNode", "SetMode"}
AutonatOps == {"AutonatTell", "GetNatStatus"}
MdnsOps    == {"MdnsOp"}
Ops        == SwarmOps \cup KadOps \cup AutonatOps \cup MdnsOps
ASSUME DoesAssumption == \A c \in Callers : Does[c] \subseteq Ops

ChannelOf(op) == CASE op \in SwarmOps   -> "swarm"
                   [] op \in KadOps     -> "kad"
                   [] op \in AutonatOps -> "autonat"
                   [] op \in MdnsOps    -> "mdns"
Listens(op) == op \in {"PeerLookup", "SetMode"}

Idle == [phase |-> "idle", op |-> "SwarmOp", id |-> 0, got |-> <<>>]
Call == [phase : {"idle", "sending", "waiting", "listening", "panicked"},
         op : Ops, id : Ids \cup {0}, got : Seq(1 .. MaxSteps)]

-----------------------------------------------------------------------------
(* The broadcast channel. *)

(* Some slot is always overwritten by the next event once Capacity of them  *)
(* are unread; the receiver that has not read it lags.                      *)
Push(q, e) == IF Len(q) < Capacity THEN Append(q, e) ELSE Append(Tail(q), e)

Publish(e) ==
  /\ unread' = [r \in Receivers |->
                  IF r \in subs THEN Push(unread[r], e) ELSE unread[r]]
  /\ lagged' = lagged \cup {r \in subs : Len(unread[r]) >= Capacity}

Subscribe(r) ==
  /\ subs' = subs \cup {r}
  /\ UNCHANGED <<unread, lagged>>

Unsubscribe(r) ==
  /\ subs' = subs \ {r}
  /\ unread' = [unread EXCEPT ![r] = <<>>]
  /\ lagged' = lagged \ {r}

Received(r) ==
  /\ unread' = [unread EXCEPT ![r] = Tail(@)]
  /\ UNCHANGED <<subs, lagged>>

(* The loop's bound: (size >> 2) << 2.                                      *)
\* Mutant of UpperBound: rounds up instead of down.
UpperBound_up == (BufferSize \div 4 + 1) * 4
UpperBound == (BufferSize \div 4) * 4

(* event_out.len() < swarm_event_buffer_upper_bound; the length is that of  *)
(* the receiver which is furthest behind.                                   *)
\* Mutant of Room: the swarm is always polled.
Room_unchecked == 0 < UpperBound
Room == 0 < UpperBound /\ \A r \in subs : Len(unread[r]) < UpperBound

-----------------------------------------------------------------------------
(* kad, as far as this code sees it. *)

(* add_address: a new address is announced with all addresses of the peer;  *)
(* a peer whose bucket is full (~fits) is not taken.                        *)
Added(p, a, fits) ==
  IF table[p] # {} \/ fits THEN [table EXCEPT ![p] = @ \cup {a}] ELSE table
AddedEvents(p, a, fits) ==
  IF Added(p, a, fits) = table THEN <<>>
  ELSE <<RoutingUpdated(p, Added(p, a, fits)[p])>>

(* remove_address announces nothing.                                        *)
Removed(p, a) == [table EXCEPT ![p] = @ \ {a}]

NewQuery ==
  /\ queries' = queries + 1
  /\ progress' = [progress EXCEPT ![queries + 1] = 0]
  /\ open' = open \cup {queries + 1}

-----------------------------------------------------------------------------
(* The handles. *)

Return(c) == call' = [call EXCEPT ![c] = Idle]

(* A call starts; query and set_mode subscribe before they send.            *)
Start(c, op) ==
  /\ call[c].phase = "idle" /\ inputs < MaxInputs
  /\ inputs' = inputs + 1
  /\ call' = [call EXCEPT ![c] = [Idle EXCEPT !.phase = "sending", !.op = op]]
  /\ IF Listens(op) THEN Subscribe(c) ELSE UNCHANGED <<subs, unread, lagged>>
  /\ UNCHANGED <<chan, polling, kadTask, mirror, pending, table, progress,
                 open, queries, conns>>

(* The command enters its channel once there is room.  set_mode has no      *)
(* callback and listens; an operation of autonat without one is over.       *)
Send(c) ==
  LET op == call[c].op
      h  == ChannelOf(op)
  IN
  /\ call[c].phase = "sending"
  /\ Len(chan[h]) < BufferSize
  /\ chan' = [chan EXCEPT ![h] = Append(@, [op |-> op, from |-> c])]
  /\ \/ op = "AutonatTell" /\ Return(c)
     \/ op = "SetMode" /\ call' = [call EXCEPT ![c].phase = "listening"]
     \/ /\ op \notin {"AutonatTell", "SetMode"}
        /\ call' = [call EXCEPT ![c].phase = "waiting"]
  /\ UNCHANGED <<subs, unread, lagged, polling, kadTask, mirror, pending,
                 table, progress, open, conns, queries, inputs>>

(* The event is a result of c's query; it is the one that ends the wait.    *)
\* Mutant of Mine: results of every query are collected.
Mine_any(c, e) == call[c].op = "PeerLookup" /\ e.kind = "QueryProgressed"
Mine(c, e) ==
  call[c].op = "PeerLookup" /\ e.kind = "QueryProgressed" /\ e.id = call[c].id

\* Mutant of Ends: step.last is not looked at.
Ends_never(c, e) == call[c].op = "SetMode" /\ e.kind = "ModeChanged"
Ends(c, e) == \/ Mine(c, e) /\ e.last
              \/ call[c].op = "SetMode" /\ e.kind = "ModeChanged"

(* listen_event!: an error of recv falls out of the loop into unreachable!. *)
Listen(c) ==
  /\ call[c].phase = "listening" /\ unread[c] # <<>>
  /\ LET e == Head(unread[c]) IN
     IF c \in lagged
     THEN call' = [call EXCEPT ![c].phase = "panicked"] /\ Unsubscribe(c)
     ELSE IF Ends(c, e)
     THEN Return(c) /\ Unsubscribe(c)
     ELSE /\ call' = IF Mine(c, e)
                     THEN [call EXCEPT ![c].got = Append(@, e.step)]
                     ELSE call
          /\ Received(c)
  /\ UNCHANGED <<chan, polling, kadTask, mirror, pending, table, progress,
                 open, queries, conns, inputs>>

(* future_timeout! around set_mode's listening.                             *)
SetModeTimeout(c) ==
  /\ call[c].phase = "listening" /\ call[c].op = "SetMode"
  /\ Return(c)
  /\ Unsubscribe(c)
  /\ UNCHANGED <<chan, polling, kadTask, mirror, pending, table, progress,
                 open, queries, conns, inputs>>

(* tree_map after the event e.                                              *)
\* Mutant of Applied: an entry that exists is kept.
Applied_new(e) ==
  IF e.kind = "RoutingUpdated" /\ mirror[e.peer] = {}
  THEN [mirror EXCEPT ![e.peer] = e.addrs] ELSE mirror
Applied(e) ==
  IF e.kind = "RoutingUpdated" THEN [mirror EXCEPT ![e.peer] = e.addrs]
  ELSE mirror

(* The task of kad's handle: an error of recv ends its loop for ever.       *)
Mirror ==
  /\ kadTask = "running" /\ unread[KadTask] # <<>>
  /\ IF KadTask \in lagged
     THEN kadTask' = "stopped" /\ Unsubscribe(KadTask) /\ UNCHANGED mirror
     ELSE /\ mirror' = Applied(Head(unread[KadTask]))
          /\ Received(KadTask)
          /\ UNCHANGED kadTask
  /\ UNCHANGED <<chan, call, polling, pending, table, progress, open, conns,
                 queries, inputs>>

-----------------------------------------------------------------------------
(* The loop. *)

(* The next command, of a caller c whose operation is op.  select! is then  *)
(* entered again.                                                           *)
Take(c, op) ==
  LET h == ChannelOf(op) IN
  /\ chan[h] # <<>> /\ Head(chan[h]) = [op |-> op, from |-> c]
  /\ \A g \in Before(h) : chan[g] = <<>>
  /\ chan' = [chan EXCEPT ![h] = Tail(@)]
  /\ polling' = Room
  /\ UNCHANGED <<subs, unread, lagged, kadTask, mirror, conns, inputs>>

(* swarm_op_exec and the map_in_event of mdns and autonat: a callback is    *)
(* answered at once.                                                        *)
SwarmOpExec(c) ==
  /\ Take(c, "SwarmOp")
  /\ Return(c)
  /\ UNCHANGED <<pending, table, progress, open, queries>>

MdnsOpExec(c) ==
  /\ Take(c, "MdnsOp")
  /\ Return(c)
  /\ UNCHANGED <<pending, table, progress, open, queries>>

AutonatOpExec(c) ==
  /\ \/ Take(c, "AutonatTell") /\ UNCHANGED call
     \/ Take(c, "GetNatStatus") /\ Return(c)
  /\ UNCHANGED <<pending, table, progress, open, queries>>

(* kad::map_in_event, one action per command.                               *)
\* Mutant of PeerLookup: get_record is called twice.
PeerLookup_twice(c) ==
  /\ Take(c, "PeerLookup")
  /\ queries' = queries + 2
  /\ open' = open \cup {queries + 1, queries + 2}
  /\ call' = [call EXCEPT ![c].phase = "listening", ![c].id = queries + 2]
  /\ UNCHANGED <<pending, table, progress>>
PeerLookup(c) ==
  /\ Take(c, "PeerLookup")
  /\ NewQuery
  /\ call' = [call EXCEPT ![c].phase = "listening", ![c].id = queries + 1]
  /\ UNCHANGED <<pending, table>>

BootStrap(c) ==
  /\ Take(c, "BootStrap")
  /\ IF \E p \in Peers : table[p] # {} THEN NewQuery ELSE UNCHANGED <<progress, open, queries>>
  /\ Return(c)
  /\ UNCHANGED <<pending, table>>

InsertNode(c, p, a, fits) ==
  /\ Take(c, "InsertNode")
  /\ table' = Added(p, a, fits)
  /\ pending' = pending \o AddedEvents(p, a, fits)
  /\ Return(c)
  /\ UNCHANGED <<progress, open, queries>>

(* kad announces a mode only when it changes by itself, so set_mode may     *)
(* wait for an event that never comes.                                      *)
SetMode(c, announced) ==
  /\ Take(c, "SetMode")
  /\ pending' = IF announced THEN Append(pending, [kind |-> "ModeChanged"])
                ELSE pending
  /\ UNCHANGED <<call, table, progress, open, queries>>

(* A swarm event is polled, handled and then published, and select! is      *)
(* entered again.                                                           *)
PollSwarm(e) ==
  /\ polling
  /\ Publish(e)
  /\ UNCHANGED <<chan, call, subs, kadTask, mirror, progress, open, queries>>
  /\ polling' = Room'

(* The timer of this turn of the loop fires: the branch only logs, but      *)
(* select! is entered again.                                                *)
\* Mutant of Timer: the timer does not end the select!.
Timer_logs == UNCHANGED vars
Timer ==
  /\ polling' = Room
  /\ UNCHANGED <<chan, call, subs, unread, lagged, kadTask, mirror, pending,
                 table, progress, open, conns, queries, inputs>>

(* handle_swarm_event with the hooks of kad.                                *)
ConnectionEstablished(p, a, fits) ==
  /\ inputs < MaxInputs /\ inputs' = inputs + 1
  /\ <<p, a>> \notin conns /\ conns' = conns \cup {<<p, a>>}
  /\ PollSwarm(Other)
  /\ table' = Added(p, a, fits)
  /\ pending' = pending \o AddedEvents(p, a, fits)

ConnectionClosed(p, a) ==
  /\ inputs < MaxInputs /\ inputs' = inputs + 1
  /\ <<p, a>> \in conns /\ conns' = conns \ {<<p, a>>}
  /\ PollSwarm(Other)
  /\ table' = Removed(p, a)
  /\ UNCHANGED pending

OtherSwarmEvent ==
  /\ inputs < MaxInputs /\ inputs' = inputs + 1
  /\ PollSwarm(Other)
  /\ UNCHANGED <<conns, table, pending>>

(* mDNS finds an address, or its record expires; mdns is polled before kad. *)
MdnsEvent(k, p, a, fits) ==
  /\ inputs < MaxInputs /\ inputs' = inputs + 1
  /\ PollSwarm(Other)
  /\ IF k = "Discovered"
     THEN /\ table' = Added(p, a, fits)
          /\ pending' = pending \o AddedEvents(p, a, fits)
     ELSE table' = Removed(p, a) /\ UNCHANGED pending
  /\ UNCHANGED conns

(* The next event of kad.                                                   *)
\* Mutant of KadEvent: handled and not published.
KadEvent_unpublished ==
  /\ pending # <<>> /\ polling
  /\ pending' = Tail(pending)
  /\ UNCHANGED <<unread, lagged, polling, chan, call, subs, kadTask, mirror,
                 progress, open, queries, table, conns, inputs>>
KadEvent ==
  /\ pending # <<>>
  /\ PollSwarm(Head(pending))
  /\ pending' = Tail(pending)
  /\ UNCHANGED <<table, conns, inputs>>

-----------------------------------------------------------------------------
(* A query of kad advances; it ends after MaxSteps steps at the latest.     *)
KadProgress(i, last) ==
  /\ i \in open
  /\ progress[i] + 1 = MaxSteps => last
  /\ progress' = [progress EXCEPT ![i] = @ + 1]
  /\ open' = IF last THEN open \ {i} ELSE open
  /\ pending' = Append(pending, [kind |-> "QueryProgressed", id |-> i,
                                 step |-> progress[i] + 1, last |-> last])
  /\ UNCHANGED <<chan, call, subs, unread, lagged, polling, kadTask, mirror,
                 table, queries, conns, inputs>>

-----------------------------------------------------------------------------
Init ==
  /\ chan = [h \in Channels |-> <<>>]
  /\ call = [c \in Callers |-> Idle]
  /\ subs = {KadTask}
  /\ unread = [r \in Receivers |-> <<>>]
  /\ lagged = {}
  /\ polling = Room
  /\ kadTask = "running"
  /\ mirror = [p \in Peers |-> {}]
  /\ pending = <<>>
  /\ table = [p \in Peers |-> {}]
  /\ progress = [i \in Ids |-> 0]
  /\ open = {}
  /\ queries = 0
  /\ conns = {}
  /\ inputs = 0

Command(c) ==
  \/ SwarmOpExec(c) \/ MdnsOpExec(c) \/ AutonatOpExec(c)
  \/ PeerLookup(c)
  \/ BootStrap(c)
  \/ \E p \in Peers, a \in Addrs, fits \in BOOLEAN : InsertNode(c, p, a, fits)
  \/ \E announced \in BOOLEAN : SetMode(c, announced)

Network ==
  \/ OtherSwarmEvent
  \/ \E p \in Peers, a \in Addrs :
       \/ \E fits \in BOOLEAN : ConnectionEstablished(p, a, fits)
       \/ ConnectionClosed(p, a)
       \/ \E k \in {"Discovered", "Expired"}, fits \in BOOLEAN : MdnsEvent(k, p, a, fits)

Next ==
  \/ \E c \in Callers :
       \/ \E op \in Does[c] : Start(c, op)
       \/ Send(c) \/ Listen(c) \/ SetModeTimeout(c) \/ Command(c)
  \/ Mirror
  \/ KadEvent
  \/ Timer
  \/ Network
  \/ \E i \in Ids, last \in BOOLEAN : KadProgress(i, last)

(* Tasks that can run do; select! polls the branches that are enabled in an *)
(* order of its own, so neither the commands nor, while the swarm's branch  *)
(* is enabled, the behaviours' events are passed over for ever; kad ends    *)
(* every query; the loop's timer and set_mode's fire.  The network owes     *)
(* nothing.                                                                 *)
Fairness ==
  /\ \A c \in Callers :
       /\ WF_vars(Send(c)) /\ WF_vars(Listen(c)) /\ WF_vars(SetModeTimeout(c))
  /\ WF_vars(\E c \in Callers : Command(c))
  /\ WF_vars(Mirror)
  /\ WF_vars(KadEvent)
  /\ WF_vars(Timer)
  /\ WF_vars(\E i \in Ids, last \in BOOLEAN : KadProgress(i, last))

Spec     == Init /\ [][Next]_vars
LiveSpec == Spec /\ Fairness

-----------------------------------------------------------------------------
(* Properties. *)

TypeOK ==
  /\ chan \in [Channels -> Seq([op : Ops, from : Callers])]
  /\ call \in [Callers -> Call]
  /\ subs \subseteq Receivers
  /\ unread \in [Receivers -> Seq(Event)]
  /\ lagged \subseteq Receivers
  /\ polling \in BOOLEAN
  /\ kadTask \in {"running", "stopped"}
  /\ mirror \in [Peers -> SUBSET Addrs]
  /\ pending \in Seq(Event)
  /\ table \in [Peers -> SUBSET Addrs]
  /\ progress \in [Ids -> 0 .. MaxSteps]
  /\ open \subseteq Ids
  /\ queries \in 0 .. inputs
  /\ conns \subseteq Peers \X Addrs
  /\ inputs \in 0 .. MaxInputs

(* No reader of the event channel ever finds that it lagged: the task that  *)
(* mirrors the routing table never stops and no listen_event! reaches its   *)
(* unreachable!, however slowly they read (mod.rs:183, kad.rs:284,          *)
(* owlnest-macro/src/lib.rs:164).                                           *)
ListenersSurvive ==
  /\ lagged = {}
  /\ kadTask = "running"
  /\ \A c \in Callers : call[c].phase # "panicked"

(* The event channel is a Multicast: nothing published is lost, repeated or *)
(* reordered for anyone subscribed at the time.                             *)
Channel == INSTANCE Multicast
             WITH Permanent <- {KadTask}, Events <- Event
Reliable == Channel!Spec

(* The events s about p: none of them, or a last one that has all of as.    *)
About(p, e)       == e.kind = "RoutingUpdated" /\ e.peer = p
Nothing(s, p)     == \A n \in DOMAIN s : ~ About(p, s[n])
Newest(s, p, as)  == \E n \in DOMAIN s :
                       /\ About(p, s[n]) /\ as \subseteq s[n].addrs
                       /\ \A m \in DOMAIN s : About(p, s[m]) => m <= n

(* tree_map trails the routing table by what is still on its way to the     *)
(* mirroring task and by nothing else: every address in the table is in the *)
(* newest news of its peer, which kad has queued, else the channel holds,   *)
(* else was applied (kad.rs:283-297).                                       *)
TableIsMirrored ==
  \A p \in Peers :
    \/ Newest(pending, p, table[p])
    \/ Nothing(pending, p) /\ Newest(unread[KadTask], p, table[p])
    \/ /\ Nothing(pending, p) /\ Nothing(unread[KadTask], p)
       /\ table[p] \subseteq mirror[p]

(* The events s bring the steps of query i after lo and up to hi, in order. *)
Results(s, i) == {n \in DOMAIN s : s[n].kind = "QueryProgressed" /\ s[n].id = i}
Brings(s, i, lo, hi) ==
  /\ {s[n].step : n \in Results(s, i)} = (lo + 1) .. hi
  /\ \A m, n \in Results(s, i) : m < n => s[m].step < s[n].step

(* A query misses none of its results and takes none of another query: what *)
(* it has, what is in the channel for it and what kad has queued are the    *)
(* steps of its query in order.  It holds because query subscribes before   *)
(* it sends the command (kad.rs:311-344).                                   *)
QueryResultsComplete ==
  \A c \in Callers :
    call[c].phase = "listening" /\ call[c].op = "PeerLookup" =>
      LET i   == call[c].id
          got == Len(call[c].got)
      IN  /\ \A n \in 1 .. got : call[c].got[n] = n
          /\ \E k \in got .. progress[i] : /\ Brings(unread[c], i, got, k)
                                          /\ Brings(pending, i, k, progress[i])

(* Every call on a handle returns, with the callers' listeners counted      *)
(* among those that hold the loop back (mod.rs:173-195).  The calls are     *)
(* MaxInputs many: a task that calls without end on an earlier field of     *)
(* RxBundle could starve the later ones, and no instance shows that.        *)
CallsReturn ==
  \A c \in Callers : call[c].phase # "idle" ~> call[c].phase = "idle"

(* Backpressure ends: a loop that waits with the swarm's branch disabled    *)
(* polls the swarm again once the buffer has cleared, though no command     *)
(* comes to wake it; Config::swarm_event_timeout is documented to make sure *)
(* of this (mod.rs:58-62, 183-193).                                         *)
BackpressureEnds == ~polling ~> polling

(* What kad learns of a peer reaches tree_map.                              *)
MirrorCatchesUp == \A p \in Peers : table[p] # {} ~> mirror[p] # {}
=============================================================================
