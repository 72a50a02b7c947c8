----------------------------- MODULE Advertise ------------------------------
(***************************************************************************)
(* owlnest-advertise between one relay and its clients                     *)
(* (protocols/owlnest-advertise/src,                                       *)
(* owlnest/src/net/p2p/protocols/advertise.rs): clients post and retract   *)
(* advertisements on the relay and query it for what it advertises.        *)
(*                                                                         *)
(* The handlers are those of Messaging, one connection at a time: packets  *)
(* in one direction of a connection arrive in order and at most once, and  *)
(* any of them may be lost to a timeout, an I/O error or a new stream.     *)
(* Answers carry no query id: a caller takes the first one from the relay. *)
(***************************************************************************)
EXTENDS Naturals, Sequences, FiniteSets

CONSTANTS
  Clients,
  Links,        \* connections between clients and the relay
  Owner,        \* Owner[k]: the client at the end of connection k
  Callers,      \* tasks that call query_advertised_peer
  Home,         \* Home[c]: the client on which c runs
  MaxAdvertise, \* max_advertise_capacity
  MaxCalls      \* bound: calls on the handles of the clients and of the relay

ASSUME LinksAssumption ==
  Owner \in [Links -> Clients] /\ Home \in [Callers -> Clients]
ASSUME AdvertiseBoundsAssumption ==
  MaxAdvertise \in Nat /\ MaxCalls \in Nat

VARIABLES
  advertised,   \* the relay's advertised_peers
  providing,    \* the relay's is_providing
  pendingQuery, \* the relay's pending_query_answer
  served,       \* connections the relay considers established
  open,         \* connections their client considers established
  used,         \* connections that have been established
  connected,    \* clients with the relay in their connected_peers
  inEvents,     \* inEvents[p]: commands before the Behaviour of client p
  toRelay,      \* toRelay[k], toClient[k]: packets on connection k
  toClient,
  caller,       \* caller[c]: the state of the task c
  calls         \* calls so far

vars == <<advertised, providing, pendingQuery, served, open, used, connected,
          inEvents, toRelay, toClient, caller, calls>>

relayVars  == <<advertised, providing, pendingQuery>>
linkVars   == <<served, open, used, connected>>

-----------------------------------------------------------------------------
(* What a query is answered with, an Option of a list: {} is None, which    *)
(* says that the relay is not providing, and {l} is Some(l).                *)
None      == {}
SnapshotOf(as, b) == IF b THEN {as} ELSE None
Snapshot  == SnapshotOf(advertised, providing)
Snapshots == {None} \cup {{l} : l \in SUBSET Clients}

(* Packet; Ads are AdvertiseSelf(true) and AdvertiseSelf(false).            *)
Query     == [kind |-> "Query"]
Ad(b)     == [kind |-> "Ad", state |-> b]
Answer(s) == [kind |-> "Answer", list |-> s]
ToRelayPacket  == {Query} \cup {Ad(b) : b \in BOOLEAN}
ToClientPacket == {Answer(s) : s \in Snapshots}

LinksOf(p, ks) == {k \in ks : Owner[k] = p}

(* A caller: the answer it got, what the relay would have answered at some  *)
(* moment since the call began, and whether the call began with no answer   *)
(* to an earlier query on its way.                                          *)
Caller == [phase : {"idle", "waiting", "answered", "refused", "timeout"},
           got : Snapshots, seen : SUBSET Snapshots, clean : BOOLEAN]
NewCaller == [phase |-> "idle", got |-> None, seen |-> {}, clean |-> FALSE]

Waiting(p) == {c \in Callers : Home[c] = p /\ caller[c].phase = "waiting"}

(* No answer is on its way to client p; queries may be.                     *)
Quiet(p) == \A k \in LinksOf(p, Links) : toClient[k] = <<>>

(* The relay's state becomes as, b: waiting callers could be told of it.    *)
Observe(as, b) ==
  caller' = [c \in Callers |->
               IF caller[c].phase = "waiting"
               THEN [caller[c] EXCEPT !.seen = @ \cup {SnapshotOf(as, b)}]
               ELSE caller[c]]

(* Every caller of client p that waits for the relay ends with ph and s.    *)
Told(p, ph, s) ==
  caller' = [c \in Callers |->
               IF c \in Waiting(p)
               THEN [caller[c] EXCEPT !.phase = ph, !.got = s]
               ELSE caller[c]]

-----------------------------------------------------------------------------
(* Clients. *)

(* query_advertised_peer: subscribe, send, wait.                            *)
query_advertised_peer(c) ==
  LET p == Home[c] IN
  /\ caller[c].phase # "waiting" /\ calls < MaxCalls
  /\ calls' = calls + 1
  /\ caller' = [caller EXCEPT ![c] = [phase |-> "waiting", got |-> None,
                                      seen |-> {Snapshot}, clean |-> Quiet(p)]]
  /\ inEvents' = [inEvents EXCEPT ![p] = Append(@, Query)]
  /\ UNCHANGED <<relayVars, linkVars, toRelay, toClient>>

(* future_timeout! around the wait.                                         *)
QueryTimeout(c) ==
  /\ caller[c].phase = "waiting"
  /\ caller' = [caller EXCEPT ![c].phase = "timeout"]
  /\ UNCHANGED <<relayVars, linkVars, inEvents, toRelay, toClient, calls>>

set_remote_advertisement(p, b) ==
  /\ calls < MaxCalls
  /\ calls' = calls + 1
  /\ inEvents' = [inEvents EXCEPT ![p] = Append(@, Ad(b))]
  /\ UNCHANGED <<relayVars, linkVars, toRelay, toClient, caller>>

(* handle_in_event of a client.  A query for a relay that is not connected  *)
(* is refused; a packet goes to any open connection, and nowhere if none.   *)
handle_in_event(p) ==
  /\ inEvents[p] # <<>>
  /\ inEvents' = [inEvents EXCEPT ![p] = Tail(@)]
  /\ LET e == Head(inEvents[p]) IN
     \/ /\ e = Query /\ p \notin connected
        /\ Told(p, "refused", None)
        /\ UNCHANGED toRelay
     \/ /\ e = Query => p \in connected
        /\ IF LinksOf(p, open) = {}
           THEN UNCHANGED toRelay
           ELSE \E k \in LinksOf(p, open) :
                  toRelay' = [toRelay EXCEPT ![k] = Append(@, e)]
        /\ UNCHANGED caller
  /\ UNCHANGED <<relayVars, linkVars, toClient, calls>>

(* QueryAnswered reaches every caller that listens.                         *)
QueryAnswered(k) ==
  /\ k \in open /\ toClient[k] # <<>>
  /\ Told(Owner[k], "answered", Head(toClient[k]).list)
  /\ toClient' = [toClient EXCEPT ![k] = Tail(@)]
  /\ UNCHANGED <<relayVars, linkVars, inEvents, toRelay, calls>>

-----------------------------------------------------------------------------
(* The relay. *)

(* IncomingAdvertiseReq: the table of the relay after it.                   *)
Advertised(p, b) ==
  IF ~b THEN advertised \ {p}
  ELSE IF Cardinality(advertised) <= MaxAdvertise THEN advertised \cup {p}
  ELSE advertised

(* on_connection_handler_event of the relay.                                *)
Incoming(k) ==
  /\ k \in served /\ toRelay[k] # <<>>
  /\ toRelay' = [toRelay EXCEPT ![k] = Tail(@)]
  /\ LET e == Head(toRelay[k])
         p == Owner[k]
     IN IF e = Query
        THEN /\ pendingQuery' = Append(pendingQuery, p)
             /\ UNCHANGED <<advertised, caller>>
        ELSE /\ advertised' = Advertised(p, e.state)
             /\ Observe(Advertised(p, e.state), providing)
             /\ UNCHANGED pendingQuery
  /\ UNCHANGED <<providing, linkVars, inEvents, toClient, calls>>

(* poll: a pending query is answered with what is advertised now.           *)
\* Mutant of AnswerQuery: is_providing is not looked at.
AnswerQuery_always ==
  /\ pendingQuery # <<>>
  /\ pendingQuery' = Tail(pendingQuery)
  /\ \E k \in LinksOf(Head(pendingQuery), served) :
       toClient' = [toClient EXCEPT ![k] = Append(@, Answer({advertised}))]
  /\ UNCHANGED <<advertised, providing, linkVars, inEvents, toRelay, caller,
                 calls>>
AnswerQuery ==
  /\ pendingQuery # <<>>
  /\ pendingQuery' = Tail(pendingQuery)
  /\ LET ks == LinksOf(Head(pendingQuery), served) IN
     IF ks = {} THEN UNCHANGED toClient
     ELSE \E k \in ks :
            toClient' = [toClient EXCEPT ![k] = Append(@, Answer(Snapshot))]
  /\ UNCHANGED <<advertised, providing, linkVars, inEvents, toRelay, caller,
                 calls>>

(* The operations of the relay's own handle; poll answers queries first.    *)
RelayOp(as, b) ==
  /\ pendingQuery = <<>> /\ calls < MaxCalls
  /\ calls' = calls + 1
  /\ advertised' = as /\ providing' = b
  /\ Observe(as, b)
  /\ UNCHANGED <<pendingQuery, linkVars, inEvents, toRelay, toClient>>

SetProviderState(b) == RelayOp(advertised, b)
RemoveAdvertised(p) == RelayOp(advertised \ {p}, providing)
ClearAdvertised     == RelayOp({}, providing)

-----------------------------------------------------------------------------
(* Connections; each end learns of a close by itself.                       *)

Establish(k) ==
  /\ k \notin used
  /\ used' = used \cup {k} /\ open' = open \cup {k} /\ served' = served \cup {k}
  /\ UNCHANGED <<connected, relayVars, inEvents, toRelay, toClient, caller,
                 calls>>

(* OutboundNegotiated at the client.                                        *)
OutboundNegotiated(k) ==
  /\ k \in open /\ Owner[k] \notin connected
  /\ connected' = connected \cup {Owner[k]}
  /\ UNCHANGED <<served, open, used, relayVars, inEvents, toRelay, toClient,
                 caller, calls>>

(* on_swarm_event of the client; what it has not read is gone.              *)
\* Mutant of ClientCloses: connected_peers is left alone.
ClientCloses_keeps(k) ==
  /\ k \in open
  /\ open' = open \ {k}
  /\ toClient' = [toClient EXCEPT ![k] = <<>>]
  /\ UNCHANGED <<connected, served, used, relayVars, inEvents, toRelay, caller,
                 calls>>
ClientCloses(k) ==
  /\ k \in open
  /\ open' = open \ {k}
  /\ connected' = IF LinksOf(Owner[k], open') = {} THEN connected \ {Owner[k]}
                  ELSE connected
  /\ toClient' = [toClient EXCEPT ![k] = <<>>]
  /\ UNCHANGED <<served, used, relayVars, inEvents, toRelay, caller, calls>>

(* on_swarm_event of the relay: with its last connection a client's         *)
(* advertisement goes.                                                      *)
\* Mutant of Remaining: the table is left alone.
Remaining_all(k) == advertised
Remaining(k) == IF LinksOf(Owner[k], served \ {k}) = {}
                THEN advertised \ {Owner[k]} ELSE advertised
RelayCloses(k) ==
  /\ k \in served
  /\ served' = served \ {k}
  /\ advertised' = Remaining(k)
  /\ Observe(Remaining(k), providing)
  /\ toRelay' = [toRelay EXCEPT ![k] = <<>>]
  /\ UNCHANGED <<open, used, connected, providing, pendingQuery, inEvents,
                 toClient, calls>>

(* A packet is lost: a timer fired or the stream failed before it was read. *)
Lose(k) ==
  /\ \/ toRelay[k] # <<>> /\ toRelay' = [toRelay EXCEPT ![k] = Tail(@)]
        /\ UNCHANGED toClient
     \/ toClient[k] # <<>> /\ toClient' = [toClient EXCEPT ![k] = Tail(@)]
        /\ UNCHANGED toRelay
  /\ UNCHANGED <<relayVars, linkVars, inEvents, caller, calls>>

(* What the two handlers of a connection do: packets are passed on one by   *)
(* one, in order, or lost.                                                  *)
HandlerPoll(k) == QueryAnswered(k) \/ Incoming(k) \/ Lose(k)

-----------------------------------------------------------------------------
Init ==
  /\ advertised = {}
  /\ providing = FALSE
  /\ pendingQuery = <<>>
  /\ served = {} /\ open = {} /\ used = {} /\ connected = {}
  /\ inEvents = [p \in Clients |-> <<>>]
  /\ toRelay = [k \in Links |-> <<>>]
  /\ toClient = [k \in Links |-> <<>>]
  /\ caller = [c \in Callers |-> NewCaller]
  /\ calls = 0

Next ==
  \/ \E c \in Callers : query_advertised_peer(c) \/ QueryTimeout(c)
  \/ \E p \in Clients :
       \/ handle_in_event(p) \/ RemoveAdvertised(p)
       \/ \E b \in BOOLEAN : set_remote_advertisement(p, b)
  \/ \E k \in Links :
       \/ HandlerPoll(k)
       \/ Establish(k) \/ OutboundNegotiated(k)
       \/ ClientCloses(k) \/ RelayCloses(k)
  \/ AnswerQuery
  \/ \E b \in BOOLEAN : SetProviderState(b)
  \/ ClearAdvertised

Spec == Init /\ [][Next]_vars

-----------------------------------------------------------------------------
(* Properties. *)

TypeOK ==
  /\ advertised \subseteq Clients
  /\ providing \in BOOLEAN
  /\ pendingQuery \in Seq(Clients)
  /\ served \subseteq Links /\ open \subseteq Links /\ used \subseteq Links
  /\ connected \subseteq {Owner[k] : k \in open}
  /\ inEvents \in [Clients -> Seq(ToRelayPacket)]
  /\ toRelay \in [Links -> Seq(ToRelayPacket)]
  /\ toClient \in [Links -> Seq(ToClientPacket)]
  /\ caller \in [Callers -> Caller]
  /\ calls \in 0 .. MaxCalls

(* Only clients with a connection the relay still serves are advertised,    *)
(* also when a client has several and posts on one while another closes     *)
(* (behaviour.rs:124-131).                                                  *)
AdvertisedAreConnected ==
  \A p \in advertised : LinksOf(p, served) # {}

(* The answer of query_advertised_peer was true at some moment of the call, *)
(* although answers carry no query id, provided that the call did not begin *)
(* while the answer to an earlier query of the same client was on its way   *)
(* (advertise.rs:38-43, behaviour.rs:98-114).                               *)
FreshAnswer ==
  \A c \in Callers :
    caller[c].phase = "answered" /\ caller[c].clean
      => caller[c].got \in caller[c].seen
=============================================================================
