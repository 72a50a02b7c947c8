-------------------------- MODULE AdvertiseProofs ---------------------------
(***************************************************************************)
(* Proofs about Advertise, for every set of clients, connections and       *)
(* callers, every capacity and every bound: what the relay advertises and  *)
(* what queries are answered with.                                         *)
(***************************************************************************)
EXTENDS Advertise, TLAPS

-----------------------------------------------------------------------------
(* Types. *)

\* The packets clients send.
LEMMA PacketType ==
  Query \in ToRelayPacket /\ \A b \in BOOLEAN : Ad(b) \in ToRelayPacket
  BY DEF ToRelayPacket

\* One queue of several gets longer.
LEMMA AppendType ==
  ASSUME NEW I, NEW S, NEW f \in [I -> Seq(S)], NEW i \in I, NEW e \in S
  PROVE  [f EXCEPT ![i] = Append(@, e)] \in [I -> Seq(S)]
  OBVIOUS

\* One queue of several loses its head.
LEMMA TailType ==
  ASSUME NEW I, NEW S, NEW f \in [I -> Seq(S)], NEW i \in I, f[i] # <<>>
  PROVE  [f EXCEPT ![i] = Tail(@)] \in [I -> Seq(S)] /\ Head(f[i]) \in S
  OBVIOUS

\* One queue of several is emptied.
LEMMA EmptyType ==
  ASSUME NEW I, NEW S, NEW f \in [I -> Seq(S)], NEW i \in I
  PROVE  [f EXCEPT ![i] = <<>>] \in [I -> Seq(S)]
  OBVIOUS

\* What an answer may carry.
LEMMA SnapshotType ==
  ASSUME NEW as \in SUBSET Clients, NEW b \in BOOLEAN
  PROVE  SnapshotOf(as, b) \in Snapshots
  BY DEF SnapshotOf, Snapshots

\* Callers that learn of a new state of the relay stay well typed.
LEMMA ObserveType ==
  ASSUME caller \in [Callers -> Caller],
         NEW as \in SUBSET Clients, NEW b \in BOOLEAN, Observe(as, b)
  PROVE  caller' \in [Callers -> Caller]
<1>1. SnapshotOf(as, b) \in Snapshots
  BY SnapshotType
<1>2. ASSUME NEW c \in Callers
      PROVE  [caller[c] EXCEPT !.seen = @ \cup {SnapshotOf(as, b)}] \in Caller
  BY <1>1 DEF Caller
<1>3. QED
  BY <1>2 DEF Observe

\* So do callers that are answered.
LEMMA ToldType ==
  ASSUME caller \in [Callers -> Caller],
         NEW p, NEW ph \in {"answered", "refused"}, NEW s \in Snapshots,
         Told(p, ph, s)
  PROVE  caller' \in [Callers -> Caller]
<1>1. ASSUME NEW c \in Callers
      PROVE  [caller[c] EXCEPT !.phase = ph, !.got = s] \in Caller
  BY DEF Caller
<1>2. QED
  BY <1>1 DEF Told

\* The table after an advertisement or a closed connection.
LEMMA TableType ==
  ASSUME advertised \subseteq Clients, NEW p \in Clients, NEW b \in BOOLEAN,
         NEW k \in Links
  PROVE  Advertised(p, b) \subseteq Clients /\ Remaining(k) \subseteq Clients
  BY DEF Advertised, Remaining

\* An operation of the relay's handle.
LEMMA RelayOpType ==
  ASSUME TypeOK, NEW as \in SUBSET Clients, NEW b \in BOOLEAN, RelayOp(as, b)
  PROVE  TypeOK'
<1>1. caller' \in [Callers -> Caller]
  BY ObserveType DEF RelayOp, TypeOK
<1>2. calls' \in 0 .. MaxCalls
  BY AdvertiseBoundsAssumption DEF RelayOp, TypeOK
<1>3. QED
  BY <1>1, <1>2 DEF RelayOp, TypeOK, linkVars

\* Every step keeps the types.
LEMMA TypeStep ==
  ASSUME TypeOK, [Next]_vars
  PROVE  TypeOK'
<1> USE LinksAssumption, AdvertiseBoundsAssumption
<1>1. ASSUME NEW c \in Callers, query_advertised_peer(c)
      PROVE  TypeOK'
  <2> DEFINE p == Home[c]
  <2>1. Snapshot \in Snapshots
    BY SnapshotType DEF Snapshot, TypeOK
  <2>2. [phase |-> "waiting", got |-> None, seen |-> {Snapshot},
         clean |-> Quiet(p)] \in Caller
    BY <2>1 DEF Caller, Snapshots, None, Quiet
  <2>3. inEvents' \in [Clients -> Seq(ToRelayPacket)]
    BY <1>1, PacketType, AppendType DEF query_advertised_peer, TypeOK
  <2>4. QED
    BY <1>1, <2>2, <2>3
    DEF query_advertised_peer, TypeOK, relayVars, linkVars
<1>2. ASSUME NEW c \in Callers, QueryTimeout(c)
      PROVE  TypeOK'
  <2>1. caller' \in [Callers -> Caller]
    BY <1>2 DEF QueryTimeout, TypeOK, Caller
  <2>2. QED
    BY <1>2, <2>1 DEF QueryTimeout, TypeOK, relayVars, linkVars
<1>3. ASSUME NEW p \in Clients, NEW b \in BOOLEAN,
             set_remote_advertisement(p, b)
      PROVE  TypeOK'
  <2>1. inEvents' \in [Clients -> Seq(ToRelayPacket)]
    BY <1>3, PacketType, AppendType DEF set_remote_advertisement, TypeOK
  <2>2. QED
    BY <1>3, <2>1
    DEF set_remote_advertisement, TypeOK, relayVars, linkVars
<1>4. ASSUME NEW p \in Clients, handle_in_event(p)
      PROVE  TypeOK'
  <2>1. Head(inEvents[p]) \in ToRelayPacket
    BY <1>4 DEF handle_in_event, TypeOK
  <2>2. inEvents' \in [Clients -> Seq(ToRelayPacket)]
    BY <1>4 DEF handle_in_event, TypeOK
  <2>3. caller' \in [Callers -> Caller]
    BY <1>4, ToldType DEF handle_in_event, TypeOK, Snapshots
  <2>4. toRelay' \in [Links -> Seq(ToRelayPacket)]
    <3>1. CASE UNCHANGED toRelay
      BY <3>1 DEF TypeOK
    <3>2. CASE \E k \in LinksOf(p, open) :
                 toRelay' = [toRelay EXCEPT ![k] = Append(@, Head(inEvents[p]))]
      BY <2>1, <3>2, AppendType DEF TypeOK, LinksOf
    <3>3. QED
      BY <1>4, <3>1, <3>2 DEF handle_in_event
  <2>5. QED
    BY <1>4, <2>2, <2>3, <2>4
    DEF handle_in_event, TypeOK, relayVars, linkVars
<1>5. ASSUME NEW k \in Links, QueryAnswered(k)
      PROVE  TypeOK'
  <2>1. Head(toClient[k]) \in ToClientPacket
    BY <1>5 DEF QueryAnswered, TypeOK
  <2>2. Head(toClient[k]).list \in Snapshots
    BY <2>1 DEF ToClientPacket, Answer
  <2>3. caller' \in [Callers -> Caller]
    BY <1>5, <2>2, ToldType DEF QueryAnswered, TypeOK
  <2>4. QED
    BY <1>5, <2>3 DEF QueryAnswered, TypeOK, relayVars, linkVars
<1>6. ASSUME NEW k \in Links, Incoming(k)
      PROVE  TypeOK'
  <2> DEFINE e == Head(toRelay[k])
  <2>1. e \in ToRelayPacket
    BY <1>6 DEF Incoming, TypeOK
  <2>2. CASE e = Query
    <3>1. pendingQuery' \in Seq(Clients)
      <4>1. pendingQuery' = Append(pendingQuery, Owner[k])
        BY <1>6, <2>2 DEF Incoming
      <4>2. Owner[k] \in Clients
        OBVIOUS
      <4>3. QED
        BY <4>1, <4>2 DEF TypeOK
    <3>2. toRelay' \in [Links -> Seq(ToRelayPacket)]
      BY <1>6, TailType DEF Incoming, TypeOK
    <3>3. QED
      BY <1>6, <2>2, <3>1, <3>2 DEF Incoming, TypeOK, linkVars
  <2>3. CASE e # Query
    <3>1. e.state \in BOOLEAN
      BY <2>1, <2>3 DEF ToRelayPacket, Ad
    <3>2. Advertised(Owner[k], e.state) \subseteq Clients
      BY <3>1, TableType DEF TypeOK
    <3>3. caller' \in [Callers -> Caller]
      BY <1>6, <2>3, <3>2, ObserveType DEF Incoming, TypeOK
    <3>4. QED
      BY <1>6, <2>3, <3>2, <3>3 DEF Incoming, TypeOK, linkVars
  <2>4. QED
    BY <2>2, <2>3
<1>7. ASSUME NEW k \in Links, Lose(k)
      PROVE  TypeOK'
  <2>1. /\ toRelay' \in [Links -> Seq(ToRelayPacket)]
        /\ toClient' \in [Links -> Seq(ToClientPacket)]
    <3>1. CASE /\ toRelay[k] # <<>>
               /\ toRelay' = [toRelay EXCEPT ![k] = Tail(@)]
               /\ UNCHANGED toClient
      BY <3>1, TailType DEF TypeOK
    <3>2. CASE /\ toClient[k] # <<>>
               /\ toClient' = [toClient EXCEPT ![k] = Tail(@)]
               /\ UNCHANGED toRelay
      BY <3>2, TailType DEF TypeOK
    <3>3. QED
      BY <1>7, <3>1, <3>2 DEF Lose
  <2>2. QED
    BY <1>7, <2>1 DEF Lose, TypeOK, relayVars, linkVars
<1>8. CASE AnswerQuery
  <2>1. Answer(Snapshot) \in ToClientPacket
    <3>1. Snapshot \in Snapshots
      BY SnapshotType DEF Snapshot, TypeOK
    <3>2. QED
      BY <3>1 DEF ToClientPacket
  <2>2. toClient' \in [Links -> Seq(ToClientPacket)]
    <3>1. CASE UNCHANGED toClient
      BY <3>1 DEF TypeOK
    <3>2. CASE \E k \in LinksOf(Head(pendingQuery), served) :
                 toClient' = [toClient EXCEPT ![k] = Append(@, Answer(Snapshot))]
      BY <2>1, <3>2, AppendType DEF TypeOK, LinksOf
    <3>3. QED
      BY <1>8, <3>1, <3>2 DEF AnswerQuery
  <2>3. QED
    BY <1>8, <2>2 DEF AnswerQuery, TypeOK, linkVars
<1>9. ASSUME NEW b \in BOOLEAN, SetProviderState(b)
      PROVE  TypeOK'
  BY <1>9, RelayOpType DEF SetProviderState, TypeOK
<1>10. ASSUME NEW p \in Clients, RemoveAdvertised(p)
       PROVE  TypeOK'
  BY <1>10, RelayOpType DEF RemoveAdvertised, TypeOK
<1>11. CASE ClearAdvertised
  BY <1>11, RelayOpType DEF ClearAdvertised, TypeOK
<1>12. ASSUME NEW k \in Links, Establish(k)
       PROVE  TypeOK'
  BY <1>12 DEF Establish, TypeOK, relayVars
<1>13. ASSUME NEW k \in Links, OutboundNegotiated(k)
       PROVE  TypeOK'
  BY <1>13 DEF OutboundNegotiated, TypeOK, relayVars
<1>14. ASSUME NEW k \in Links, ClientCloses(k)
       PROVE  TypeOK'
  <2>1. connected' \subseteq {Owner[l] : l \in open'}
    BY <1>14 DEF ClientCloses, TypeOK, LinksOf
  <2>2. toClient' \in [Links -> Seq(ToClientPacket)]
    BY <1>14, EmptyType DEF ClientCloses, TypeOK
  <2>3. QED
    BY <1>14, <2>1, <2>2 DEF ClientCloses, TypeOK, relayVars
<1>15. ASSUME NEW k \in Links, RelayCloses(k)
       PROVE  TypeOK'
  <2>1. Remaining(k) \subseteq Clients
    BY TableType DEF TypeOK, Remaining
  <2>2. caller' \in [Callers -> Caller]
    BY <1>15, <2>1, ObserveType DEF RelayCloses, TypeOK
  <2>3. toRelay' \in [Links -> Seq(ToRelayPacket)]
    BY <1>15, EmptyType DEF RelayCloses, TypeOK
  <2>4. QED
    BY <1>15, <2>1, <2>2, <2>3 DEF RelayCloses, TypeOK
<1>16. CASE UNCHANGED vars
  BY <1>16 DEF vars, TypeOK
<1>17. QED
  BY <1>1, <1>2, <1>3, <1>4, <1>5, <1>6, <1>7, <1>8, <1>9, <1>10, <1>11,
     <1>12, <1>13, <1>14, <1>15, <1>16
  DEF Next, HandlerPoll

\* The initial states are well typed.
LEMMA TypeInit == Init => TypeOK
<1>1. NewCaller \in Caller
  BY DEF NewCaller, Caller, Snapshots, None
<1>2. ASSUME NEW I, NEW S
      PROVE  [i \in I |-> <<>>] \in [I -> Seq(S)]
  OBVIOUS
<1>3. ASSUME Init
      PROVE  /\ inEvents \in [Clients -> Seq(ToRelayPacket)]
             /\ toRelay \in [Links -> Seq(ToRelayPacket)]
             /\ toClient \in [Links -> Seq(ToClientPacket)]
  BY <1>2, <1>3 DEF Init
<1>4. ASSUME Init
      PROVE  /\ advertised \subseteq Clients /\ pendingQuery \in Seq(Clients)
             /\ served \subseteq Links /\ open \subseteq Links
             /\ used \subseteq Links
             /\ connected \subseteq {Owner[k] : k \in open}
             /\ calls \in 0 .. MaxCalls
  BY <1>4, AdvertiseBoundsAssumption DEF Init
<1>5. ASSUME Init
      PROVE  providing \in BOOLEAN /\ caller \in [Callers -> Caller]
  BY <1>1, <1>5 DEF Init
<1>6. QED
  BY <1>3, <1>4, <1>5 DEF TypeOK

(* TypeOK holds in every reachable state; in particular a client lists the  *)
(* relay in connected_peers only while it has a connection to it            *)
(* (behaviour.rs:89-91, 124-131).                                           *)
THEOREM TypeCorrect == Spec => []TypeOK
<1>1. TypeOK /\ [Next]_vars => TypeOK'
  BY TypeStep
<1>2. QED
  BY <1>1, TypeInit, PTL DEF Spec

-----------------------------------------------------------------------------
(* What is advertised. *)

\* What a step does to the table and to the relay's connections.
LEMMA TableStep ==
  ASSUME [Next]_vars
  PROVE  \/ advertised' \subseteq advertised /\ served \subseteq served'
         \/ \E k \in Links : /\ k \in served /\ served' = served
                             /\ \E b : advertised' = Advertised(Owner[k], b)
         \/ \E k \in Links : /\ k \in served /\ served' = served \ {k}
                             /\ advertised' = Remaining(k)
<1>1. CASE UNCHANGED <<advertised, served>>
  BY <1>1
<1>2. ASSUME NEW k \in Links, Incoming(k)
      PROVE  \/ UNCHANGED <<advertised, served>>
             \/ /\ k \in served /\ served' = served
                /\ \E b : advertised' = Advertised(Owner[k], b)
  BY <1>2 DEF Incoming, linkVars
<1>3. ASSUME NEW k \in Links, RelayCloses(k)
      PROVE  k \in served /\ served' = served \ {k} /\ advertised' = Remaining(k)
  BY <1>3 DEF RelayCloses
<1>4. ASSUME NEW k \in Links, Establish(k)
      PROVE  advertised' \subseteq advertised /\ served \subseteq served'
  BY <1>4 DEF Establish, relayVars
<1>5. ASSUME NEW p, RemoveAdvertised(p)
      PROVE  advertised' \subseteq advertised /\ served \subseteq served'
  BY <1>5 DEF RemoveAdvertised, RelayOp, linkVars
<1>6. CASE ClearAdvertised
  BY <1>6 DEF ClearAdvertised, RelayOp, linkVars
<1>7. ASSUME NEW c \in Callers, query_advertised_peer(c) \/ QueryTimeout(c)
      PROVE  UNCHANGED <<advertised, served>>
  BY <1>7 DEF query_advertised_peer, QueryTimeout, relayVars, linkVars
<1>8. ASSUME NEW p \in Clients, NEW b \in BOOLEAN,
             \/ set_remote_advertisement(p, b) \/ handle_in_event(p)
             \/ SetProviderState(b)
      PROVE  UNCHANGED <<advertised, served>>
  BY <1>8 DEF set_remote_advertisement, handle_in_event, SetProviderState,
              RelayOp, relayVars, linkVars
<1>9. ASSUME NEW b \in BOOLEAN, SetProviderState(b)
      PROVE  UNCHANGED <<advertised, served>>
  BY <1>9 DEF SetProviderState, RelayOp, linkVars
<1>10. ASSUME NEW k \in Links,
              QueryAnswered(k) \/ Lose(k) \/ OutboundNegotiated(k)
                \/ ClientCloses(k)
       PROVE  UNCHANGED <<advertised, served>>
  BY <1>10 DEF QueryAnswered, Lose, OutboundNegotiated, ClientCloses,
               relayVars, linkVars
<1>11. CASE AnswerQuery
  BY <1>11 DEF AnswerQuery, linkVars
<1>12. CASE UNCHANGED vars
  BY <1>12 DEF vars
<1>13. QED
  BY <1>1, <1>2, <1>3, <1>4, <1>5, <1>6, <1>7, <1>8, <1>9, <1>10, <1>11,
     <1>12
  DEF Next, HandlerPoll

(* The relay advertises only clients it still has a connection to           *)
(* (behaviour.rs:124-131).                                                  *)
THEOREM OnlyConnectedAdvertised == Spec => []AdvertisedAreConnected
<1>1. Init => AdvertisedAreConnected
  BY DEF Init, AdvertisedAreConnected
<1>2. AdvertisedAreConnected /\ [Next]_vars => AdvertisedAreConnected'
  <2> SUFFICES ASSUME AdvertisedAreConnected, [Next]_vars,
                      NEW p \in advertised'
               PROVE  LinksOf(p, served') # {}
    BY DEF AdvertisedAreConnected
  <2>1. CASE advertised' \subseteq advertised /\ served \subseteq served'
    BY <2>1 DEF AdvertisedAreConnected, LinksOf
  <2>2. CASE \E k \in Links : /\ k \in served /\ served' = served
                             /\ \E b : advertised' = Advertised(Owner[k], b)
    BY <2>2 DEF AdvertisedAreConnected, LinksOf, Advertised
  <2>3. CASE \E k \in Links : /\ k \in served /\ served' = served \ {k}
                             /\ advertised' = Remaining(k)
    BY <2>3 DEF AdvertisedAreConnected, LinksOf, Remaining
  <2>4. QED
    BY <2>1, <2>2, <2>3, TableStep
<1>3. QED
  BY <1>1, <1>2, PTL DEF Spec

-----------------------------------------------------------------------------
(* Answers.  While a caller waits, the relay's present state and whatever   *)
(* answer is on its way to the caller's client were true during the call.   *)

OnTheWay(k) == {toClient[k][i].list : i \in DOMAIN toClient[k]}

FreshFor(c) ==
  /\ caller[c].phase = "waiting" =>
       /\ Snapshot \in caller[c].seen
       /\ \A k \in Links : Owner[k] = Home[c] => OnTheWay(k) \subseteq caller[c].seen
  /\ caller[c].phase = "answered" => caller[c].got \in caller[c].seen

FreshInv == \A c \in Callers : caller[c].clean => FreshFor(c)

\* An answer that is received or lost.
LEMMA OnTheWayTail ==
  ASSUME NEW q \in Seq(ToClientPacket), q # <<>>
  PROVE  /\ {Tail(q)[i].list : i \in DOMAIN Tail(q)}
              \subseteq {q[i].list : i \in DOMAIN q}
         /\ Head(q).list \in {q[i].list : i \in DOMAIN q}
<1>1. \A i \in DOMAIN Tail(q) : i + 1 \in DOMAIN q /\ Tail(q)[i] = q[i + 1]
  OBVIOUS
<1>2. 1 \in DOMAIN q /\ Head(q) = q[1]
  OBVIOUS
<1>3. QED
  BY <1>1, <1>2

\* A step that leaves the relay's state alone, sends nothing, and ends calls
\* with what was on its way or without an answer.
LEMMA FreshKept ==
  ASSUME FreshInv, Snapshot' = Snapshot,
         \A k \in Links : OnTheWay(k)' \subseteq OnTheWay(k),
         \A c \in Callers :
           \/ caller'[c] = caller[c]
           \/ /\ caller'[c].phase # "waiting" /\ caller'[c].clean = caller[c].clean
              /\ caller'[c].seen = caller[c].seen
              /\ caller'[c].phase = "answered" =>
                   /\ caller[c].phase = "waiting"
                   /\ \E k \in Links : Owner[k] = Home[c] /\ caller'[c].got \in OnTheWay(k)
  PROVE  FreshInv'
<1> SUFFICES ASSUME NEW c \in Callers, caller'[c].clean
             PROVE  FreshFor(c)'
  BY DEF FreshInv
<1>1. CASE caller'[c] = caller[c]
  BY <1>1 DEF FreshInv, FreshFor
<1>2. CASE caller'[c] # caller[c]
  BY <1>2 DEF FreshInv, FreshFor
<1>3. QED
  BY <1>1, <1>2

\* A step that changes the relay's state tells the waiting callers.
LEMMA FreshObserved ==
  ASSUME FreshInv, NEW as, NEW b, advertised' = as, providing' = b,
         Observe(as, b), caller \in [Callers -> Caller],
         \A k \in Links : OnTheWay(k)' \subseteq OnTheWay(k)
  PROVE  FreshInv'
<1> SUFFICES ASSUME NEW c \in Callers, caller'[c].clean
             PROVE  FreshFor(c)'
  BY DEF FreshInv
<1>1. Snapshot' = SnapshotOf(as, b)
  BY DEF Snapshot
<1>2. CASE caller[c].phase = "waiting"
  <2>1. /\ caller'[c].phase = "waiting" /\ caller'[c].clean = caller[c].clean
        /\ caller'[c].seen = caller[c].seen \cup {SnapshotOf(as, b)}
    BY <1>2 DEF Observe, Caller
  <2>2. QED
    BY <1>1, <1>2, <2>1 DEF FreshInv, FreshFor
<1>3. CASE caller[c].phase # "waiting"
  <2>1. caller'[c] = caller[c]
    BY <1>3 DEF Observe
  <2>2. QED
    BY <1>3, <2>1 DEF FreshInv, FreshFor
<1>4. QED
  BY <1>2, <1>3

\* Told ends the calls of one client and leaves the others alone.
LEMMA ToldCallers ==
  ASSUME caller \in [Callers -> Caller], NEW p, NEW ph, NEW s, Told(p, ph, s),
         NEW c \in Callers
  PROVE  \/ caller'[c] = caller[c]
         \/ /\ Home[c] = p /\ caller[c].phase = "waiting"
            /\ caller'[c].phase = ph /\ caller'[c].got = s
            /\ caller'[c].clean = caller[c].clean
            /\ caller'[c].seen = caller[c].seen
  BY DEF Told, Waiting, Caller

\* Every step keeps the answers fresh.
LEMMA FreshStep ==
  ASSUME TypeOK, FreshInv, [Next]_vars
  PROVE  FreshInv'
<1> USE LinksAssumption
<1>0. caller \in [Callers -> Caller] /\ toClient \in [Links -> Seq(ToClientPacket)]
  BY DEF TypeOK
<1>1. ASSUME NEW c \in Callers, query_advertised_peer(c)
      PROVE  FreshInv'
  <2>1. Snapshot' = Snapshot /\ \A k \in Links : OnTheWay(k)' = OnTheWay(k)
    BY <1>1 DEF query_advertised_peer, Snapshot, OnTheWay, relayVars
  <2> SUFFICES ASSUME NEW d \in Callers, caller'[d].clean
               PROVE  FreshFor(d)'
    BY DEF FreshInv
  <2>2. CASE d = c
    <3>1. /\ caller'[d].phase = "waiting" /\ caller'[d].seen = {Snapshot}
          /\ caller'[d].clean = Quiet(Home[c])
      <4> DEFINE r == [phase |-> "waiting", got |-> None,
                       seen |-> {Snapshot}, clean |-> Quiet(Home[c])]
      <4>1. caller'[d] = r
        BY <1>0, <1>1, <2>2 DEF query_advertised_peer
      <4>2. /\ r.phase = "waiting" /\ r.seen = {Snapshot}
            /\ r.clean = Quiet(Home[c])
        BY Zenon
      <4>3. QED
        BY <4>1, <4>2, Zenon
    <3>2. \A k \in Links : Owner[k] = Home[c] => OnTheWay(k) = {}
      <4>1. Quiet(Home[c])
        BY <3>1, Zenon
      <4>2. QED
        BY <4>1 DEF Quiet, OnTheWay, LinksOf
    <3>3. QED
      BY <2>1, <2>2, <3>1, <3>2 DEF FreshFor
  <2>3. CASE d # c
    <3>1. caller'[d] = caller[d]
      BY <1>0, <1>1, <2>3 DEF query_advertised_peer
    <3>2. QED
      BY <2>1, <3>1 DEF FreshInv, FreshFor
  <2>4. QED
    BY <2>2, <2>3
<1>2. ASSUME NEW c \in Callers, QueryTimeout(c)
      PROVE  FreshInv'
  <2>1. Snapshot' = Snapshot /\ \A k \in Links : OnTheWay(k)' = OnTheWay(k)
    BY <1>2 DEF QueryTimeout, Snapshot, OnTheWay, relayVars
  <2>2. ASSUME NEW d \in Callers
        PROVE  \/ caller'[d] = caller[d]
               \/ /\ caller'[d].phase = "timeout"
                  /\ caller'[d].clean = caller[d].clean
                  /\ caller'[d].seen = caller[d].seen
    BY <1>0, <1>2 DEF QueryTimeout, Caller
  <2>3. QED
    BY <2>1, <2>2, FreshKept
<1>3. ASSUME NEW p \in Clients, handle_in_event(p)
      PROVE  FreshInv'
  <2>1. Snapshot' = Snapshot /\ \A k \in Links : OnTheWay(k)' = OnTheWay(k)
    BY <1>3 DEF handle_in_event, Snapshot, OnTheWay, relayVars
  <2>2. UNCHANGED caller \/ Told(p, "refused", None)
    BY <1>3 DEF handle_in_event
  <2>3. QED
    BY <1>0, <2>1, <2>2, ToldCallers, FreshKept
<1>4. ASSUME NEW k \in Links, QueryAnswered(k)
      PROVE  FreshInv'
  <2>1. Snapshot' = Snapshot
    BY <1>4 DEF QueryAnswered, Snapshot, relayVars
  <2>2. Head(toClient[k]).list \in OnTheWay(k)
    BY <1>0, <1>4, OnTheWayTail DEF QueryAnswered, OnTheWay
  <2>3. \A l \in Links : OnTheWay(l)' \subseteq OnTheWay(l)
    BY <1>0, <1>4, OnTheWayTail DEF QueryAnswered, OnTheWay
  <2>4. Told(Owner[k], "answered", Head(toClient[k]).list)
    BY <1>4 DEF QueryAnswered
  <2>5. QED
    BY <1>0, <2>1, <2>2, <2>3, <2>4, ToldCallers, FreshKept
<1>5. ASSUME NEW k \in Links, Incoming(k)
      PROVE  FreshInv'
  <2>1. \A l \in Links : OnTheWay(l)' = OnTheWay(l)
    BY <1>5 DEF Incoming, OnTheWay
  <2>2. CASE UNCHANGED <<advertised, caller>>
    <3>1. Snapshot' = Snapshot
      BY <1>5, <2>2 DEF Incoming, Snapshot
    <3>2. QED
      BY <2>1, <2>2, <3>1, FreshKept
  <2>3. CASE Head(toRelay[k]) # Query
    <3> DEFINE as == Advertised(Owner[k], Head(toRelay[k]).state)
    <3>1. advertised' = as /\ providing' = providing /\ Observe(as, providing)
      BY <1>5, <2>3 DEF Incoming
    <3>2. QED
      BY <1>0, <2>1, <3>1, FreshObserved
  <2>4. QED
    BY <1>5, <2>2, <2>3 DEF Incoming
<1>6. ASSUME NEW k \in Links, Lose(k)
      PROVE  FreshInv'
  <2>1. Snapshot' = Snapshot /\ UNCHANGED caller
    BY <1>6 DEF Lose, Snapshot, relayVars
  <2>2. \A l \in Links : OnTheWay(l)' \subseteq OnTheWay(l)
    <3>1. CASE UNCHANGED toClient
      BY <3>1 DEF OnTheWay
    <3>2. CASE /\ toClient[k] # <<>>
               /\ toClient' = [toClient EXCEPT ![k] = Tail(@)]
      BY <1>0, <3>2, OnTheWayTail DEF OnTheWay
    <3>3. QED
      BY <1>6, <3>1, <3>2 DEF Lose
  <2>3. QED
    BY <2>1, <2>2, FreshKept
<1>7. CASE AnswerQuery
  <2>1. Snapshot' = Snapshot /\ UNCHANGED caller
    BY <1>7 DEF AnswerQuery, Snapshot
  <2>2. \A l \in Links : OnTheWay(l)' \subseteq OnTheWay(l) \cup {Snapshot}
    <3>1. CASE UNCHANGED toClient
      BY <3>1 DEF OnTheWay
    <3>2. CASE \E k \in Links :
                 toClient' = [toClient EXCEPT ![k] = Append(@, Answer(Snapshot))]
      <4>1. PICK k \in Links :
              toClient' = [toClient EXCEPT ![k] = Append(@, Answer(Snapshot))]
        BY <3>2
      <4>2. OnTheWay(k)' \subseteq OnTheWay(k) \cup {Snapshot}
        <5>1. toClient'[k] = Append(toClient[k], Answer(Snapshot))
          BY <1>0, <4>1
        <5>2. toClient[k] \in Seq(ToClientPacket)
          BY <1>0
        <5>3. ASSUME NEW i \in DOMAIN toClient'[k]
              PROVE  \/ toClient'[k][i].list = Snapshot
                     \/ /\ i \in DOMAIN toClient[k]
                        /\ toClient'[k][i] = toClient[k][i]
          <6>1. CASE i \in DOMAIN toClient[k]
            BY <5>1, <5>2, <6>1
          <6>2. CASE i \notin DOMAIN toClient[k]
            <7>1. toClient'[k][i] = Answer(Snapshot)
              BY <5>1, <5>2, <6>2
            <7>2. QED
              BY <7>1 DEF Answer
          <6>3. QED
            BY <6>1, <6>2
        <5>4. QED
          BY <5>3 DEF OnTheWay
      <4>3. \A l \in Links \ {k} : OnTheWay(l)' = OnTheWay(l)
        BY <1>0, <4>1 DEF OnTheWay
      <4>4. QED
        BY <4>2, <4>3
    <3>3. QED
      BY <1>7, <3>1, <3>2 DEF AnswerQuery, LinksOf, TypeOK
  <2>3. QED
    BY <2>1, <2>2 DEF FreshInv, FreshFor
<1>8. ASSUME NEW as, NEW b, RelayOp(as, b)
      PROVE  FreshInv'
  <2>1. \A l \in Links : OnTheWay(l)' = OnTheWay(l)
    BY <1>8 DEF RelayOp, OnTheWay
  <2>2. QED
    BY <1>0, <1>8, <2>1, FreshObserved DEF RelayOp
<1>9. ASSUME NEW k \in Links, RelayCloses(k)
      PROVE  FreshInv'
  <2>1. \A l \in Links : OnTheWay(l)' = OnTheWay(l)
    BY <1>9 DEF RelayCloses, OnTheWay
  <2>2. QED
    BY <1>0, <1>9, <2>1, FreshObserved DEF RelayCloses
<1>10. ASSUME NEW k \in Links, ClientCloses(k)
       PROVE  FreshInv'
  <2>1. Snapshot' = Snapshot /\ UNCHANGED caller
    BY <1>10 DEF ClientCloses, Snapshot, relayVars
  <2>2. \A l \in Links : OnTheWay(l)' \subseteq OnTheWay(l)
    BY <1>0, <1>10 DEF ClientCloses, OnTheWay
  <2>3. QED
    BY <2>1, <2>2, FreshKept
<1>11. ASSUME UNCHANGED <<advertised, providing, caller, toClient>>
       PROVE  FreshInv'
  BY <1>11 DEF FreshInv, FreshFor, Snapshot, OnTheWay
<1>12. ASSUME NEW k \in Links, Establish(k) \/ OutboundNegotiated(k)
       PROVE  FreshInv'
  BY <1>11, <1>12 DEF Establish, OutboundNegotiated, relayVars
<1>13. ASSUME NEW p \in Clients, NEW b \in BOOLEAN, set_remote_advertisement(p, b)
       PROVE  FreshInv'
  BY <1>11, <1>13 DEF set_remote_advertisement, relayVars
<1>14. CASE UNCHANGED vars
  BY <1>11, <1>14 DEF vars
<1>15. QED
  BY <1>1, <1>2, <1>3, <1>4, <1>5, <1>6, <1>7, <1>8, <1>9, <1>10, <1>12,
     <1>13, <1>14
  DEF Next, HandlerPoll, SetProviderState, RemoveAdvertised, ClearAdvertised

(* An answer was true at some moment of the call that returns it, if the    *)
(* call did not begin with an older answer on its way, although answers     *)
(* carry no query id and any packet may be lost (advertise.rs:38-43).       *)
THEOREM AnswersAreFresh == Spec => []FreshAnswer
<1>1. Init => FreshInv
  BY DEF Init, NewCaller, FreshInv, FreshFor
<1>2. TypeOK /\ FreshInv /\ [Next]_vars => FreshInv'
  BY FreshStep
<1>3. FreshInv => FreshAnswer
  BY DEF FreshInv, FreshFor, FreshAnswer
<1>4. QED
  BY <1>1, <1>2, <1>3, TypeCorrect, PTL DEF Spec
=============================================================================
