----------------------------- MODULE BlobProofs -----------------------------
(***************************************************************************)
(* Proofs about Blob, for every set of peers, connections and files and    *)
(* every bound: TypeCorrect, and from it the invariants of the records     *)
(* that a Behaviour keeps.                                                 *)
(***************************************************************************)
EXTENDS Blob, TLAPS

-----------------------------------------------------------------------------
(* Updates of a Behaviour.  Has(a, ...) says what a's maps and counters    *)
(* are; there is one lemma per set of fields that a method assigns.        *)

Has(a, cp, sc, rc, ps, os, pr, or) ==
  /\ a \in Behaviour
  /\ a.connected_peers = cp
  /\ a.send_counter = sc
  /\ a.recv_counter = rc
  /\ a.pending_send = ps
  /\ a.ongoing_send = os
  /\ a.pending_recv = pr
  /\ a.ongoing_recv = or

\* Queueing for handlers.
LEMMA PutQueue ==
  ASSUME NEW b \in Behaviour, NEW q \in Seq(Notification)
  PROVE  Has([b EXCEPT !.pending_handler_event = q],
             b.connected_peers, b.send_counter, b.recv_counter,
             b.pending_send, b.ongoing_send, b.pending_recv,
             b.ongoing_recv)
  BY DEF Has, Behaviour

\* Queueing for the user.
LEMMA PutOut ==
  ASSUME NEW b \in Behaviour, NEW o \in Seq(OutEvent)
  PROVE  Has([b EXCEPT !.out_events = o],
             b.connected_peers, b.send_counter, b.recv_counter,
             b.pending_send, b.ongoing_send, b.pending_recv,
             b.ongoing_recv)
  BY DEF Has, Behaviour

\* A peer is negotiated.
LEMMA PutPeers ==
  ASSUME NEW b \in Behaviour, NEW cp \in SUBSET Peers
  PROVE  Has([b EXCEPT !.connected_peers = cp],
             cp, b.send_counter, b.recv_counter, b.pending_send,
             b.ongoing_send, b.pending_recv, b.ongoing_recv)
  BY DEF Has, Behaviour

\* next_send_id.
LEMMA PutSendCounter ==
  ASSUME NEW b \in Behaviour, NEW n \in Nat
  PROVE  Has([b EXCEPT !.send_counter = n],
             b.connected_peers, n, b.recv_counter, b.pending_send,
             b.ongoing_send, b.pending_recv, b.ongoing_recv)
  BY DEF Has, Behaviour

\* A new send.
LEMMA PutPendingSend ==
  ASSUME NEW b \in Behaviour, NEW ps \in SUBSET PendingSend
  PROVE  Has([b EXCEPT !.pending_send = ps],
             b.connected_peers, b.send_counter, b.recv_counter, ps,
             b.ongoing_send, b.pending_recv, b.ongoing_recv)
  BY DEF Has, Behaviour

\* A send moves on or fails.
LEMMA PutOngoingSend ==
  ASSUME NEW b \in Behaviour, NEW os \in SUBSET OngoingSend
  PROVE  Has([b EXCEPT !.ongoing_send = os],
             b.connected_peers, b.send_counter, b.recv_counter,
             b.pending_send, os, b.pending_recv, b.ongoing_recv)
  BY DEF Has, Behaviour

\* A send is accepted or cancelled.
LEMMA PutSends ==
  ASSUME NEW b \in Behaviour, NEW ps \in SUBSET PendingSend,
         NEW os \in SUBSET OngoingSend
  PROVE  Has([b EXCEPT !.pending_send = ps, !.ongoing_send = os],
             b.connected_peers, b.send_counter, b.recv_counter, ps, os,
             b.pending_recv, b.ongoing_recv)
  BY DEF Has, Behaviour

\* A pending recv goes.
LEMMA PutPendingRecv ==
  ASSUME NEW b \in Behaviour, NEW pr \in SUBSET PendingRecv
  PROVE  Has([b EXCEPT !.pending_recv = pr],
             b.connected_peers, b.send_counter, b.recv_counter,
             b.pending_send, b.ongoing_send, pr, b.ongoing_recv)
  BY DEF Has, Behaviour

\* A chunk is written, or a recv ends.
LEMMA PutOngoingRecv ==
  ASSUME NEW b \in Behaviour, NEW or \in SUBSET OngoingRecv
  PROVE  Has([b EXCEPT !.ongoing_recv = or],
             b.connected_peers, b.send_counter, b.recv_counter,
             b.pending_send, b.ongoing_send, b.pending_recv, or)
  BY DEF Has, Behaviour

\* A recv is accepted or cancelled.
LEMMA PutRecvs ==
  ASSUME NEW b \in Behaviour, NEW pr \in SUBSET PendingRecv,
         NEW or \in SUBSET OngoingRecv
  PROVE  Has([b EXCEPT !.pending_recv = pr, !.ongoing_recv = or],
             b.connected_peers, b.send_counter, b.recv_counter,
             b.pending_send, b.ongoing_send, pr, or)
  BY DEF Has, Behaviour

\* A new recv.
LEMMA PutNewRecv ==
  ASSUME NEW b \in Behaviour, NEW n \in Nat, NEW pr \in SUBSET PendingRecv
  PROVE  Has([b EXCEPT !.recv_counter = n, !.pending_recv = pr],
             b.connected_peers, b.send_counter, n, b.pending_send,
             b.ongoing_send, pr, b.ongoing_recv)
  BY DEF Has, Behaviour

\* on_disconnect.
LEMMA PutDisconnect ==
  ASSUME NEW b \in Behaviour, NEW cp \in SUBSET Peers,
         NEW ps \in SUBSET PendingSend, NEW pr \in SUBSET PendingRecv,
         NEW os \in SUBSET OngoingSend, NEW or \in SUBSET OngoingRecv
  PROVE  Has([b EXCEPT !.connected_peers = cp, !.pending_send = ps,
                       !.pending_recv = pr, !.ongoing_send = os,
                       !.ongoing_recv = or],
             cp, b.send_counter, b.recv_counter, ps, os, pr, or)
  BY DEF Has, Behaviour

\* check_expiry.
LEMMA PutExpiry ==
  ASSUME NEW b \in Behaviour, NEW ps \in SUBSET PendingSend,
         NEW pr \in SUBSET PendingRecv, NEW os \in SUBSET OngoingSend,
         NEW or \in SUBSET OngoingRecv, NEW q \in Seq(Notification),
         NEW o \in Seq(OutEvent)
  PROVE  Has([b EXCEPT !.pending_send = ps, !.pending_recv = pr,
                       !.ongoing_send = os, !.ongoing_recv = or,
                       !.pending_handler_event = q, !.out_events = o],
             b.connected_peers, b.send_counter, b.recv_counter, ps, os,
             pr, or)
  BY DEF Has, Behaviour

-----------------------------------------------------------------------------
(* What the invariants say of one Behaviour.  C is the set of peers its    *)
(* swarm has a connection to, K the set of its cancelled sends.            *)

Held(b, C) ==
  /\ b.connected_peers \subseteq C
  /\ \A r \in Sends(b) \cup Recvs(b) : r.remote \in C

Kept(b, K) ==
  /\ \A s \in Sends(b) : s.local_send_id \notin K
  /\ \A id \in K : id < b.send_counter

Good(b, C, K) == b \in Behaviour /\ Ids(b) /\ Held(b, C) /\ Kept(b, K)

\* a has no record that b does not have.
Shrinks(b, a) ==
  /\ a \in Behaviour
  /\ a.connected_peers \subseteq b.connected_peers
  /\ b.send_counter <= a.send_counter
  /\ b.recv_counter = a.recv_counter
  /\ a.pending_send \subseteq b.pending_send
  /\ a.ongoing_send \subseteq b.ongoing_send
  /\ a.pending_recv \subseteq b.pending_recv
  /\ a.ongoing_recv \subseteq b.ongoing_recv

\* What an update has to assign to be a Shrinks.
LEMMA HasShrinks ==
  ASSUME NEW b \in Behaviour, NEW a,
         NEW cp \in SUBSET b.connected_peers, NEW sc \in Nat,
         b.send_counter <= sc,
         NEW ps \in SUBSET b.pending_send, NEW os \in SUBSET b.ongoing_send,
         NEW pr \in SUBSET b.pending_recv, NEW or \in SUBSET b.ongoing_recv,
         Has(a, cp, sc, b.recv_counter, ps, os, pr, or)
  PROVE  Shrinks(b, a)
  BY DEF Has, Shrinks

\* Methods that call one another shrink as a whole.
LEMMA ShrinksTrans ==
  ASSUME NEW b \in Behaviour, NEW a, NEW d, Shrinks(b, a), Shrinks(a, d)
  PROVE  Shrinks(b, d)
  BY DEF Shrinks, Behaviour

\* A method that adds no record and reuses no id keeps what holds.
LEMMA ShrinksGood ==
  ASSUME NEW b, NEW a, Shrinks(b, a), NEW C, NEW K \in SUBSET Nat,
         Good(b, C, K)
  PROVE  Good(a, C, K)
  <1>0. a \in Behaviour BY DEF Shrinks
  <1>1. Sends(a) \subseteq Sends(b) /\ Recvs(a) \subseteq Recvs(b)
    BY DEF Shrinks, Sends, Recvs
  <1>2. /\ \A s \in Sends(b) : s.local_send_id \in Nat
        /\ b.send_counter \in Nat /\ a.send_counter \in Nat
        /\ b.send_counter <= a.send_counter
        /\ b.recv_counter = a.recv_counter
    BY <1>0 DEF Good, Shrinks, Behaviour, Sends, PendingSend, OngoingSend
  <1>3. Ids(a)
    BY <1>1, <1>2 DEF Good, Ids, Shrinks
  <1>4. Held(a, C)
    BY <1>1 DEF Good, Held, Shrinks
  <1>5. Kept(a, K)
    BY <1>1, <1>2 DEF Good, Kept
  <1> QED BY <1>0, <1>3, <1>4, <1>5 DEF Good

\* A pending record is never also an ongoing one: it has fewer fields.
LEMMA Disjoint ==
  /\ PendingSend \cap OngoingSend = {}
  /\ PendingRecv \cap OngoingRecv = {}
  <1>1. ASSUME NEW s \in PendingSend, s \in OngoingSend PROVE FALSE
    BY <1>1 DEF PendingSend, OngoingSend
  <1>2. ASSUME NEW s \in PendingRecv, s \in OngoingRecv PROVE FALSE
    BY <1>2 DEF PendingRecv, OngoingRecv
  <1> QED BY <1>1, <1>2

-----------------------------------------------------------------------------
(* Methods that add no record. *)

\* The messages that methods queue.
LEMMA Messages ==
  /\ \A id \in Nat, f \in Files, n \in Nat :
       /\ Message("IncomingFile", id, <<<<f, n>>>>) \in Msg
       /\ Message("FileChunk", id, <<<<f, n>>>>) \in Msg
  BY DEF Message, Msg, MsgType, Chunk

\* The messages without a body.
LEMMA EmptyMessages ==
  ASSUME NEW id \in Nat
  PROVE  /\ Message("AcceptFile", id, <<>>) \in Msg
         /\ Message("CancelSend", id, <<>>) \in Msg
         /\ Message("CancelRecv", id, <<>>) \in Msg
         /\ Message("FileChunk", id, <<>>) \in Msg
  BY DEF Message, Msg, MsgType, Chunk

\* Notify touches the queue only.
LEMMA NotifyShrinks ==
  ASSUME NEW b \in Behaviour, NEW q \in Peers, NEW m \in Msg
  PROVE  Shrinks(b, Notify(b, q, m))
  <1> DEFINE s == Append(b.pending_handler_event, [to |-> q, msg |-> m])
  <1>1. s \in Seq(Notification)
    BY DEF Behaviour, Notification
  <1>2. Has([b EXCEPT !.pending_handler_event = s],
            b.connected_peers, b.send_counter, b.recv_counter,
            b.pending_send, b.ongoing_send, b.pending_recv, b.ongoing_recv)
    BY <1>1, PutQueue, Zenon
  <1>3. b.send_counter \in Nat /\ b.send_counter <= b.send_counter
    BY DEF Behaviour
  <1> QED BY <1>2, <1>3, HasShrinks, Zenon DEF Notify

\* Emit touches the queue only.
LEMMA EmitShrinks ==
  ASSUME NEW b \in Behaviour, NEW t \in OutType, NEW id \in Nat, NEW n \in Nat
  PROVE  Shrinks(b, Emit(b, t, id, n))
  <1> DEFINE s == Append(b.out_events, [type |-> t, id |-> id, n |-> n])
  <1>1. s \in Seq(OutEvent)
    BY DEF Behaviour, OutEvent
  <1>2. Has([b EXCEPT !.out_events = s],
            b.connected_peers, b.send_counter, b.recv_counter,
            b.pending_send, b.ongoing_send, b.pending_recv, b.ongoing_recv)
    BY <1>1, PutOut, Zenon
  <1>3. b.send_counter \in Nat /\ b.send_counter <= b.send_counter
    BY DEF Behaviour
  <1> QED BY <1>2, <1>3, HasShrinks, Zenon DEF Emit

\* Removing records from the maps of sends or of recvs.
LEMMA RemoveShrinks ==
  ASSUME NEW b \in Behaviour, NEW X
  PROVE  /\ Shrinks(b, [b EXCEPT !.pending_send = @ \ X, !.ongoing_send = @ \ X])
         /\ Shrinks(b, [b EXCEPT !.pending_recv = @ \ X, !.ongoing_recv = @ \ X])
         /\ Shrinks(b, [b EXCEPT !.ongoing_send = @ \ X])
         /\ Shrinks(b, [b EXCEPT !.pending_recv = @ \ X])
         /\ Shrinks(b, [b EXCEPT !.ongoing_recv = @ \ X])
  <1> DEFINE ps == b.pending_send \ X
             os == b.ongoing_send \ X
             pr == b.pending_recv \ X
             or == b.ongoing_recv \ X
  <1>1. /\ b.send_counter \in Nat /\ b.send_counter <= b.send_counter
        /\ ps \in SUBSET b.pending_send /\ ps \in SUBSET PendingSend
        /\ os \in SUBSET b.ongoing_send /\ os \in SUBSET OngoingSend
        /\ pr \in SUBSET b.pending_recv /\ pr \in SUBSET PendingRecv
        /\ or \in SUBSET b.ongoing_recv /\ or \in SUBSET OngoingRecv
        /\ b.connected_peers \in SUBSET b.connected_peers
        /\ b.pending_send \in SUBSET b.pending_send
        /\ b.ongoing_send \in SUBSET b.ongoing_send
        /\ b.pending_recv \in SUBSET b.pending_recv
        /\ b.ongoing_recv \in SUBSET b.ongoing_recv
    BY DEF Behaviour
  <1> HIDE DEF ps, os, pr, or
  <1>2. Shrinks(b, [b EXCEPT !.pending_send = ps, !.ongoing_send = os])
    BY <1>1, PutSends, HasShrinks, Zenon
  <1>3. Shrinks(b, [b EXCEPT !.pending_recv = pr, !.ongoing_recv = or])
    BY <1>1, PutRecvs, HasShrinks, Zenon
  <1>4. Shrinks(b, [b EXCEPT !.ongoing_send = os])
    BY <1>1, PutOngoingSend, HasShrinks, Zenon
  <1>5. Shrinks(b, [b EXCEPT !.pending_recv = pr])
    BY <1>1, PutPendingRecv, HasShrinks, Zenon
  <1>6. Shrinks(b, [b EXCEPT !.ongoing_recv = or])
    BY <1>1, PutOngoingRecv, HasShrinks, Zenon
  <1> QED BY <1>2, <1>3, <1>4, <1>5, <1>6, Zenon DEF ps, os, pr, or

\* next_send_id
LEMMA NextSendIdShrinks ==
  ASSUME NEW b \in Behaviour
  PROVE  Shrinks(b, next_send_id(b))
  <1> DEFINE n == b.send_counter + 1
  <1>1. n \in Nat /\ b.send_counter <= n
    BY DEF Behaviour
  <1> HIDE DEF n
  <1>2. Shrinks(b, [b EXCEPT !.send_counter = n])
    BY <1>1, PutSendCounter, HasShrinks, Zenon
  <1> QED BY <1>2 DEF n, next_send_id

\* cancel_recv_by_local_recv_id
LEMMA CancelRecvShrinks ==
  ASSUME NEW b \in Behaviour, NEW id \in Nat, NEW r \in Recvs(b)
  PROVE  Shrinks(b, cancel_recv_by_local_recv_id(b, id, r))
  <1> DEFINE a == [b EXCEPT !.pending_recv = @ \ {r}, !.ongoing_recv = @ \ {r}]
             m == Message("CancelRecv", r.remote_send_id, <<>>)
  <1>1. r.remote \in Peers /\ r.remote_send_id \in Nat
    BY DEF Recvs, Behaviour, PendingRecv, OngoingRecv
  <1>2. Shrinks(b, a)
    BY RemoveShrinks, Zenon
  <1>3. m \in Msg
    BY <1>1, EmptyMessages, Zenon
  <1>4. "CancelledRecv" \in OutType /\ 0 \in Nat
    BY DEF OutType
  <1>5. cancel_recv_by_local_recv_id(b, id, r)
          = Emit(Notify(a, r.remote, m), "CancelledRecv", id, 0)
    BY DEF cancel_recv_by_local_recv_id
  <1> HIDE DEF a, m
  <1>6. a \in Behaviour /\ Shrinks(a, Notify(a, r.remote, m))
    BY <1>1, <1>2, <1>3, NotifyShrinks DEF Shrinks
  <1>7. Shrinks(Notify(a, r.remote, m),
                Emit(Notify(a, r.remote, m), "CancelledRecv", id, 0))
    BY <1>4, <1>6, EmitShrinks, Zenon DEF Shrinks
  <1> QED BY <1>2, <1>5, <1>6, <1>7, ShrinksTrans, Zenon

\* cancel_send_by_local_send_id
LEMMA CancelSendShrinks ==
  ASSUME NEW b \in Behaviour, NEW s \in Sends(b)
  PROVE  Shrinks(b, cancel_send_by_local_send_id(b, s))
  <1> DEFINE a == [b EXCEPT !.pending_send = @ \ {s}, !.ongoing_send = @ \ {s}]
             m == Message("CancelSend", s.local_send_id, <<>>)
  <1>1. s.remote \in Peers /\ s.local_send_id \in Nat
    BY DEF Sends, Behaviour, PendingSend, OngoingSend
  <1>2. Shrinks(b, a)
    BY RemoveShrinks, Zenon
  <1>3. m \in Msg
    BY <1>1, EmptyMessages, Zenon
  <1>4. cancel_send_by_local_send_id(b, s) = Notify(a, s.remote, m)
    BY DEF cancel_send_by_local_send_id
  <1> HIDE DEF a, m
  <1>5. Shrinks(a, Notify(a, s.remote, m))
    BY <1>1, <1>2, <1>3, NotifyShrinks DEF Shrinks
  <1> QED BY <1>2, <1>4, <1>5, ShrinksTrans, Zenon

\* No record of a cancelled send is left.
LEMMA CancelSendRemoves ==
  ASSUME NEW b \in Behaviour, Ids(b), NEW s \in Sends(b)
  PROVE  \A t \in Sends(cancel_send_by_local_send_id(b, s)) :
           t.local_send_id # s.local_send_id
  <1> DEFINE a == [b EXCEPT !.pending_send = @ \ {s}, !.ongoing_send = @ \ {s}]
             d == cancel_send_by_local_send_id(b, s)
  <1>1. a.pending_send = b.pending_send \ {s} /\ a.ongoing_send = b.ongoing_send \ {s}
    BY DEF Behaviour
  <1>2. a \in Behaviour
    BY RemoveShrinks, Zenon DEF Shrinks
  <1>3. d = Notify(a, s.remote, Message("CancelSend", s.local_send_id, <<>>))
    BY DEF cancel_send_by_local_send_id
  <1> HIDE DEF a
  <1>4. d.pending_send = a.pending_send /\ d.ongoing_send = a.ongoing_send
    BY <1>2, <1>3 DEF Notify, Behaviour
  <1> HIDE DEF d
  <1>5. \A t \in Sends(d) : t \in Sends(b) /\ t # s
    BY <1>1, <1>4 DEF Sends
  <1>6. \A t \in Sends(d) : t.local_send_id # s.local_send_id
    BY <1>5 DEF Ids
  <1> QED BY <1>6 DEF d

\* end_recv
LEMMA EndRecvShrinks ==
  ASSUME NEW b \in Behaviour, NEW o \in b.ongoing_recv, NEW t \in OutType,
         NEW n \in Nat
  PROVE  Shrinks(b, end_recv(b, o, t, n))
  <1> DEFINE a == [b EXCEPT !.ongoing_recv = @ \ {o}]
  <1>1. o.local_recv_id \in Nat
    BY DEF Behaviour, OngoingRecv
  <1>2. Shrinks(b, a)
    BY RemoveShrinks, Zenon
  <1>3. end_recv(b, o, t, n) = Emit(a, t, o.local_recv_id, n)
    BY DEF end_recv
  <1> HIDE DEF a
  <1>4. Shrinks(a, Emit(a, t, o.local_recv_id, n))
    BY <1>1, <1>2, EmitShrinks, Zenon DEF Shrinks
  <1> QED BY <1>2, <1>3, <1>4, ShrinksTrans, Zenon

\* on_disconnect
LEMMA OnDisconnectShrinks ==
  ASSUME NEW b \in Behaviour, NEW q \in Peers
  PROVE  /\ Shrinks(b, on_disconnect(b, q))
         /\ q \notin on_disconnect(b, q).connected_peers
         /\ \A r \in Sends(on_disconnect(b, q)) \cup Recvs(on_disconnect(b, q)) :
              r.remote # q
  <1> DEFINE cp == b.connected_peers \ {q}
             ps == {s \in b.pending_send : s.remote # q}
             pr == {r \in b.pending_recv : r.remote # q}
             os == {s \in b.ongoing_send : s.remote # q}
             or == {r \in b.ongoing_recv : r.remote # q}
             a  == on_disconnect(b, q)
  <1>1. /\ cp \in SUBSET b.connected_peers /\ cp \in SUBSET Peers
        /\ ps \in SUBSET b.pending_send /\ ps \in SUBSET PendingSend
        /\ os \in SUBSET b.ongoing_send /\ os \in SUBSET OngoingSend
        /\ pr \in SUBSET b.pending_recv /\ pr \in SUBSET PendingRecv
        /\ or \in SUBSET b.ongoing_recv /\ or \in SUBSET OngoingRecv
        /\ b.send_counter \in Nat /\ b.send_counter <= b.send_counter
    BY DEF Behaviour
  <1>2. q \notin cp /\ \A r \in ps \cup os \cup pr \cup or : r.remote # q
    OBVIOUS
  <1>3. a = [b EXCEPT !.connected_peers = cp, !.pending_send = ps,
                      !.pending_recv = pr, !.ongoing_send = os,
                      !.ongoing_recv = or]
    BY DEF on_disconnect
  <1> HIDE DEF cp, ps, pr, os, or, a
  <1>4. Has(a, cp, b.send_counter, b.recv_counter, ps, os, pr, or)
    BY <1>1, <1>3, PutDisconnect, Zenon
  <1>5. Shrinks(b, a)
    BY <1>1, <1>4, HasShrinks, Zenon
  <1>6. q \notin a.connected_peers /\ \A r \in Sends(a) \cup Recvs(a) : r.remote # q
    BY <1>2, <1>4 DEF Has, Sends, Recvs
  <1> QED BY <1>5, <1>6 DEF a

\* The records that may have expired, in some order, are some of the records.
LEMMA ExpirableSeq ==
  ASSUME NEW map, NEW S, NEW s \in Expirable(map, S)
  PROVE  s \in Seq(S)
  <1>1. CASE map \in Timeouts
    <2>1. PICK n \in 0..Cardinality(S) : s \in [1..n -> S]
      BY <1>1 DEF Expirable
    <2>2. n \in Nat
      BY <2>1
    <2> QED BY <2>1, <2>2
  <1>2. CASE map \notin Timeouts
    BY <1>2 DEF Expirable
  <1> QED BY <1>1, <1>2

\* What check_expiry tells the remotes of expired sends.
LEMMA CancelSendsType ==
  ASSUME NEW S, NEW s \in Seq(S),
         \A x \in S : x.remote \in Peers /\ x.local_send_id \in Nat
  PROVE  CancelSends(s) \in Seq(Notification)
  <1>1. \A i \in DOMAIN s :
          [to |-> s[i].remote,
           msg |-> Message("CancelSend", s[i].local_send_id, <<>>)] \in Notification
    <2> SUFFICES ASSUME NEW i \in DOMAIN s
                 PROVE  [to |-> s[i].remote,
                         msg |-> Message("CancelSend", s[i].local_send_id, <<>>)]
                          \in Notification
      OBVIOUS
    <2>1. s[i] \in S
      OBVIOUS
    <2>2. Message("CancelSend", s[i].local_send_id, <<>>) \in Msg
      BY <2>1, EmptyMessages, Zenon
    <2> QED BY <2>1, <2>2 DEF Notification
  <1>2. DOMAIN s = 1..Len(s) /\ Len(s) \in Nat
    OBVIOUS
  <1> QED BY <1>1, <1>2 DEF CancelSends

\* What check_expiry tells the remotes of expired recvs.
LEMMA CancelRecvsType ==
  ASSUME NEW S, NEW s \in Seq(S),
         \A x \in S : x.remote \in Peers /\ x.remote_send_id \in Nat
  PROVE  CancelRecvs(s) \in Seq(Notification)
  <1>1. \A i \in DOMAIN s :
          [to |-> s[i].remote,
           msg |-> Message("CancelRecv", s[i].remote_send_id, <<>>)] \in Notification
    <2> SUFFICES ASSUME NEW i \in DOMAIN s
                 PROVE  [to |-> s[i].remote,
                         msg |-> Message("CancelRecv", s[i].remote_send_id, <<>>)]
                          \in Notification
      OBVIOUS
    <2>1. s[i] \in S
      OBVIOUS
    <2>2. Message("CancelRecv", s[i].remote_send_id, <<>>) \in Msg
      BY <2>1, EmptyMessages, Zenon
    <2> QED BY <2>1, <2>2 DEF Notification
  <1>2. DOMAIN s = 1..Len(s) /\ Len(s) \in Nat
    OBVIOUS
  <1> QED BY <1>1, <1>2 DEF CancelRecvs

\* check_expiry takes each expired record from the map it is in.
LEMMA ExpiriesSeq ==
  ASSUME NEW b, NEW x \in Expiries(b) \cup {NotThrottled}
  PROVE  /\ x.ps \in Seq(b.pending_send) /\ x.pr \in Seq(b.pending_recv)
         /\ x.os \in Seq(b.ongoing_send) /\ x.or \in Seq(ongoing_recv_hits(b))
  <1>1. CASE x \in Expiries(b)
    <2>1. /\ x.ps \in Expirable("pending_send", b.pending_send)
          /\ x.pr \in Expirable("pending_recv", b.pending_recv)
          /\ x.os \in Expirable("ongoing_send", b.ongoing_send)
          /\ x.or \in Expirable("ongoing_recv", ongoing_recv_hits(b))
      BY <1>1 DEF Expiries
    <2> QED BY <2>1, ExpirableSeq, Zenon
  <1>2. CASE x = NotThrottled
    BY <1>2 DEF NotThrottled
  <1> QED BY <1>1, <1>2

\* check_expiry
LEMMA CheckExpiryShrinks ==
  ASSUME NEW b \in Behaviour, NEW x \in Expiries(b) \cup {NotThrottled}
  PROVE  Shrinks(b, check_expiry(b, x))
  <1> DEFINE ps == b.pending_send \ Elements(x.ps)
             pr == b.pending_recv \ Elements(x.pr)
             os == b.ongoing_send \ Elements(x.os)
             or == b.ongoing_recv \ Elements(x.or)
             q1 == b.pending_handler_event \o CancelSends(x.ps)
                     \o CancelRecvs(x.pr)
                     \o CancelSends(x.os) \o CancelRecvs(x.or)
             o1 == [i \in DOMAIN x.pr |-> [type |-> "CancelledRecv",
                      id |-> x.pr[i].local_recv_id, n |-> 0]]
             o2 == [i \in DOMAIN x.or |-> [type |-> "CancelledRecv",
                      id |-> x.or[i].remote_send_id, n |-> 0]]
             o3 == b.out_events \o o1 \o o2
  <1>1. /\ x.ps \in Seq(b.pending_send) /\ x.pr \in Seq(b.pending_recv)
        /\ x.os \in Seq(b.ongoing_send) /\ x.or \in Seq(ongoing_recv_hits(b))
    BY ExpiriesSeq, Zenon
  <1>2. /\ \A s \in b.pending_send : s.remote \in Peers /\ s.local_send_id \in Nat
        /\ \A s \in b.ongoing_send : s.remote \in Peers /\ s.local_send_id \in Nat
        /\ \A r \in b.pending_recv : /\ r.remote \in Peers
                                     /\ r.remote_send_id \in Nat
                                     /\ r.local_recv_id \in Nat
        /\ \A r \in ongoing_recv_hits(b) : /\ r.remote \in Peers
                                           /\ r.remote_send_id \in Nat
    BY DEF Behaviour, PendingSend, OngoingSend, PendingRecv, OngoingRecv,
           ongoing_recv_hits
  <1>3. q1 \in Seq(Notification)
    <2>1. CancelSends(x.ps) \in Seq(Notification)
      BY <1>1, <1>2, CancelSendsType, Zenon
    <2>2. CancelRecvs(x.pr) \in Seq(Notification)
      BY <1>1, <1>2, CancelRecvsType, Zenon
    <2>3. CancelSends(x.os) \in Seq(Notification)
      BY <1>1, <1>2, CancelSendsType, Zenon
    <2>4. CancelRecvs(x.or) \in Seq(Notification)
      BY <1>1, <1>2, CancelRecvsType, Zenon
    <2>5. b.pending_handler_event \in Seq(Notification)
      BY DEF Behaviour
    <2> QED BY <2>1, <2>2, <2>3, <2>4, <2>5
  <1>4. o1 \in Seq(OutEvent)
    <2>1. \A i \in DOMAIN x.pr : x.pr[i] \in b.pending_recv
      BY <1>1
    <2>2. \A i \in DOMAIN x.pr :
            [type |-> "CancelledRecv", id |-> x.pr[i].local_recv_id, n |-> 0]
               \in OutEvent
      BY <1>2, <2>1 DEF OutEvent, OutType
    <2>3. DOMAIN x.pr = 1..Len(x.pr) /\ Len(x.pr) \in Nat
      BY <1>1
    <2> QED BY <2>2, <2>3
  <1>5. o2 \in Seq(OutEvent)
    <2>1. \A i \in DOMAIN x.or : x.or[i] \in ongoing_recv_hits(b)
      BY <1>1
    <2>2. \A i \in DOMAIN x.or :
            [type |-> "CancelledRecv", id |-> x.or[i].remote_send_id, n |-> 0]
               \in OutEvent
      BY <1>2, <2>1 DEF OutEvent, OutType
    <2>3. DOMAIN x.or = 1..Len(x.or) /\ Len(x.or) \in Nat
      BY <1>1
    <2> QED BY <2>2, <2>3
  <1>6. o3 \in Seq(OutEvent)
    <2>1. b.out_events \in Seq(OutEvent)
      BY DEF Behaviour
    <2> HIDE DEF o1, o2
    <2> QED BY <1>4, <1>5, <2>1
  <1>7. /\ ps \in SUBSET b.pending_send /\ ps \in SUBSET PendingSend
        /\ os \in SUBSET b.ongoing_send /\ os \in SUBSET OngoingSend
        /\ pr \in SUBSET b.pending_recv /\ pr \in SUBSET PendingRecv
        /\ or \in SUBSET b.ongoing_recv /\ or \in SUBSET OngoingRecv
        /\ b.connected_peers \in SUBSET b.connected_peers
        /\ b.send_counter \in Nat /\ b.send_counter <= b.send_counter
    BY DEF Behaviour
  <1>8. check_expiry(b, x) =
          [b EXCEPT !.pending_send = ps, !.pending_recv = pr,
                    !.ongoing_send = os, !.ongoing_recv = or,
                    !.pending_handler_event = q1, !.out_events = o3]
    BY DEF check_expiry
  <1> HIDE DEF ps, pr, os, or, q1, o1, o2, o3
  <1>9. Has([b EXCEPT !.pending_send = ps, !.pending_recv = pr,
                       !.ongoing_send = os, !.ongoing_recv = or,
                       !.pending_handler_event = q1, !.out_events = o3],
             b.connected_peers, b.send_counter, b.recv_counter, ps, os, pr, or)
    BY <1>3, <1>6, <1>7, PutExpiry
  <1> QED BY <1>7, <1>8, <1>9, HasShrinks, Zenon

-----------------------------------------------------------------------------
(* Methods that add or replace a record. *)

\* queue_send, to a peer the swarm is connected to.
LEMMA QueueSendGood ==
  ASSUME NEW b, NEW C, NEW K \in SUBSET Nat, Good(b, C, K),
         NEW q \in Peers, q \in C, NEW f \in Files
  PROVE  Good(queue_send(b, q, f), C, K)
  <1> DEFINE s == [local_send_id |-> b.send_counter, remote |-> q, file |-> f]
             d == next_send_id(b)
             a == [d EXCEPT !.pending_send = @ \cup {s}]
             m == Message("IncomingFile", b.send_counter, <<<<f, FileLen[f]>>>>)
  <1>1. b \in Behaviour /\ b.send_counter \in Nat /\ d \in Behaviour
    BY NextSendIdShrinks DEF Good, Behaviour, Shrinks
  <1>2. /\ s \in PendingSend /\ s.local_send_id = b.send_counter
        /\ s.remote = q
    BY <1>1 DEF PendingSend
  <1>3. m \in Msg
    BY <1>1, FilesAssumption, Messages
  <1>4. queue_send(b, q, f) = Notify(a, q, m)
    BY DEF queue_send
  <1>5. /\ d.send_counter = b.send_counter + 1
        /\ d.connected_peers = b.connected_peers
        /\ d.recv_counter = b.recv_counter
        /\ d.pending_send = b.pending_send /\ d.ongoing_send = b.ongoing_send
        /\ d.pending_recv = b.pending_recv /\ d.ongoing_recv = b.ongoing_recv
    BY <1>1 DEF next_send_id, Behaviour
  <1> HIDE DEF s, d, m
  <1>6. d.pending_send \cup {s} \in SUBSET PendingSend
    BY <1>1, <1>2 DEF Behaviour
  <1>7. Has(a, d.connected_peers, d.send_counter, d.recv_counter,
            d.pending_send \cup {s}, d.ongoing_send, d.pending_recv,
            d.ongoing_recv)
    BY <1>1, <1>6, PutPendingSend, Zenon
  <1> HIDE DEF a
  <1>8. /\ Sends(a) = Sends(b) \cup {s} /\ Recvs(a) = Recvs(b)
        /\ a.send_counter = b.send_counter + 1
        /\ a.recv_counter = b.recv_counter
        /\ a.connected_peers = b.connected_peers
        /\ a.ongoing_recv = b.ongoing_recv
        /\ a \in Behaviour
    BY <1>5, <1>7 DEF Has, Sends, Recvs
  <1>9. \A t \in Sends(b) : t.local_send_id \in Nat
    BY <1>1 DEF Sends, Behaviour, PendingSend, OngoingSend
  <1>10. Ids(a)
    BY <1>1, <1>2, <1>8, <1>9 DEF Good, Ids
  <1>11. Held(a, C)
    BY <1>2, <1>8 DEF Good, Held
  <1>12. Kept(a, K)
    BY <1>1, <1>2, <1>8 DEF Good, Kept
  <1>13. Good(a, C, K)
    BY <1>8, <1>10, <1>11, <1>12 DEF Good
  <1>14. Shrinks(a, Notify(a, q, m))
    BY <1>3, <1>8, NotifyShrinks
  <1> QED BY <1>4, <1>13, <1>14, ShrinksGood, Zenon

\* on_new_pending_recv, for a peer the swarm is connected to.
LEMMA OnNewPendingRecvGood ==
  ASSUME NEW b, NEW C, NEW K \in SUBSET Nat, Good(b, C, K),
         NEW q \in Peers, q \in C, NEW id \in Nat, NEW name \in Files,
         NEW total \in Nat
  PROVE  Good(on_new_pending_recv(b, q, id, name, total), C, K)
  <1> DEFINE r == [local_recv_id |-> b.recv_counter, remote_send_id |-> id,
                   remote |-> q, file |-> name, bytes_total |-> total]
             n == b.recv_counter + 1
             pr == b.pending_recv \cup {r}
             a == [b EXCEPT !.recv_counter = n, !.pending_recv = pr]
  <1>1. b \in Behaviour /\ b.recv_counter \in Nat
    BY DEF Good, Behaviour
  <1>2. /\ r \in PendingRecv /\ r.local_recv_id = b.recv_counter
        /\ r.remote = q
    BY <1>1 DEF PendingRecv
  <1>3. on_new_pending_recv(b, q, id, name, total)
          = Emit(a, "IncomingFile", b.recv_counter, total)
    BY Zenon DEF on_new_pending_recv
  <1>4. "IncomingFile" \in OutType /\ n \in Nat
    BY <1>1 DEF OutType
  <1> HIDE DEF r
  <1>5. pr \in SUBSET PendingRecv
    BY <1>1, <1>2 DEF Behaviour
  <1>6. Has(a, b.connected_peers, b.send_counter, n, b.pending_send,
            b.ongoing_send, pr, b.ongoing_recv)
    BY <1>1, <1>4, <1>5, PutNewRecv, Zenon
  <1> HIDE DEF a
  <1>7. /\ Recvs(a) = Recvs(b) \cup {r} /\ Sends(a) = Sends(b)
        /\ a.recv_counter = b.recv_counter + 1
        /\ a.send_counter = b.send_counter
        /\ a.connected_peers = b.connected_peers
        /\ a.ongoing_recv = b.ongoing_recv
        /\ a \in Behaviour
    BY <1>6 DEF Has, Sends, Recvs
  <1>8. \A t \in Recvs(b) : t.local_recv_id \in Nat
    BY <1>1 DEF Recvs, Behaviour, PendingRecv, OngoingRecv
  <1>9. Ids(a)
    BY <1>1, <1>2, <1>7, <1>8 DEF Good, Ids
  <1>10. Held(a, C) /\ Kept(a, K)
    BY <1>2, <1>7 DEF Good, Held, Kept
  <1>11. Good(a, C, K)
    BY <1>7, <1>9, <1>10 DEF Good
  <1>12. Shrinks(a, Emit(a, "IncomingFile", b.recv_counter, total))
    BY <1>1, <1>4, <1>7, EmitShrinks, Zenon
  <1> QED BY <1>3, <1>11, <1>12, ShrinksGood, Zenon

\* accept_pending_recv: the record changes map and keeps its local id.
LEMMA AcceptPendingRecvGood ==
  ASSUME NEW b, NEW C, NEW K \in SUBSET Nat, Good(b, C, K),
         NEW r \in b.pending_recv
  PROVE  Good(accept_pending_recv(b, r), C, K)
  <1> DEFINE o  == [local_recv_id |-> r.local_recv_id,
                    remote_send_id |-> r.remote_send_id, remote |-> r.remote,
                    file |-> r.file, bytes_total |-> r.bytes_total,
                    data |-> <<>>]
             pr == b.pending_recv \ {r}
             or == {t \in b.ongoing_recv : t.remote_send_id # r.remote_send_id}
                     \cup {o}
             a  == [b EXCEPT !.pending_recv = pr, !.ongoing_recv = or]
             m  == Message("AcceptFile", r.remote_send_id, <<>>)
  <1>1. /\ b \in Behaviour /\ r \in PendingRecv
        /\ r.remote_send_id \in Nat /\ r.remote \in Peers
    BY DEF Good, Behaviour, PendingRecv
  <1>2. /\ o \in OngoingRecv /\ o.local_recv_id = r.local_recv_id
        /\ o.remote = r.remote /\ o.remote_send_id = r.remote_send_id
    BY <1>1 DEF PendingRecv, OngoingRecv
  <1>3. m \in Msg
    BY <1>1, EmptyMessages, Zenon
  <1>4. accept_pending_recv(b, r) = Notify(a, r.remote, m)
    BY Zenon DEF accept_pending_recv
  <1> HIDE DEF o, m
  <1>5. pr \in SUBSET PendingRecv /\ or \in SUBSET OngoingRecv
    BY <1>1, <1>2 DEF Behaviour
  <1>6. /\ pr \subseteq Recvs(b) \ {r} /\ or \subseteq (Recvs(b) \ {r}) \cup {o}
        /\ \A t, u \in or : t.remote_send_id = u.remote_send_id => t = u
    BY <1>1, <1>2, Disjoint DEF Good, Ids, Recvs, Behaviour
  <1> HIDE DEF pr, or
  <1>7. Has(a, b.connected_peers, b.send_counter, b.recv_counter,
            b.pending_send, b.ongoing_send, pr, or)
    BY <1>1, <1>5, PutRecvs, Zenon
  <1> HIDE DEF a
  <1>8. /\ Recvs(a) \subseteq (Recvs(b) \ {r}) \cup {o} /\ Sends(a) = Sends(b)
        /\ a.recv_counter = b.recv_counter
        /\ a.send_counter = b.send_counter
        /\ a.connected_peers = b.connected_peers
        /\ a.ongoing_recv = or
        /\ a \in Behaviour
    BY <1>6, <1>7 DEF Has, Sends, Recvs
  <1>9. r \in Recvs(b)
    BY DEF Recvs
  <1>10. Ids(a)
    BY <1>2, <1>6, <1>8, <1>9 DEF Good, Ids
  <1>11. Held(a, C) /\ Kept(a, K)
    BY <1>2, <1>8, <1>9 DEF Good, Held, Kept
  <1>12. Good(a, C, K)
    BY <1>8, <1>10, <1>11 DEF Good
  <1>13. Shrinks(a, Notify(a, r.remote, m))
    BY <1>1, <1>3, <1>8, NotifyShrinks, Zenon
  <1> QED BY <1>4, <1>12, <1>13, ShrinksGood, Zenon

\* Replacing an ongoing send by one with the same id and remote.
LEMMA ReplaceSendGood ==
  ASSUME NEW b, NEW C, NEW K \in SUBSET Nat, Good(b, C, K),
         NEW s \in b.ongoing_send, NEW t \in OngoingSend,
         t.local_send_id = s.local_send_id, t.remote = s.remote
  PROVE  Good([b EXCEPT !.ongoing_send = (@ \ {s}) \cup {t}], C, K)
  <1> DEFINE os == (b.ongoing_send \ {s}) \cup {t}
             a  == [b EXCEPT !.ongoing_send = os]
  <1> SUFFICES Good(a, C, K)
    OBVIOUS
  <1>1. b \in Behaviour /\ b.pending_send \in SUBSET PendingSend
    BY DEF Good, Behaviour
  <1>2. os \in SUBSET OngoingSend
    BY <1>1 DEF Behaviour
  <1>3. s \notin b.pending_send
    BY <1>1, Disjoint DEF Behaviour
  <1>4. os \cup b.pending_send = (Sends(b) \ {s}) \cup {t}
    BY <1>3 DEF Sends
  <1> HIDE DEF os
  <1>5. Has(a, b.connected_peers, b.send_counter, b.recv_counter,
            b.pending_send, os, b.pending_recv, b.ongoing_recv)
    BY <1>1, <1>2, PutOngoingSend, Zenon
  <1> HIDE DEF a
  <1>6. /\ Sends(a) = (Sends(b) \ {s}) \cup {t} /\ Recvs(a) = Recvs(b)
        /\ a.recv_counter = b.recv_counter
        /\ a.send_counter = b.send_counter
        /\ a.connected_peers = b.connected_peers
        /\ a.ongoing_recv = b.ongoing_recv
        /\ a \in Behaviour /\ s \in Sends(b)
    BY <1>4, <1>5 DEF Has, Sends, Recvs
  <1>7. Ids(a)
    BY <1>6 DEF Good, Ids
  <1>8. Held(a, C) /\ Kept(a, K)
    BY <1>6 DEF Good, Held, Kept
  <1> QED BY <1>6, <1>7, <1>8 DEF Good

\* progress_ongoing_send
LEMMA ProgressOngoingSendGood ==
  ASSUME NEW b, NEW C, NEW K \in SUBSET Nat, Good(b, C, K),
         NEW s \in b.ongoing_send
  PROVE  Good(progress_ongoing_send(b, s), C, K)
  <1> DEFINE t == [s EXCEPT !.bytes_sent = @ + 1]
             a == [b EXCEPT !.ongoing_send = (@ \ {s}) \cup {t}]
             d == [b EXCEPT !.ongoing_send = @ \ {s}]
             m == Message("FileChunk", s.local_send_id,
                          <<<<s.file, s.bytes_sent + 1>>>>)
             e == Message("FileChunk", s.local_send_id, <<>>)
  <1>1. /\ b \in Behaviour /\ s \in OngoingSend /\ s.remote \in Peers
        /\ s.local_send_id \in Nat /\ s.file \in Files
        /\ s.bytes_sent + 1 \in Nat
    BY DEF Good, Behaviour, OngoingSend
  <1>2. /\ t \in OngoingSend /\ t.local_send_id = s.local_send_id
        /\ t.remote = s.remote
    BY <1>1 DEF OngoingSend
  <1>3. m \in Msg /\ e \in Msg
    BY <1>1, Messages, EmptyMessages, Zenon
  <1>4. \/ progress_ongoing_send(b, s) = Notify(a, s.remote, m)
        \/ progress_ongoing_send(b, s) = Notify(d, s.remote, e)
    BY Zenon DEF progress_ongoing_send
  <1> HIDE DEF t, m, e
  <1>5. Good(a, C, K)
    BY <1>2, ReplaceSendGood, Zenon
  <1>6. Good(d, C, K)
    BY <1>1, RemoveShrinks, ShrinksGood, Zenon
  <1> HIDE DEF a, d
  <1>7. /\ Shrinks(a, Notify(a, s.remote, m))
        /\ Shrinks(d, Notify(d, s.remote, e))
    BY <1>1, <1>3, <1>5, <1>6, NotifyShrinks, Zenon DEF Good
  <1>8. Good(Notify(a, s.remote, m), C, K) /\ Good(Notify(d, s.remote, e), C, K)
    BY <1>5, <1>6, <1>7, ShrinksGood, Zenon
  <1> QED BY <1>4, <1>8, Zenon

\* pending_send_accepted: the record changes map and keeps its id.
LEMMA PendingSendAcceptedGood ==
  ASSUME NEW b, NEW C, NEW K \in SUBSET Nat, Good(b, C, K),
         NEW s \in b.pending_send
  PROVE  /\ Good(pending_send_accepted(b, s), C, K)
         /\ started(s) \in pending_send_accepted(b, s).ongoing_send
  <1> DEFINE t  == started(s)
             ps == b.pending_send \ {s}
             os == b.ongoing_send \cup {t}
             a  == [b EXCEPT !.pending_send = ps, !.ongoing_send = os]
  <1>1. b \in Behaviour /\ s \in PendingSend
    BY DEF Good, Behaviour
  <1>2. /\ t \in OngoingSend /\ t.local_send_id = s.local_send_id
        /\ t.remote = s.remote
    BY <1>1 DEF PendingSend, OngoingSend, started
  <1>3. pending_send_accepted(b, s) = a
    BY DEF pending_send_accepted
  <1> HIDE DEF t
  <1>4. ps \in SUBSET PendingSend /\ os \in SUBSET OngoingSend
    BY <1>1, <1>2 DEF Behaviour
  <1>5. s \notin b.ongoing_send
    BY <1>1, Disjoint DEF Behaviour
  <1>6. ps \cup os = (Sends(b) \ {s}) \cup {t} /\ s \in Sends(b) /\ t \in os
    BY <1>1, <1>2, <1>5, Disjoint DEF Sends
  <1> HIDE DEF ps, os
  <1>7. Has(a, b.connected_peers, b.send_counter, b.recv_counter,
            ps, os, b.pending_recv, b.ongoing_recv)
    BY <1>1, <1>4, PutSends, Zenon
  <1> HIDE DEF a
  <1>8. /\ Sends(a) = (Sends(b) \ {s}) \cup {t} /\ Recvs(a) = Recvs(b)
        /\ a.recv_counter = b.recv_counter
        /\ a.send_counter = b.send_counter
        /\ a.connected_peers = b.connected_peers
        /\ a.ongoing_recv = b.ongoing_recv
        /\ a.ongoing_send = os
        /\ a \in Behaviour
    BY <1>6, <1>7 DEF Has, Sends, Recvs
  <1>9. Ids(a)
    BY <1>2, <1>6, <1>8 DEF Good, Ids
  <1>10. Held(a, C) /\ Kept(a, K)
    BY <1>2, <1>6, <1>8 DEF Good, Held, Kept
  <1>11. Good(a, C, K)
    BY <1>8, <1>9, <1>10 DEF Good
  <1> QED BY <1>3, <1>6, <1>8, <1>11 DEF t

\* write_chunk: the record is replaced by one with the same ids.
LEMMA WriteChunkGood ==
  ASSUME NEW b, NEW C, NEW K \in SUBSET Nat, Good(b, C, K),
         NEW o \in b.ongoing_recv, NEW content \in Seq(Chunk)
  PROVE  Good(write_chunk(b, o, content), C, K)
  <1> DEFINE t  == [o EXCEPT !.data = @ \o content]
             or == (b.ongoing_recv \ {o}) \cup {t}
             a  == [b EXCEPT !.ongoing_recv = or]
  <1>1. b \in Behaviour /\ o \in OngoingRecv
    BY DEF Good, Behaviour
  <1>2. /\ t \in OngoingRecv /\ t.local_recv_id = o.local_recv_id
        /\ t.remote = o.remote /\ t.remote_send_id = o.remote_send_id
    <2> DEFINE d == o.data \o content
    <2>1. d \in Seq(Chunk)
      BY <1>1 DEF OngoingRecv
    <2>2. t = [o EXCEPT !.data = d]
      OBVIOUS
    <2> HIDE DEF d
    <2> QED BY <1>1, <2>1, <2>2 DEF OngoingRecv
  <1>3. write_chunk(b, o, content) = a
    BY Zenon DEF write_chunk
  <1> HIDE DEF t
  <1>4. or \in SUBSET OngoingRecv
    BY <1>1, <1>2 DEF Behaviour
  <1>5. o \notin b.pending_recv
    BY <1>1, Disjoint DEF Behaviour
  <1>6. or \cup b.pending_recv = (Recvs(b) \ {o}) \cup {t} /\ o \in Recvs(b)
    BY <1>5 DEF Recvs
  <1>7. \A u, v \in or : u.remote_send_id = v.remote_send_id => u = v
    BY <1>2 DEF Good, Ids
  <1> HIDE DEF or
  <1>8. Has(a, b.connected_peers, b.send_counter, b.recv_counter,
            b.pending_send, b.ongoing_send, b.pending_recv, or)
    BY <1>1, <1>4, PutOngoingRecv, Zenon
  <1> HIDE DEF a
  <1>9. /\ Recvs(a) = (Recvs(b) \ {o}) \cup {t} /\ Sends(a) = Sends(b)
        /\ a.recv_counter = b.recv_counter
        /\ a.send_counter = b.send_counter
        /\ a.connected_peers = b.connected_peers
        /\ a.ongoing_recv = or
        /\ a \in Behaviour
    BY <1>6, <1>8 DEF Has, Sends, Recvs
  <1>10. Ids(a)
    BY <1>2, <1>6, <1>7, <1>9 DEF Good, Ids
  <1>11. Held(a, C) /\ Kept(a, K)
    BY <1>2, <1>6, <1>9 DEF Good, Held, Kept
  <1> QED BY <1>3, <1>9, <1>10, <1>11 DEF Good

\* A peer is negotiated.
LEMMA NegotiatedGood ==
  ASSUME NEW b, NEW C, NEW K \in SUBSET Nat, Good(b, C, K),
         NEW q \in Peers, q \in C
  PROVE  Good([b EXCEPT !.connected_peers = @ \cup {q}], C, K)
  <1> DEFINE cp == b.connected_peers \cup {q}
             a  == [b EXCEPT !.connected_peers = cp]
  <1> SUFFICES Good(a, C, K)
    OBVIOUS
  <1>1. b \in Behaviour /\ cp \in SUBSET Peers /\ cp \subseteq C
    BY DEF Good, Behaviour, Held
  <1> HIDE DEF cp
  <1>2. Has(a, cp, b.send_counter, b.recv_counter, b.pending_send,
            b.ongoing_send, b.pending_recv, b.ongoing_recv)
    BY <1>1, PutPeers, Zenon
  <1> HIDE DEF a
  <1>3. /\ Recvs(a) = Recvs(b) /\ Sends(a) = Sends(b) /\ a \in Behaviour
        /\ a.connected_peers = cp
        /\ a.recv_counter = b.recv_counter /\ a.send_counter = b.send_counter
        /\ a.ongoing_recv = b.ongoing_recv
    BY <1>2 DEF Has, Sends, Recvs
  <1> QED BY <1>1, <1>3 DEF Good, Ids, Held, Kept

-----------------------------------------------------------------------------
(* The inductive invariant: what the invariants say of every Behaviour,    *)
(* and the types of what connects them.                                    *)

Linked(p) == {q \in Peers : conn[p][q] # {}}

NodeInv ==
  /\ node \in [Peers -> Behaviour]
  /\ \A p \in Peers : Good(node[p], Linked(p), cancelled[p].send)

NetType ==
  /\ conn \in [Peers -> [Peers -> SUBSET Conns]]
  /\ link \in [Links -> Handler]
  /\ wire \in [Links -> Slot]

GhostType ==
  /\ panic \in [Peers -> {"none", "Already handled", "callback to succeed"}]
  /\ cancelled \in [Peers -> [send : SUBSET Nat, recv : SUBSET Nat]]
  /\ accepted \subseteq Peers \X Nat \X Files
  /\ faults \in Nat
  /\ restarts \in Nat

Inv == NodeInv /\ NetType /\ GhostType

\* The cancelled sends of a peer are ids.
LEMMA CancelledType ==
  ASSUME GhostType, NEW p \in Peers
  PROVE  cancelled[p].send \in SUBSET Nat /\ cancelled[p].recv \in SUBSET Nat
  BY DEF GhostType

\* A step that leaves connections and cancelled ids alone and gives one peer
\* a Behaviour for which the invariant holds.
LEMMA SetInv ==
  ASSUME NodeInv, NEW p \in Peers, NEW b, Set(p, b),
         UNCHANGED <<conn, cancelled>>,
         Good(b, Linked(p), cancelled[p].send)
  PROVE  NodeInv'
  <1>1. b \in Behaviour
    BY DEF Good
  <1>2. node' \in [Peers -> Behaviour]
    BY <1>1 DEF NodeInv, Set
  <1>3. \A r \in Peers : Linked(r)' = Linked(r)
    BY DEF Linked
  <1>4. ASSUME NEW r \in Peers
        PROVE  Good(node'[r], Linked(r), cancelled[r].send)
    BY DEF NodeInv, Set
  <1> QED BY <1>2, <1>3, <1>4 DEF NodeInv

\* A step that changes nothing of that.
LEMMA SameInv ==
  ASSUME NodeInv, UNCHANGED <<node, conn, cancelled>>
  PROVE  NodeInv'
  BY DEF NodeInv, Linked

\* More connections only help.
LEMMA GoodMono ==
  ASSUME NEW b, NEW C, NEW D, C \subseteq D, NEW K, Good(b, C, K)
  PROVE  Good(b, D, K)
  BY DEF Good, Held

\* A Behaviour that has just been created.
LEMMA NewBehaviourGood ==
  ASSUME NEW C
  PROVE  Good(NewBehaviour, C, {})
  <1>1. NewBehaviour \in Behaviour
    BY DEF NewBehaviour, Behaviour
  <1> QED BY <1>1 DEF Good, Ids, Held, Kept, Sends, Recvs, NewBehaviour

\* A handler that has just been created.
LEMMA NewHandlerType == NewHandler \in Handler
  BY DEF NewHandler, Handler, Slot

\* The event that a handler has reported next.
LEMMA NextEventType ==
  ASSUME NetType, NEW p \in Peers, NEW q \in Peers, NEW c \in Conns, NEW t,
         HasEvent(p, q, c, t)
  PROVE  /\ NextEvent(p, q, c) \in Event
         /\ NextEvent(p, q, c).type = t
         /\ NextEvent(p, q, c).id \in Nat
         /\ NextEvent(p, q, c).body \in Seq(Chunk)
         /\ q \in Linked(p)
  <1> DEFINE l == <<p, q, c>>
  <1>1. l \in Links
    BY DEF Links
  <1>2. link[l].ev \in Seq(Event) /\ link[l].ev # <<>>
    BY <1>1 DEF NetType, Handler, HasEvent
  <1>3. Head(link[l].ev) \in Event
    BY <1>2
  <1>4. q \in Linked(p)
    BY DEF HasEvent, Linked
  <1>5. NextEvent(p, q, c) = Head(link[l].ev)
    BY DEF NextEvent
  <1>6. NextEvent(p, q, c).type = t
    BY <1>5 DEF HasEvent
  <1> HIDE DEF l
  <1> QED BY <1>3, <1>4, <1>5, <1>6 DEF Event

\* Taking it.
LEMMA TakeEventType ==
  ASSUME NetType, NEW p \in Peers, NEW q \in Peers, NEW c \in Conns, NEW t,
         HasEvent(p, q, c, t), TakeEvent(p, q, c)
  PROVE  NetType' /\ UNCHANGED conn
  <1> DEFINE l == <<p, q, c>>
             e == Tail(link[l].ev)
  <1>1. l \in Links
    BY DEF Links
  <1>2. link[l] \in Handler /\ link[l].ev \in Seq(Event) /\ link[l].ev # <<>>
    BY <1>1 DEF NetType, Handler, HasEvent
  <1>3. e \in Seq(Event)
    BY <1>2
  <1>4. link' = [link EXCEPT ![l].ev = e]
    BY DEF TakeEvent
  <1> HIDE DEF l, e
  <1>5. [link[l] EXCEPT !.ev = e] \in Handler
    BY <1>2, <1>3 DEF Handler
  <1>6. link' \in [Links -> Handler]
    BY <1>1, <1>4, <1>5 DEF NetType
  <1> QED BY <1>6 DEF NetType, TakeEvent

\* Fault counts failures.
LEMMA FaultType ==
  ASSUME GhostType, Fault
  PROVE  faults' \in Nat
  <1>1. faults \in Nat
    BY DEF GhostType
  <1> QED BY <1>1, BoundsAssumption DEF Fault

\* Good is known of every Behaviour.
LEMMA GoodNode ==
  ASSUME Inv, NEW p \in Peers
  PROVE  /\ Good(node[p], Linked(p), cancelled[p].send)
         /\ node[p] \in Behaviour
         /\ cancelled[p].send \in SUBSET Nat
  BY CancelledType DEF Inv, NodeInv

\* A step that takes an event of a handler and leaves a Behaviour for which
\* the invariant holds.
LEMMA EventInv ==
  ASSUME Inv, NEW p \in Peers, NEW q \in Peers, NEW c \in Conns, NEW t,
         HasEvent(p, q, c, t), TakeEvent(p, q, c),
         UNCHANGED <<ghostVars, lifeVars>>, UNCHANGED faults \/ Fault,
         NEW b, Set(p, b), Good(b, Linked(p), cancelled[p].send)
  PROVE  Inv'
  <1>1. NetType' /\ UNCHANGED conn
    BY TakeEventType DEF Inv
  <1>2. NodeInv'
    BY <1>1, SetInv DEF Inv, ghostVars
  <1>3. faults' \in Nat
    BY FaultType DEF Inv, GhostType
  <1>4. GhostType'
    BY <1>3 DEF Inv, GhostType, ghostVars, lifeVars
  <1> QED BY <1>1, <1>2, <1>4 DEF Inv

\* One that leaves the Behaviour alone.
LEMMA EventIgnored ==
  ASSUME Inv, NEW p \in Peers, NEW q \in Peers, NEW c \in Conns, NEW t,
         HasEvent(p, q, c, t), TakeEvent(p, q, c),
         UNCHANGED <<ghostVars, lifeVars>>, UNCHANGED <<node, faults>>
  PROVE  Inv'
  <1>1. Set(p, node[p])
    BY DEF Set, Inv, NodeInv
  <1> QED BY <1>1, GoodNode, EventInv, Zenon

\* OnIncomingFile
LEMMA OnIncomingFileInv ==
  ASSUME Inv, NEW p \in Peers, NEW q \in Peers, NEW c \in Conns,
         OnIncomingFile(p, q, c)
  PROVE  Inv'
  <1> DEFINE e == NextEvent(p, q, c)
             b == on_new_pending_recv(node[p], q, e.id, e.body[1][1], e.body[1][2])
  <1>1. /\ HasEvent(p, q, c, "IncomingFile") /\ Set(p, b)
        /\ TakeEvent(p, q, c) /\ UNCHANGED <<ghostVars, lifeVars, faults>>
    BY DEF OnIncomingFile
  <1>2. /\ e \in Event /\ e.type = "IncomingFile" /\ e.id \in Nat
        /\ e.body \in Seq(Chunk) /\ q \in Linked(p)
    BY <1>1, NextEventType DEF Inv
  <1> HIDE DEF e
  <1>3. e.body[1][1] \in Files /\ e.body[1][2] \in Nat
    <2>1. e.body # <<>>
      BY <1>2 DEF Event
    <2>2. e.body[1] \in Chunk
      BY <1>2, <2>1
    <2> QED BY <2>2 DEF Chunk
  <1>4. Good(b, Linked(p), cancelled[p].send)
    BY <1>2, <1>3, GoodNode, OnNewPendingRecvGood, Zenon
  <1> QED BY <1>1, <1>4, EventInv, Zenon

\* OnRecvProgressed: the chunk is ignored, ends the recv, or is written.
LEMMA OnRecvProgressedInv ==
  ASSUME Inv, NEW p \in Peers, NEW q \in Peers, NEW c \in Conns,
         OnRecvProgressed(p, q, c)
  PROVE  Inv'
  <1> DEFINE e == NextEvent(p, q, c)
             G(b) == Good(b, Linked(p), cancelled[p].send)
  <1>1. /\ HasEvent(p, q, c, "RecvProgressed")
        /\ TakeEvent(p, q, c) /\ UNCHANGED <<ghostVars, lifeVars>>
    BY DEF OnRecvProgressed
  <1>2. e.body \in Seq(Chunk)
    BY <1>1, NextEventType DEF Inv
  <1>3. \/ UNCHANGED <<node, faults>>
        \/ \E o \in node[p].ongoing_recv :
             /\ UNCHANGED faults \/ Fault
             /\ \/ Set(p, end_recv(node[p], o, "UnexpectedEOF", 0))
                \/ Set(p, end_recv(node[p], o, "RecvProgressed", o.bytes_total))
                \/ Set(p, write_chunk(node[p], o, e.body))
                \/ Set(p, end_recv(node[p], o, "OngoingRecvError", 0))
    BY Zenon DEF OnRecvProgressed
  <1> HIDE DEF e
  <1>4. CASE UNCHANGED <<node, faults>>
    BY <1>1, <1>4, EventIgnored, Zenon
  <1>5. ASSUME NEW o \in node[p].ongoing_recv
        PROVE  /\ G(end_recv(node[p], o, "UnexpectedEOF", 0))
               /\ G(end_recv(node[p], o, "RecvProgressed", o.bytes_total))
               /\ G(write_chunk(node[p], o, e.body))
               /\ G(end_recv(node[p], o, "OngoingRecvError", 0))
    <2>1. {"UnexpectedEOF", "RecvProgressed", "OngoingRecvError"} \subseteq OutType
      BY DEF OutType
    <2>2. o.bytes_total \in Nat /\ 0 \in Nat
      BY GoodNode DEF Behaviour, OngoingRecv
    <2>3. /\ Shrinks(node[p], end_recv(node[p], o, "UnexpectedEOF", 0))
          /\ Shrinks(node[p], end_recv(node[p], o, "RecvProgressed", o.bytes_total))
          /\ Shrinks(node[p], end_recv(node[p], o, "OngoingRecvError", 0))
      BY <2>1, <2>2, GoodNode, EndRecvShrinks
    <2> QED BY <1>2, <2>3, GoodNode, ShrinksGood, WriteChunkGood, Zenon
  <1> HIDE DEF G
  <1>6. ASSUME NEW b, Set(p, b), G(b), UNCHANGED faults \/ Fault
        PROVE  Inv'
    BY <1>1, <1>6, EventInv, Zenon DEF G
  <1> QED BY <1>3, <1>4, <1>5, <1>6, Zenon

\* A Behaviour that also reports something to the user.
LEMMA EmitGood ==
  ASSUME NEW b, NEW C, NEW K \in SUBSET Nat, Good(b, C, K),
         NEW t \in OutType, NEW id \in Nat, NEW n \in Nat
  PROVE  Good(Emit(b, t, id, n), C, K)
  BY EmitShrinks, ShrinksGood, Zenon DEF Good

\* OnFileSendAccepted: the send starts with its first chunk, or fails.
LEMMA OnFileSendAcceptedInv ==
  ASSUME Inv, NEW p \in Peers, NEW q \in Peers, NEW c \in Conns,
         OnFileSendAccepted(p, q, c)
  PROVE  Inv'
  <1> DEFINE id == NextEvent(p, q, c).id
             a(s) == pending_send_accepted(node[p], s)
             ok(s) == Emit(progress_ongoing_send(a(s), started(s)),
                           "SendProgressed", id, 0)
             bad(s) == Emit(fail_ongoing_send(a(s), started(s)),
                            "SendProgressed", id, 0)
             G(b) == Good(b, Linked(p), cancelled[p].send)
  <1>1. /\ HasEvent(p, q, c, "FileSendAccepted")
        /\ TakeEvent(p, q, c) /\ UNCHANGED <<ghostVars, lifeVars>>
    BY DEF OnFileSendAccepted
  <1>2. id \in Nat
    BY <1>1, NextEventType DEF Inv
  <1>3. \/ UNCHANGED <<node, faults>>
        \/ \E s \in node[p].pending_send :
             /\ UNCHANGED faults \/ Fault
             /\ Set(p, ok(s)) \/ Set(p, bad(s))
    BY Zenon DEF OnFileSendAccepted
  <1> HIDE DEF id
  <1>4. CASE UNCHANGED <<node, faults>>
    BY <1>1, <1>4, EventIgnored, Zenon
  <1>5. ASSUME NEW s \in node[p].pending_send
        PROVE  G(ok(s)) /\ G(bad(s))
    <2>1. "SendProgressed" \in OutType /\ 0 \in Nat
      BY DEF OutType
    <2>2. G(a(s)) /\ started(s) \in a(s).ongoing_send /\ a(s) \in Behaviour
      BY GoodNode, PendingSendAcceptedGood, Zenon DEF Good
    <2>3. G(progress_ongoing_send(a(s), started(s)))
      BY <2>2, GoodNode, ProgressOngoingSendGood, Zenon
    <2>4. G(fail_ongoing_send(a(s), started(s)))
      BY <2>2, GoodNode, RemoveShrinks, ShrinksGood, Zenon DEF fail_ongoing_send
    <2> QED BY <1>2, <2>1, <2>3, <2>4, GoodNode, EmitGood, Zenon
  <1> HIDE DEF G, ok, bad
  <1>6. ASSUME NEW b, Set(p, b), G(b), UNCHANGED faults \/ Fault
        PROVE  Inv'
    BY <1>1, <1>6, EventInv, Zenon DEF G
  <1> QED BY <1>3, <1>4, <1>5, <1>6, Zenon

\* OnSendProgressed: the next chunk is read, or reading fails.
LEMMA OnSendProgressedInv ==
  ASSUME Inv, NEW p \in Peers, NEW q \in Peers, NEW c \in Conns,
         OnSendProgressed(p, q, c)
  PROVE  Inv'
  <1> DEFINE id == NextEvent(p, q, c).id
             a(s) == Emit(node[p], "SendProgressed", id, s.bytes_sent)
             G(b) == Good(b, Linked(p), cancelled[p].send)
  <1>1. /\ HasEvent(p, q, c, "SendProgressed")
        /\ TakeEvent(p, q, c) /\ UNCHANGED <<ghostVars, lifeVars>>
    BY DEF OnSendProgressed
  <1>2. id \in Nat
    BY <1>1, NextEventType DEF Inv
  <1>3. \/ UNCHANGED <<node, faults>>
        \/ \E s \in node[p].ongoing_send :
             /\ UNCHANGED faults \/ Fault
             /\ \/ Set(p, progress_ongoing_send(a(s), s))
                \/ Set(p, fail_ongoing_send(a(s), s))
    BY Zenon DEF OnSendProgressed
  <1> HIDE DEF id
  <1>4. CASE UNCHANGED <<node, faults>>
    BY <1>1, <1>4, EventIgnored, Zenon
  <1>5. ASSUME NEW s \in node[p].ongoing_send
        PROVE  G(progress_ongoing_send(a(s), s)) /\ G(fail_ongoing_send(a(s), s))
    <2>1. "SendProgressed" \in OutType /\ s.bytes_sent \in Nat
      BY GoodNode DEF OutType, Behaviour, OngoingSend
    <2>2. G(a(s)) /\ a(s) \in Behaviour
      BY <1>2, <2>1, GoodNode, EmitGood, Zenon DEF Good
    <2>3. s \in a(s).ongoing_send
      BY GoodNode DEF Emit, Behaviour
    <2> HIDE DEF a
    <2>4. G(progress_ongoing_send(a(s), s))
      BY <2>2, <2>3, GoodNode, ProgressOngoingSendGood, Zenon
    <2>5. G(fail_ongoing_send(a(s), s))
      BY <2>2, GoodNode, RemoveShrinks, ShrinksGood, Zenon DEF fail_ongoing_send
    <2> QED BY <2>4, <2>5
  <1> HIDE DEF G, a
  <1>6. ASSUME NEW b, Set(p, b), G(b), UNCHANGED faults \/ Fault
        PROVE  Inv'
    BY <1>1, <1>6, EventInv, Zenon DEF G
  <1> QED BY <1>3, <1>4, <1>5, <1>6, Zenon

\* OnRemoteCancelSend
LEMMA OnRemoteCancelSendInv ==
  ASSUME Inv, NEW p \in Peers, NEW q \in Peers, NEW c \in Conns,
         OnRemoteCancelSend(p, q, c)
  PROVE  Inv'
  <1> DEFINE id == NextEvent(p, q, c).id
             b  == Emit(node[p], "CancelledSend", id, 0)
             r  == send_record(b, id)
             d  == [b EXCEPT !.pending_send = @ \ r, !.ongoing_send = @ \ r]
  <1>1. /\ HasEvent(p, q, c, "RemoteCancelSend") /\ Set(p, d)
        /\ TakeEvent(p, q, c) /\ UNCHANGED <<ghostVars, lifeVars, faults>>
    BY Zenon DEF OnRemoteCancelSend
  <1>2. id \in Nat /\ 0 \in Nat /\ "CancelledSend" \in OutType
    BY <1>1, NextEventType DEF Inv, OutType
  <1> HIDE DEF id
  <1>3. Good(b, Linked(p), cancelled[p].send) /\ b \in Behaviour
    BY <1>2, GoodNode, EmitGood, Zenon DEF Good
  <1> HIDE DEF b, r
  <1>4. Good(d, Linked(p), cancelled[p].send)
    BY <1>3, GoodNode, RemoveShrinks, ShrinksGood, Zenon
  <1> QED BY <1>1, <1>4, EventInv, Zenon

\* OnRemoteCancelRecv
LEMMA OnRemoteCancelRecvInv ==
  ASSUME Inv, NEW p \in Peers, NEW q \in Peers, NEW c \in Conns,
         OnRemoteCancelRecv(p, q, c)
  PROVE  Inv'
  <1> DEFINE b == node[p]
             drop(r) == Emit([b EXCEPT !.pending_recv = @ \ {r}],
                             "CancelledRecv", r.remote_send_id, 0)
             G(x) == Good(x, Linked(p), cancelled[p].send)
  <1>1. /\ HasEvent(p, q, c, "RemoteCancelRecv")
        /\ TakeEvent(p, q, c) /\ UNCHANGED <<ghostVars, lifeVars, faults>>
    BY DEF OnRemoteCancelRecv
  <1>2. \/ \E o \in b.ongoing_recv : Set(p, end_recv(b, o, "CancelledRecv", 0))
        \/ \E r \in b.pending_recv : Set(p, drop(r))
        \/ UNCHANGED node
    BY Zenon DEF OnRemoteCancelRecv
  <1>3. "CancelledRecv" \in OutType /\ 0 \in Nat
    BY DEF OutType
  <1>4. ASSUME NEW o \in b.ongoing_recv
        PROVE  G(end_recv(b, o, "CancelledRecv", 0))
    BY <1>3, GoodNode, EndRecvShrinks, ShrinksGood, Zenon
  <1>5. ASSUME NEW r \in b.pending_recv
        PROVE  G(drop(r))
    <2>1. r.remote_send_id \in Nat
      BY GoodNode DEF Behaviour, PendingRecv
    <2>2. G([b EXCEPT !.pending_recv = @ \ {r}])
      BY GoodNode, RemoveShrinks, ShrinksGood, Zenon
    <2> QED BY <1>3, <2>1, <2>2, GoodNode, EmitGood, Zenon
  <1> HIDE DEF G, drop
  <1>6. ASSUME NEW x, Set(p, x), G(x)
        PROVE  Inv'
    BY <1>1, <1>6, EventInv, Zenon DEF G
  <1>7. CASE UNCHANGED node
    BY <1>1, <1>7, EventIgnored
  <1> QED BY <1>2, <1>4, <1>5, <1>6, <1>7, Zenon

\* OnOutboundNegotiated
LEMMA OnOutboundNegotiatedInv ==
  ASSUME Inv, NEW p \in Peers, NEW q \in Peers, NEW c \in Conns,
         OnOutboundNegotiated(p, q, c)
  PROVE  Inv'
  <1> DEFINE a == [node[p] EXCEPT !.connected_peers = @ \cup {q}]
             b == Emit(a, "OutboundNegotiated", 0, 0)
  <1>1. /\ HasEvent(p, q, c, "OutboundNegotiated") /\ Set(p, b)
        /\ TakeEvent(p, q, c) /\ UNCHANGED <<ghostVars, lifeVars, faults>>
    BY Zenon DEF OnOutboundNegotiated
  <1>2. q \in Linked(p) /\ 0 \in Nat /\ "OutboundNegotiated" \in OutType
    BY <1>1, NextEventType DEF Inv, OutType
  <1>3. Good(a, Linked(p), cancelled[p].send)
    BY <1>2, GoodNode, NegotiatedGood, Zenon
  <1> HIDE DEF a
  <1>4. Good(b, Linked(p), cancelled[p].send)
    BY <1>2, <1>3, GoodNode, EmitGood, Zenon
  <1> QED BY <1>1, <1>4, EventInv, Zenon

\* OnReport
LEMMA OnReportInv ==
  ASSUME Inv, NEW p \in Peers, NEW q \in Peers, NEW c \in Conns,
         NEW t \in {"Error", "InboundNegotiated"}, OnReport(p, q, c, t)
  PROVE  Inv'
  <1>1. /\ HasEvent(p, q, c, t) /\ Set(p, Emit(node[p], t, 0, 0))
        /\ TakeEvent(p, q, c) /\ UNCHANGED <<ghostVars, lifeVars, faults>>
    BY Zenon DEF OnReport
  <1>2. 0 \in Nat /\ t \in OutType
    BY DEF OutType
  <1>3. Good(Emit(node[p], t, 0, 0), Linked(p), cancelled[p].send)
    BY <1>2, GoodNode, EmitGood, Zenon
  <1> QED BY <1>1, <1>3, EventInv, Zenon

\* Drop: the swarm of a peer is gone, with everything it kept.
LEMMA DropInv ==
  ASSUME Inv, NEW p \in Peers, Drop(p),
         panic' \in [Peers -> {"none", "Already handled", "callback to succeed"}],
         faults' \in Nat, restarts' \in Nat
  PROVE  Inv'
  <1>1. NetType'
    BY NewHandlerType DEF Inv, NetType, Drop
  <1>2. GhostType'
    BY DEF Inv, GhostType, Drop
  <1>3. node' \in [Peers -> Behaviour] /\ node'[p] = NewBehaviour
    BY NewBehaviourGood DEF Inv, NodeInv, Drop, Set, Good
  <1>4. cancelled'[p].send = {}
    BY DEF Inv, GhostType, Drop
  <1>5. ASSUME NEW r \in Peers, r # p
        PROVE  /\ node'[r] = node[r] /\ cancelled'[r] = cancelled[r]
               /\ Linked(r)' = Linked(r)
    BY <1>5 DEF Inv, NodeInv, NetType, GhostType, Drop, Set, Linked
  <1>6. Good(node'[p], Linked(p)', cancelled'[p].send)
    BY <1>3, <1>4, NewBehaviourGood
  <1>7. ASSUME NEW r \in Peers
        PROVE  Good(node'[r], Linked(r)', cancelled'[r].send)
    <2>1. CASE r = p
      BY <1>6, <2>1
    <2>2. CASE r # p
      BY <1>5, <2>2, GoodNode
    <2> QED BY <2>1, <2>2
  <1>8. NodeInv'
    BY <1>3, <1>7 DEF NodeInv
  <1> QED BY <1>1, <1>2, <1>8 DEF Inv

\* The caller of send_file gave up and its callback fails.
LEMMA SendFileLateInv ==
  ASSUME Inv, NEW p \in Peers, NEW q \in Peers, SendFileLate(p, q)
  PROVE  Inv'
  <1>1. Drop(p) /\ UNCHANGED restarts /\ Fault
    BY DEF SendFileLate
  <1>2. panic' \in [Peers -> {"none", "Already handled", "callback to succeed"}]
    BY DEF SendFileLate, Inv, GhostType
  <1>3. restarts' \in Nat /\ faults' \in Nat
    BY <1>1, FaultType DEF Inv, GhostType
  <1> QED BY <1>1, <1>2, <1>3, DropInv

\* An acceptance that was handled already.
LEMMA AcceptedTwiceInv ==
  ASSUME Inv, NEW p \in Peers, NEW q \in Peers, NEW c \in Conns,
         AcceptedTwice(p, q, c)
  PROVE  Inv'
  <1>1. Drop(p) /\ UNCHANGED <<restarts, faults>>
    BY DEF AcceptedTwice
  <1>2. panic' \in [Peers -> {"none", "Already handled", "callback to succeed"}]
    BY DEF AcceptedTwice, Inv, GhostType
  <1>3. restarts' \in Nat /\ faults' \in Nat
    BY <1>1 DEF Inv, GhostType
  <1> QED BY <1>1, <1>2, <1>3, DropInv

\* Restart
LEMMA RestartInv ==
  ASSUME Inv, NEW p \in Peers, Restart(p)
  PROVE  Inv'
  <1>1. Drop(p) /\ UNCHANGED faults /\ restarts' = restarts + 1
    BY DEF Restart
  <1>2. panic' \in [Peers -> {"none", "Already handled", "callback to succeed"}]
    BY DEF Restart, Inv, GhostType
  <1>3. restarts \in Nat /\ faults \in Nat
    BY DEF Inv, GhostType
  <1>4. restarts' \in Nat /\ faults' \in Nat
    BY <1>1, <1>3
  <1> QED BY <1>1, <1>2, <1>4, DropInv

\* A step of one Behaviour that touches neither connections nor ghosts.
LEMMA LocalInv ==
  ASSUME Inv, NEW p \in Peers, NEW b, Set(p, b),
         UNCHANGED <<connVars, ghostVars, lifeVars>>, UNCHANGED faults \/ Fault,
         Good(b, Linked(p), cancelled[p].send)
  PROVE  Inv'
  <1>1. NodeInv'
    BY SetInv DEF Inv, connVars, ghostVars
  <1>2. NetType'
    BY DEF Inv, NetType, connVars
  <1>3. faults' \in Nat
    BY FaultType DEF Inv, GhostType
  <1>4. GhostType'
    BY <1>3 DEF Inv, GhostType, ghostVars, lifeVars
  <1> QED BY <1>1, <1>2, <1>4 DEF Inv

\* push_event, SendFile.
LEMMA SendFileInv ==
  ASSUME Inv, NEW p \in Peers, NEW q \in Peers, NEW f \in Files,
         SendFile(p, q, f)
  PROVE  Inv'
  <1>1. q \in Linked(p)
    BY GoodNode DEF SendFile, Good, Held
  <1>2. Good(queue_send(node[p], q, f), Linked(p), cancelled[p].send)
    BY <1>1, GoodNode, QueueSendGood, Zenon
  <1> QED BY <1>2, LocalInv DEF SendFile

\* push_event, SendFile, when only an id is spent.
LEMMA SendFileNothingInv ==
  ASSUME Inv, NEW p \in Peers, NEW q \in Peers,
         SendFileNotFound(p, q) \/ SendFileNoMetadata(p, q)
  PROVE  Inv'
  <1>1. Good(next_send_id(node[p]), Linked(p), cancelled[p].send)
    BY GoodNode, NextSendIdShrinks, ShrinksGood, Zenon
  <1> QED BY <1>1, LocalInv DEF SendFileNotFound, SendFileNoMetadata

\* push_event, AcceptFile.
LEMMA AcceptFileInv ==
  ASSUME Inv, NEW p \in Peers, AcceptFile(p)
  PROVE  Inv'
  <1>1. PICK r \in node[p].pending_recv :
          /\ Set(p, accept_pending_recv(node[p], r))
          /\ accepted' = accepted \cup {<<r.remote, r.remote_send_id, r.file>>}
    BY DEF AcceptFile
  <1>2. UNCHANGED <<connVars, cancelled, lifeVars, faults>>
    BY DEF AcceptFile
  <1>3. r.remote \in Peers /\ r.remote_send_id \in Nat /\ r.file \in Files
    BY GoodNode DEF Behaviour, PendingRecv
  <1>4. Good(accept_pending_recv(node[p], r), Linked(p), cancelled[p].send)
    BY GoodNode, AcceptPendingRecvGood, Zenon
  <1>5. NodeInv'
    BY <1>1, <1>2, <1>4, SetInv DEF Inv, connVars
  <1>6. NetType'
    BY <1>2 DEF Inv, NetType, connVars
  <1>7. GhostType'
    <2>1. accepted' \subseteq Peers \X Nat \X Files
      <3>1. accepted \subseteq Peers \X Nat \X Files
        BY DEF Inv, GhostType
      <3>2. <<r.remote, r.remote_send_id, r.file>> \in Peers \X Nat \X Files
        BY <1>3
      <3> QED BY <1>1, <3>1, <3>2
    <2> QED BY <1>2, <2>1 DEF Inv, GhostType, lifeVars
  <1> QED BY <1>5, <1>6, <1>7 DEF Inv

\* push_event, CancelRecv.
LEMMA CancelRecvInv ==
  ASSUME Inv, NEW p \in Peers, NEW id \in Nat, CancelRecv(p, id)
  PROVE  Inv'
  <1>1. PICK r \in recv_record(node[p], id) :
          Set(p, cancel_recv_by_local_recv_id(node[p], id, r))
    BY DEF CancelRecv
  <1>2. /\ UNCHANGED <<connVars, accepted, lifeVars, faults>>
        /\ cancelled' = [cancelled EXCEPT ![p].recv = @ \cup {id}]
    BY DEF CancelRecv
  <1>3. r \in Recvs(node[p])
    BY DEF recv_record, Recvs
  <1>4. Good(cancel_recv_by_local_recv_id(node[p], id, r), Linked(p),
             cancelled[p].send)
    BY <1>3, GoodNode, CancelRecvShrinks, ShrinksGood, Zenon
  <1>5. /\ cancelled' \in [Peers -> [send : SUBSET Nat, recv : SUBSET Nat]]
        /\ \A x \in Peers : cancelled'[x].send = cancelled[x].send
    BY <1>2 DEF Inv, GhostType
  <1>6. \A x \in Peers : Linked(x)' = Linked(x)
    BY <1>2 DEF Linked, connVars
  <1>7. NodeInv'
    <2> DEFINE b == cancel_recv_by_local_recv_id(node[p], id, r)
    <2>1. b \in Behaviour
      BY <1>4 DEF Good
    <2>2. Set(p, b) /\ Good(b, Linked(p), cancelled[p].send)
      BY <1>1, <1>4
    <2> HIDE DEF b
    <2>3. node' \in [Peers -> Behaviour]
      BY <2>1, <2>2 DEF Set, Inv, NodeInv
    <2>4. \A x \in Peers : Good(node'[x], Linked(x), cancelled[x].send)
      BY <2>2 DEF Set, Inv, NodeInv
    <2> QED BY <1>5, <1>6, <2>3, <2>4 DEF NodeInv
  <1>8. NetType'
    BY <1>2 DEF Inv, NetType, connVars
  <1>9. GhostType'
    BY <1>2, <1>5 DEF Inv, GhostType, lifeVars
  <1> QED BY <1>7, <1>8, <1>9 DEF Inv

\* push_event, CancelSend: the id is new among the cancelled ones, and no
\* record has it any more.
LEMMA CancelSendInv ==
  ASSUME Inv, NEW p \in Peers, NEW id \in Nat, id < node[p].send_counter,
         CancelSend(p, id)
  PROVE  Inv'
  <1>1. PICK s \in send_record(node[p], id) :
          Set(p, cancel_send_by_local_send_id(node[p], s))
    BY DEF CancelSend
  <1>2. /\ UNCHANGED <<connVars, accepted, lifeVars, faults>>
        /\ cancelled' = [cancelled EXCEPT ![p].send = @ \cup {id}]
    BY DEF CancelSend
  <1>3. s \in Sends(node[p]) /\ s.local_send_id = id
    BY DEF send_record, Sends
  <1> DEFINE b == cancel_send_by_local_send_id(node[p], s)
  <1>4. Shrinks(node[p], b) /\ Good(b, Linked(p), cancelled[p].send)
    BY <1>3, GoodNode, CancelSendShrinks, ShrinksGood, Zenon
  <1>5. \A t \in Sends(b) : t.local_send_id # id
    BY <1>3, GoodNode, CancelSendRemoves DEF Good
  <1>6. Set(p, b)
    BY <1>1
  <1> HIDE DEF b
  <1>7. Good(b, Linked(p), cancelled[p].send \cup {id})
    <2>1. id < b.send_counter
      BY <1>4, GoodNode DEF Shrinks, Behaviour
    <2> QED BY <1>4, <1>5, <2>1 DEF Good, Kept
  <1>8. /\ cancelled' \in [Peers -> [send : SUBSET Nat, recv : SUBSET Nat]]
        /\ cancelled'[p].send = cancelled[p].send \cup {id}
        /\ \A x \in Peers \ {p} : cancelled'[x].send = cancelled[x].send
    BY <1>2 DEF Inv, GhostType
  <1>9. \A x \in Peers : Linked(x)' = Linked(x)
    BY <1>2 DEF Linked, connVars
  <1>10. NodeInv'
    <2>1. node' \in [Peers -> Behaviour] /\ node'[p] = b
      BY <1>4, <1>6 DEF Set, Inv, NodeInv, Shrinks
    <2>2. \A x \in Peers \ {p} : node'[x] = node[x]
      BY <1>6 DEF Set, Inv, NodeInv
    <2>3. \A x \in Peers : Good(node'[x], Linked(x)', cancelled'[x].send)
      BY <1>7, <1>8, <1>9, <2>1, <2>2, GoodNode
    <2> QED BY <2>1, <2>3 DEF NodeInv
  <1>11. NetType'
    BY <1>2 DEF Inv, NetType, connVars
  <1>12. GhostType'
    BY <1>2, <1>8 DEF Inv, GhostType, lifeVars
  <1> QED BY <1>10, <1>11, <1>12 DEF Inv

\* Taking an event off one of the two queues.
LEMMA PopShrinks ==
  ASSUME NEW b \in Behaviour
  PROVE  /\ b.out_events # <<>> =>
              Shrinks(b, [b EXCEPT !.out_events = Tail(@)])
         /\ b.pending_handler_event # <<>> =>
              /\ Shrinks(b, [b EXCEPT !.pending_handler_event = Tail(@)])
              /\ Head(b.pending_handler_event) \in Notification
  <1> DEFINE o == Tail(b.out_events)
             h == Tail(b.pending_handler_event)
  <1>1. /\ b.out_events \in Seq(OutEvent)
        /\ b.pending_handler_event \in Seq(Notification)
        /\ b.connected_peers \in SUBSET b.connected_peers
        /\ b.pending_send \in SUBSET b.pending_send
        /\ b.ongoing_send \in SUBSET b.ongoing_send
        /\ b.pending_recv \in SUBSET b.pending_recv
        /\ b.ongoing_recv \in SUBSET b.ongoing_recv
        /\ b.send_counter \in Nat /\ b.send_counter <= b.send_counter
    BY DEF Behaviour
  <1>2. ASSUME b.out_events # <<>>
        PROVE  Shrinks(b, [b EXCEPT !.out_events = o])
    <2>1. o \in Seq(OutEvent)
      BY <1>1, <1>2
    <2> HIDE DEF o
    <2> QED BY <1>1, <2>1, PutOut, HasShrinks, Zenon
  <1>3. ASSUME b.pending_handler_event # <<>>
        PROVE  /\ Shrinks(b, [b EXCEPT !.pending_handler_event = h])
               /\ Head(b.pending_handler_event) \in Notification
    <2>1. h \in Seq(Notification) /\ Head(b.pending_handler_event) \in Notification
      BY <1>1, <1>3
    <2> HIDE DEF h
    <2>2. Shrinks(b, [b EXCEPT !.pending_handler_event = h])
      BY <1>1, <2>1, PutQueue, HasShrinks, Zenon
    <2> QED BY <2>1, <2>2
  <1> QED BY <1>2, <1>3, Zenon

\* Handing a message to a handler.
LEMMA EnqueueType ==
  ASSUME NetType, NEW l \in Links, NEW m \in Msg
  PROVE  [link EXCEPT ![l].inq = Append(@, m)] \in [Links -> Handler]
  <1> DEFINE i == Append(link[l].inq, m)
  <1>1. link[l] \in Handler /\ link[l].inq \in Seq(Msg)
    BY DEF NetType, Handler
  <1>2. i \in Seq(Msg)
    BY <1>1
  <1> HIDE DEF i
  <1>3. [link[l] EXCEPT !.inq = i] \in Handler
    BY <1>1, <1>2 DEF Handler
  <1>4. [link EXCEPT ![l].inq = i] \in [Links -> Handler]
    BY <1>3 DEF NetType
  <1> QED BY <1>4 DEF i

\* poll, whatever has expired.
LEMMA PollInv ==
  ASSUME Inv, NEW p \in Peers,
         NEW x \in Expiries(node[p]) \cup {NotThrottled}, PollWith(p, x)
  PROVE  Inv'
  <1> DEFINE b == check_expiry(node[p], x)
             h == Head(b.pending_handler_event)
             o1 == [b EXCEPT !.out_events = Tail(@)]
             q1 == [b EXCEPT !.pending_handler_event = Tail(@)]
             G(y) == Good(y, Linked(p), cancelled[p].send)
  <1>1. UNCHANGED <<conn, wire, ghostVars, lifeVars, faults>>
    BY DEF PollWith
  <1>2. \/ b.out_events # <<>> /\ Set(p, o1) /\ UNCHANGED link
        \/ /\ b.pending_handler_event # <<>> /\ Set(p, q1)
           /\ \/ UNCHANGED link
              \/ \E c \in conn[p][h.to] :
                   link' = [link EXCEPT ![<<p, h.to, c>>].inq = Append(@, h.msg)]
    BY Zenon DEF PollWith, PollOutEvent, PollHandlerEvent
  <1>3. G(b) /\ b \in Behaviour
    BY GoodNode, CheckExpiryShrinks, ShrinksGood, Zenon DEF Shrinks
  <1> HIDE DEF b
  <1>4. GhostType'
    BY <1>1 DEF Inv, GhostType, ghostVars, lifeVars
  <1>5. ASSUME NEW y, Set(p, y), G(y)
        PROVE  NodeInv'
    BY <1>1, <1>5, SetInv DEF Inv, ghostVars
  <1>6. CASE b.out_events # <<>> /\ Set(p, o1) /\ UNCHANGED link
    <2>1. G(o1)
      BY <1>3, <1>6, GoodNode, PopShrinks, ShrinksGood, Zenon
    <2>2. NetType'
      BY <1>1, <1>6 DEF Inv, NetType
    <2> QED BY <1>4, <1>5, <1>6, <2>1, <2>2, Zenon DEF Inv
  <1>7. ASSUME b.pending_handler_event # <<>>, Set(p, q1),
               \/ UNCHANGED link
               \/ \E c \in conn[p][h.to] :
                    link' = [link EXCEPT ![<<p, h.to, c>>].inq = Append(@, h.msg)]
        PROVE  Inv'
    <2>0. Shrinks(b, q1) /\ h \in Notification
      BY <1>3, <1>7, PopShrinks
    <2>1. G(q1) /\ h \in Notification
      BY <1>3, <2>0, GoodNode, ShrinksGood, Zenon
    <2>2. h.to \in Peers /\ h.msg \in Msg
      BY <2>1 DEF Notification
    <2> HIDE DEF h
    <2>3. link' \in [Links -> Handler]
      <3>1. CASE UNCHANGED link
        BY <3>1 DEF Inv, NetType
      <3>2. ASSUME NEW c \in conn[p][h.to],
                   link' = [link EXCEPT ![<<p, h.to, c>>].inq = Append(@, h.msg)]
            PROVE  link' \in [Links -> Handler]
        <4>1. <<p, h.to, c>> \in Links
          BY <2>2 DEF Inv, NetType, Links
        <4>2. [link EXCEPT ![<<p, h.to, c>>].inq = Append(@, h.msg)]
                \in [Links -> Handler]
          BY <2>2, <4>1, EnqueueType, Zenon DEF Inv
        <4> QED BY <3>2, <4>2, Zenon
      <3> QED BY <1>7, <3>1, <3>2
    <2>4. NetType'
      BY <1>1, <2>3 DEF Inv, NetType
    <2> QED BY <1>4, <1>5, <1>7, <2>1, <2>4, Zenon DEF Inv
  <1> QED BY <1>2, <1>6, <1>7, Zenon

-----------------------------------------------------------------------------
(* Steps of handlers and connections. *)

\* A step that changes neither a Behaviour nor what the invariants compare it
\* with.
LEMMA NetInv ==
  ASSUME Inv, NetType', UNCHANGED <<node, conn, ghostVars, lifeVars>>,
         UNCHANGED faults \/ Fault
  PROVE  Inv'
  <1>1. NodeInv'
    BY SameInv DEF Inv, ghostVars
  <1>2. faults' \in Nat
    BY FaultType DEF Inv, GhostType
  <1>3. GhostType'
    BY <1>2 DEF Inv, GhostType, ghostVars, lifeVars
  <1> QED BY <1>1, <1>3 DEF Inv

\* A handler reports one more event.
LEMMA ReportType ==
  ASSUME NEW h \in Handler, NEW e \in Event
  PROVE  /\ Append(h.ev, e) \in Seq(Event)
         /\ [h EXCEPT !.ev = Append(@, e)] \in Handler
  <1> DEFINE s == Append(h.ev, e)
  <1>1. s \in Seq(Event)
    BY DEF Handler
  <1> HIDE DEF s
  <1>2. [h EXCEPT !.ev = s] \in Handler
    BY <1>1 DEF Handler
  <1> QED BY <1>1, <1>2 DEF s

\* The events without content.
LEMMA ReportEvents ==
  /\ Report("OutboundNegotiated") \in Event
  /\ Report("InboundNegotiated") \in Event
  /\ Report("Error") \in Event
  BY DEF Report, Event, EventType

\* on_message
LEMMA OnMessageType ==
  ASSUME NEW m \in Msg
  PROVE  on_message(m) \in Event
  <1>1. m.type \in MsgType /\ m.id \in Nat /\ m.body \in Seq(Chunk)
    BY DEF Msg
  <1>2. m.type = "IncomingFile" => m.body # <<>>
    BY DEF Msg
  <1> QED BY <1>1, <1>2 DEF on_message, MsgType, Event, EventType

\* What is in a slot.
LEMMA SlotType ==
  /\ <<>> \in Slot
  /\ \A m \in Msg : <<m>> \in Slot
  /\ \A s \in Slot : s # <<>> => s[1] \in Msg
  BY DEF Slot

\* One handler of all reports one more event.
LEMMA LinkReportType ==
  ASSUME NEW L \in [Links -> Handler], NEW l \in Links, NEW e \in Event
  PROVE  Tell(L, l, e) \in [Links -> Handler]
  <1>1. [L[l] EXCEPT !.ev = Append(@, e)] \in Handler
    BY ReportType
  <1> DEFINE h == [L[l] EXCEPT !.ev = Append(@, e)]
  <1>2. Tell(L, l, e) = [L EXCEPT ![l] = h]
    BY DEF Tell
  <1> HIDE DEF h
  <1>3. [L EXCEPT ![l] = h] \in [Links -> Handler]
    BY <1>1 DEF h
  <1> QED BY <1>2, <1>3

\* OpenStream
LEMMA OpenStreamInv ==
  ASSUME Inv, NEW p \in Peers, NEW q \in Peers, NEW c \in Conns,
         OpenStream(p, q, c)
  PROVE  Inv'
  <1> DEFINE l == <<p, q, c>>
             k == <<q, p, c>>
             o == Report("OutboundNegotiated")
             i == Report("InboundNegotiated")
             L0 == [link EXCEPT ![l].open = TRUE]
             L1 == Tell(L0, l, o)
             L2 == Tell(L1, k, i)
  <1>1. l \in Links /\ k \in Links
    BY DEF Links
  <1>2. /\ link' = L2
        /\ wire' = [wire EXCEPT ![l] = <<>>]
        /\ UNCHANGED <<node, conn, ghostVars, lifeVars, faults>>
    BY DEF OpenStream
  <1>3. o \in Event /\ i \in Event
    BY ReportEvents
  <1> HIDE DEF l, k, o, i
  <1>4. L0 \in [Links -> Handler]
    <2>1. [link[l] EXCEPT !.open = TRUE] \in Handler
      BY <1>1 DEF Inv, NetType, Handler
    <2> QED BY <1>1, <2>1 DEF Inv, NetType
  <1> HIDE DEF L0
  <1>5. L1 \in [Links -> Handler]
    BY <1>1, <1>3, <1>4, LinkReportType, Zenon
  <1> HIDE DEF L1
  <1>6. L2 \in [Links -> Handler]
    BY <1>1, <1>3, <1>5, LinkReportType, Zenon
  <1> HIDE DEF L2
  <1>7. wire' \in [Links -> Slot]
    BY <1>1, <1>2, SlotType DEF Inv, NetType
  <1>8. NetType'
    BY <1>2, <1>6, <1>7 DEF Inv, NetType
  <1> QED BY <1>2, <1>8, NetInv

\* Transmit
LEMMA TransmitInv ==
  ASSUME Inv, NEW p \in Peers, NEW q \in Peers, NEW c \in Conns,
         Transmit(p, q, c)
  PROVE  Inv'
  <1> DEFINE l == <<p, q, c>>
             i == Tail(link[l].inq)
             m == <<Head(link[l].inq)>>
  <1>1. l \in Links
    BY DEF Links
  <1>2. /\ link[l].inq # <<>>
        /\ link' = [link EXCEPT ![l].inq = Tail(@), ![l].busy = m]
        /\ wire' = [wire EXCEPT ![l] = m]
        /\ UNCHANGED <<node, conn, ghostVars, lifeVars, faults>>
    BY DEF Transmit
  <1>3. link[l] \in Handler /\ link[l].inq \in Seq(Msg)
    BY <1>1 DEF Inv, NetType, Handler
  <1>4. i \in Seq(Msg) /\ m \in Slot
    BY <1>2, <1>3, SlotType
  <1>5. link' = [link EXCEPT ![l].inq = i, ![l].busy = m]
    BY <1>2
  <1> HIDE DEF l, i, m
  <1>6. [link[l] EXCEPT !.inq = i, !.busy = m] \in Handler
    BY <1>3, <1>4 DEF Handler
  <1>7. link' \in [Links -> Handler]
    BY <1>1, <1>5, <1>6 DEF Inv, NetType
  <1>8. wire' \in [Links -> Slot]
    BY <1>1, <1>2, <1>4 DEF Inv, NetType
  <1>9. NetType'
    BY <1>2, <1>7, <1>8 DEF Inv, NetType
  <1> QED BY <1>2, <1>9, NetInv

\* Arrive
LEMMA ArriveInv ==
  ASSUME Inv, NEW p \in Peers, NEW q \in Peers, NEW c \in Conns,
         Arrive(p, q, c)
  PROVE  Inv'
  <1> DEFINE l == <<p, q, c>>
             k == <<q, p, c>>
             e == on_message(wire[l][1])
  <1>1. l \in Links /\ k \in Links
    BY DEF Links
  <1>2. /\ wire[l] # <<>>
        /\ link' = Tell(link, k, e)
        /\ wire' = [wire EXCEPT ![l] = <<>>]
        /\ UNCHANGED <<node, conn, ghostVars, lifeVars, faults>>
    BY DEF Arrive
  <1>3. e \in Event
    BY <1>1, <1>2, SlotType, OnMessageType DEF Inv, NetType
  <1> HIDE DEF l, k, e
  <1>4. link' \in [Links -> Handler]
    <2>1. Tell(link, k, e) \in [Links -> Handler]
      BY <1>1, <1>3, LinkReportType, Zenon DEF Inv, NetType
    <2> QED BY <1>2, <2>1
  <1>5. wire' \in [Links -> Slot]
    BY <1>1, <1>2, SlotType DEF Inv, NetType
  <1>6. NetType'
    BY <1>2, <1>4, <1>5 DEF Inv, NetType
  <1> QED BY <1>2, <1>6, NetInv

\* Complete
LEMMA CompleteInv ==
  ASSUME Inv, NEW p \in Peers, NEW q \in Peers, NEW c \in Conns,
         Complete(p, q, c)
  PROVE  Inv'
  <1> DEFINE l == <<p, q, c>>
             h == link[l]
             d == [type |-> "SendProgressed", id |-> h.busy[1].id, body |-> <<>>]
             s == IF h.busy[1].type = "FileChunk" THEN Append(h.ev, d) ELSE h.ev
  <1>1. l \in Links
    BY DEF Links
  <1>2. /\ h.busy # <<>>
        /\ link' = [link EXCEPT ![l].busy = <<>>, ![l].ev = s]
        /\ UNCHANGED <<node, conn, wire, ghostVars, lifeVars, faults>>
    BY DEF Complete
  <1>3. h \in Handler /\ h.busy \in Slot /\ h.ev \in Seq(Event)
    BY <1>1 DEF Inv, NetType, Handler
  <1>4. d \in Event
    <2>1. h.busy[1] \in Msg
      BY <1>2, <1>3, SlotType
    <2> HIDE DEF h
    <2>2. h.busy[1].id \in Nat
      BY <2>1 DEF Msg
    <2> QED BY <2>2 DEF Event, EventType
  <1> HIDE DEF d
  <1>5. s \in Seq(Event)
    BY <1>3, <1>4
  <1> HIDE DEF l, s
  <1>6. [link[l] EXCEPT !.busy = <<>>, !.ev = s] \in Handler
    BY <1>3, <1>5, SlotType DEF Handler
  <1> HIDE DEF h
  <1>7. link' \in [Links -> Handler]
    BY <1>1, <1>2, <1>6 DEF Inv, NetType
  <1>8. NetType'
    BY <1>2, <1>7 DEF Inv, NetType
  <1> QED BY <1>2, <1>8, NetInv

\* Fail
LEMMA FailInv ==
  ASSUME Inv, NEW p \in Peers, NEW q \in Peers, NEW c \in Conns,
         Fail(p, q, c)
  PROVE  Inv'
  <1> DEFINE l == <<p, q, c>>
             k == <<q, p, c>>
             e == Report("Error")
             L0 == [link EXCEPT ![l].open = FALSE, ![l].busy = <<>>]
             L1 == Tell(L0, l, e)
             L2 == Tell(L1, k, e)
  <1>1. l \in Links /\ k \in Links
    BY DEF Links
  <1>2. /\ link' = L1 \/ link' = L2
        /\ UNCHANGED wire \/ wire' = [wire EXCEPT ![l] = <<>>]
        /\ UNCHANGED <<node, conn, ghostVars, lifeVars>> /\ Fault
    BY DEF Fail
  <1>3. e \in Event
    BY ReportEvents
  <1> HIDE DEF l, k, e
  <1>4. L0 \in [Links -> Handler]
    <2>1. [link[l] EXCEPT !.open = FALSE, !.busy = <<>>] \in Handler
      BY <1>1, SlotType DEF Inv, NetType, Handler
    <2> QED BY <1>1, <2>1 DEF Inv, NetType
  <1> HIDE DEF L0
  <1>5. L1 \in [Links -> Handler]
    BY <1>1, <1>3, <1>4, LinkReportType, Zenon
  <1> HIDE DEF L1
  <1>6. L2 \in [Links -> Handler]
    BY <1>1, <1>3, <1>5, LinkReportType, Zenon
  <1> HIDE DEF L2
  <1>7. wire' \in [Links -> Slot]
    BY <1>1, <1>2, SlotType DEF Inv, NetType
  <1>8. NetType'
    BY <1>2, <1>5, <1>6, <1>7 DEF Inv, NetType
  <1> QED BY <1>2, <1>8, NetInv

\* Connect
LEMMA ConnectInv ==
  ASSUME Inv, NEW p \in Peers, NEW q \in Peers, NEW c \in Conns,
         Connect(p, q, c)
  PROVE  Inv'
  <1> DEFINE l == <<p, q, c>>
             k == <<q, p, c>>
  <1>1. l \in Links /\ k \in Links
    BY DEF Links
  <1>2. /\ p # q
        /\ conn' = [conn EXCEPT ![p][q] = @ \cup {c}, ![q][p] = @ \cup {c}]
        /\ link' = [link EXCEPT ![l] = NewHandler, ![k] = NewHandler]
        /\ wire' = [wire EXCEPT ![l] = <<>>, ![k] = <<>>]
        /\ UNCHANGED <<node, ghostVars, lifeVars, faults>>
    BY DEF Connect
  <1> HIDE DEF l, k
  <1>3. link' \in [Links -> Handler]
    BY <1>1, <1>2, NewHandlerType DEF Inv, NetType
  <1>4. wire' \in [Links -> Slot]
    BY <1>1, <1>2, SlotType DEF Inv, NetType
  <1>5. conn' \in [Peers -> [Peers -> SUBSET Conns]]
    <2>1. /\ conn[p] \in [Peers -> SUBSET Conns] /\ conn[q] \in [Peers -> SUBSET Conns]
          /\ conn[p][q] \cup {c} \in SUBSET Conns
          /\ conn[q][p] \cup {c} \in SUBSET Conns
      BY DEF Inv, NetType
    <2>2. /\ [conn[p] EXCEPT ![q] = conn[p][q] \cup {c}] \in [Peers -> SUBSET Conns]
          /\ [conn[q] EXCEPT ![p] = conn[q][p] \cup {c}] \in [Peers -> SUBSET Conns]
      BY <2>1
    <2>3. conn' = [conn EXCEPT ![p] = [conn[p] EXCEPT ![q] = conn[p][q] \cup {c}],
                               ![q] = [conn[q] EXCEPT ![p] = conn[q][p] \cup {c}]]
      BY <1>2 DEF Inv, NetType
    <2> QED BY <2>2, <2>3 DEF Inv, NetType
  <1>6. \A x, y \in Peers : conn[x][y] \subseteq conn'[x][y]
    BY <1>2 DEF Inv, NetType
  <1>7. NetType'
    BY <1>3, <1>4, <1>5 DEF NetType
  <1>8. GhostType'
    BY <1>2 DEF Inv, GhostType, ghostVars, lifeVars
  <1>9. \A x \in Peers : Linked(x) \subseteq Linked(x)'
    BY <1>6 DEF Linked
  <1>10. ASSUME NEW x \in Peers
         PROVE  Good(node[x], Linked(x)', cancelled[x].send)
    BY <1>9, GoodNode, GoodMono, Zenon
  <1>11. NodeInv'
    BY <1>2, <1>10 DEF Inv, NodeInv, ghostVars
  <1> QED BY <1>7, <1>8, <1>11 DEF Inv

\* Close: the last connection to a peer takes its records along.
LEMMA CloseInv ==
  ASSUME Inv, NEW p \in Peers, NEW q \in Peers, NEW c \in Conns,
         Close(p, q, c), UNCHANGED faults \/ Fault
  PROVE  Inv'
  <1> DEFINE l == <<p, q, c>>
  <1>1. l \in Links
    BY DEF Links
  <1>2. /\ conn' = [conn EXCEPT ![p][q] = @ \ {c}]
        /\ link' = [link EXCEPT ![l] = NewHandler]
        /\ UNCHANGED <<wire, ghostVars, lifeVars>>
        /\ c \in conn[p][q]
    BY DEF Close
  <1> HIDE DEF l
  <1>3. link' \in [Links -> Handler]
    BY <1>1, <1>2, NewHandlerType DEF Inv, NetType
  <1>4. conn' \in [Peers -> [Peers -> SUBSET Conns]]
    BY <1>2 DEF Inv, NetType
  <1>5. NetType'
    BY <1>2, <1>3, <1>4 DEF Inv, NetType
  <1>6. faults' \in Nat
    BY FaultType DEF Inv, GhostType
  <1>7. GhostType'
    BY <1>2, <1>6 DEF Inv, GhostType, ghostVars, lifeVars
  <1>8. /\ conn'[p][q] = conn[p][q] \ {c}
        /\ \A x, y \in Peers : x # p \/ y # q => conn'[x][y] = conn[x][y]
    BY <1>2 DEF Inv, NetType
  <1>9. CASE conn[p][q] = {c}
    <2> DEFINE b == on_disconnect(node[p], q)
    <2>1. Set(p, b)
      BY <1>9 DEF Close
    <2>2. /\ Shrinks(node[p], b) /\ q \notin b.connected_peers
          /\ \A r \in Sends(b) \cup Recvs(b) : r.remote # q
      BY GoodNode, OnDisconnectShrinks
    <2>3. Good(b, Linked(p), cancelled[p].send)
      BY <2>2, GoodNode, ShrinksGood, Zenon
    <2> HIDE DEF b
    <2>4. /\ \A x \in Peers \ {p} : Linked(x)' = Linked(x)
          /\ \A y \in Linked(p) : y # q => y \in Linked(p)'
      BY <1>8 DEF Linked
    <2>5. Good(b, Linked(p)', cancelled[p].send)
      <3>1. Held(b, Linked(p)')
        BY <2>2, <2>3, <2>4 DEF Good, Held
      <3> QED BY <2>3, <3>1 DEF Good
    <2>6. node' \in [Peers -> Behaviour] /\ node'[p] = b
      BY <2>1, <2>2 DEF Set, Inv, NodeInv, Shrinks
    <2>7. \A x \in Peers \ {p} : node'[x] = node[x]
      BY <2>1 DEF Set, Inv, NodeInv
    <2>8. \A x \in Peers : Good(node'[x], Linked(x)', cancelled[x].send)
      BY <2>4, <2>5, <2>6, <2>7, GoodNode
    <2>9. NodeInv'
      BY <1>2, <2>6, <2>8 DEF NodeInv, ghostVars
    <2> QED BY <1>5, <1>7, <2>9 DEF Inv
  <1>10. CASE conn[p][q] # {c}
    <2>1. UNCHANGED node
      BY <1>10 DEF Close
    <2>2. conn'[p][q] # {} /\ conn[p][q] # {}
      BY <1>2, <1>8, <1>10
    <2>3. \A x \in Peers : Linked(x)' = Linked(x)
      BY <1>8, <2>2 DEF Linked
    <2>4. NodeInv'
      BY <1>2, <2>1, <2>3 DEF Inv, NodeInv, ghostVars
    <2> QED BY <1>5, <1>7, <2>4 DEF Inv
  <1> QED BY <1>9, <1>10

-----------------------------------------------------------------------------
(* Theorems. *)

\* The program starts in the invariant.
LEMMA InitInv == Init => Inv
  <1> SUFFICES ASSUME Init
               PROVE  Inv
    OBVIOUS
  <1>1. NetType
    <2>1. [NewHandler EXCEPT !.open = TRUE] \in Handler
      BY NewHandlerType DEF Handler
    <2>2. [NewHandler EXCEPT !.open = FALSE] \in Handler
      BY NewHandlerType DEF Handler
    <2>3. link \in [Links -> Handler]
      <3>1. \A l \in Links : (l \in Up) = TRUE \/ (l \in Up) = FALSE
        OBVIOUS
      <3>2. \A l \in Links : [NewHandler EXCEPT !.open = (l \in Up)] \in Handler
        BY <2>1, <2>2, <3>1
      <3> QED BY <3>2 DEF Init
    <2>4. conn \in [Peers -> [Peers -> SUBSET Conns]] /\ wire \in [Links -> Slot]
      BY SlotType DEF Init
    <2> QED BY <2>3, <2>4 DEF NetType
  <1>2. GhostType
    BY DEF Init, GhostType
  <1>3. ASSUME NEW p \in Peers
        PROVE  /\ InitBehaviour(p) \in Behaviour
               /\ Good(InitBehaviour(p), Linked(p), {})
    <2> DEFINE C == {q \in Peers : \E c \in Conns : <<p, q, c>> \in Up}
    <2>1. C = Linked(p) /\ C \in SUBSET Peers
      BY DEF Init, Linked
    <2>2. InitBehaviour(p) = [NewBehaviour EXCEPT !.connected_peers = C]
      BY DEF InitBehaviour
    <2> HIDE DEF C
    <2>3. NewBehaviour \in Behaviour /\ Good(NewBehaviour, C, {})
      BY NewBehaviourGood DEF Good
    <2>4. Has(InitBehaviour(p), C, 0, 0, {}, {}, {}, {})
      <3>1. Has([NewBehaviour EXCEPT !.connected_peers = C], C,
                NewBehaviour.send_counter, NewBehaviour.recv_counter,
                NewBehaviour.pending_send, NewBehaviour.ongoing_send,
                NewBehaviour.pending_recv, NewBehaviour.ongoing_recv)
        BY <2>1, <2>3, PutPeers
      <3> QED BY <2>2, <3>1 DEF NewBehaviour, Has
    <2> QED BY <2>1, <2>4 DEF Has, Good, Ids, Held, Kept, Sends, Recvs
  <1>4. NodeInv
    BY <1>3 DEF Init, NodeInv
  <1> QED BY <1>1, <1>2, <1>4 DEF Inv

\* Every step keeps it.
LEMMA NextInv == Inv /\ [Next]_vars => Inv'
  <1> SUFFICES ASSUME Inv, [Next]_vars
               PROVE  Inv'
    OBVIOUS
  <1>1. ASSUME NEW p \in Peers, User(p)
        PROVE  Inv'
    <2>1. ASSUME NEW q \in Peers, NEW f \in Files, SendFile(p, q, f)
          PROVE  Inv'
      BY <2>1, SendFileInv
    <2>2. ASSUME NEW q \in Peers, SendFileNotFound(p, q) \/ SendFileNoMetadata(p, q)
          PROVE  Inv'
      BY <2>2, SendFileNothingInv
    <2>3. ASSUME NEW q \in Peers, SendFileLate(p, q)
          PROVE  Inv'
      BY <2>3, SendFileLateInv
    <2>4. CASE AcceptFile(p)
      BY <2>4, AcceptFileInv
    <2>5. ASSUME NEW id \in 0..(node[p].recv_counter - 1), CancelRecv(p, id)
          PROVE  Inv'
      BY <2>5, CancelRecvInv
    <2>6. ASSUME NEW id \in 0..(node[p].send_counter - 1), CancelSend(p, id)
          PROVE  Inv'
      <3>1. node[p].send_counter \in Nat
        BY GoodNode DEF Behaviour
      <3>2. id \in Nat /\ id < node[p].send_counter
        BY <3>1
      <3> QED BY <2>6, <3>2, CancelSendInv
    <2> QED BY <1>1, <2>1, <2>2, <2>3, <2>4, <2>5, <2>6, Zenon DEF User
  <1>2. ASSUME NEW p \in Peers, Poll(p) \/ PollExpiry(p)
        PROVE  Inv'
    BY <1>2, PollInv DEF Poll, PollExpiry
  <1>3. ASSUME NEW p \in Peers, Restart(p)
        PROVE  Inv'
    BY <1>3, RestartInv
  <1>4. ASSUME NEW p \in Peers, NEW q \in Peers, NEW c \in Conns,
               HandlerEvent(p, q, c)
        PROVE  Inv'
    BY <1>4, OnIncomingFileInv, OnRecvProgressedInv, OnFileSendAcceptedInv,
       AcceptedTwiceInv, OnSendProgressedInv, OnRemoteCancelSendInv,
       OnRemoteCancelRecvInv, OnOutboundNegotiatedInv, OnReportInv, Zenon
    DEF HandlerEvent
  <1>5. ASSUME NEW p \in Peers, NEW q \in Peers, NEW c \in Conns,
               Transport(p, q, c) \/ Failure(p, q, c) \/ Connect(p, q, c)
        PROVE  Inv'
    BY <1>5, OpenStreamInv, TransmitInv, ArriveInv, CompleteInv, CloseInv,
       FailInv, ConnectInv, Zenon
    DEF Transport, Failure, ConnectionNoticed, ConnectionLost
  <1>6. CASE UNCHANGED vars
    BY <1>6, SameInv DEF vars, Inv, NetType, GhostType
  <1> QED BY <1>1, <1>2, <1>3, <1>4, <1>5, <1>6, Zenon DEF Next

\* The invariant holds in every reachable state.
LEMMA InvHolds == Spec => []Inv
  BY InitInv, NextInv, PTL DEF Spec

\* Every state the Behaviours, the handlers and the wires can reach has the
\* type the code gives it: among others, one message at most is outstanding
\* per handler and no event reaches a Behaviour that it has no case for.
THEOREM TypeCorrect == Spec => []TypeOK
  <1>1. Inv => TypeOK
    BY DEF Inv, NodeInv, NetType, GhostType, TypeOK
  <1> QED BY <1>1, InvHolds, PTL

\* Ids name one operation each (next_send_id, next_recv_id and the moves
\* between the maps), however many peers, connections, failures and restarts.
THEOREM IdsAreConsistent == Spec => []IdsConsistent
  <1>1. Inv => IdsConsistent
    BY DEF Inv, NodeInv, Good, IdsConsistent
  <1> QED BY <1>1, InvHolds, PTL

\* on_disconnect leaves no record behind and no late event brings one back.
THEOREM NothingOrphaned == Spec => []NoOrphanRecords
  <1>1. Inv => NoOrphanRecords
    BY DEF Inv, NodeInv, Good, Held, Linked, NoOrphanRecords
  <1> QED BY <1>1, InvHolds, PTL

\* A send that was cancelled is never resumed, whatever was on its way.
THEOREM CancelledStaysCancelled == Spec => []CancelledSendStays
  <1>1. Inv => CancelledSendStays
    BY DEF Inv, NodeInv, Good, Kept, CancelledSendStays
  <1> QED BY <1>1, InvHolds, PTL

=============================================================================
