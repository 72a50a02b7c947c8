-------------------------- MODULE BlobFlowProofs --------------------------
(***************************************************************************)
(* Proofs about the two ends of a transfer, for any number of peers,       *)
(* connections, files and requests: an acceptance is handled once, one     *)
(* send is one recv, and nothing is sent unasked.                          *)
(*                                                                         *)
(* They rest on where a request can be.  SendFile makes it a letter        *)
(* (IncomingFile), which on_new_pending_recv turns into a record of the    *)
(* remote, AcceptFile into a letter back (AcceptFile), and                 *)
(* pending_send_accepted into an ongoing send.  FlowInv says that it is    *)
(* never two of them at once, and that no letter is there twice.  Each end *)
(* may drop its part at any time (CancelSend, CancelRecv, expiry, a closed *)
(* connection); that loses a request and never makes two.  A restart takes *)
(* send_counter back to zero while letters and records about the old ids   *)
(* are still about: FlowInv says nothing after one.                        *)
(***************************************************************************)
EXTENDS BlobProofs

-----------------------------------------------------------------------------
(* Where requests and answers are.  A letter from p to q is queued in the  *)
(* Behaviour of p, then in a handler of p, then on the wire, then reported *)
(* by a handler of q; <<k, c, i>> is its place.  N, L and W stand for      *)
(* node, link and wire, before or after a step.                            *)

Letter == {m \in Msg : m.type \in {"IncomingFile", "AcceptFile"}}

At(N, L, W, m, p, q, k, c, i) ==
  \/ /\ k = "queue" /\ c = p
     /\ i \in DOMAIN N[p].pending_handler_event
     /\ N[p].pending_handler_event[i].to = q
     /\ N[p].pending_handler_event[i].msg = m
  \/ /\ k = "inq" /\ c \in Conns
     /\ i \in DOMAIN L[<<p, q, c>>].inq /\ L[<<p, q, c>>].inq[i] = m
  \/ /\ k = "wire" /\ c \in Conns
     /\ i = 1 /\ W[<<p, q, c>>] # <<>> /\ W[<<p, q, c>>][1] = m
  \/ /\ k = "ev" /\ c \in Conns
     /\ i \in DOMAIN L[<<q, p, c>>].ev
     /\ L[<<q, p, c>>].ev[i] = on_message(m)

\* m is on its way from p to q.
Aloft(N, L, W, m, p, q) == \E k, c, i : At(N, L, W, m, p, q, k, c, i)

\* No two letters of one kind from p to q are about the same send.
Lone(N, L, W, p, q) ==
  \A m, n \in Letter : \A k, c, i, k2, c2, i2 :
    /\ At(N, L, W, m, p, q, k, c, i)
    /\ At(N, L, W, n, p, q, k2, c2, i2)
    /\ m.type = n.type /\ m.id = n.id
    => k = k2 /\ c = c2 /\ i = i2

\* A step only moves or loses letters.
Carried(N, L, W, N2, L2, W2) ==
  \A p, q \in Peers :
    /\ Lone(N, L, W, p, q) => Lone(N2, L2, W2, p, q)
    /\ \A m \in Letter :
         Aloft(N2, L2, W2, m, p, q) => Aloft(N, L, W, m, p, q)

\* Two such steps make one.
LEMMA CarriedTrans ==
  ASSUME NEW N, NEW L, NEW W, NEW N1, NEW L1, NEW W1, NEW N2, NEW L2, NEW W2,
         Carried(N, L, W, N1, L1, W1), Carried(N1, L1, W1, N2, L2, W2)
  PROVE  Carried(N, L, W, N2, L2, W2)
  BY Zenon DEF Carried

\* From p to q a queue may lose its head (k0, c0), which may go to one new
\* place (k1, c1, i1); everything else stays where it is or is lost.
Hop(N, L, W, N2, L2, W2, p, q, k0, c0, k1, c1, i1) ==
  \A m \in Letter : \A k, c, i :
    At(N2, L2, W2, m, p, q, k, c, i) =>
      \/ /\ k # k0 \/ c # c0
         /\ ~(k = k1 /\ c = c1 /\ i = i1)
         /\ At(N, L, W, m, p, q, k, c, i)
      \/ /\ k = k0 /\ c = c0 /\ i \in Nat /\ i >= 1
         /\ At(N, L, W, m, p, q, k, c, i + 1)
      \/ /\ k = k1 /\ c = c1 /\ i = i1
         /\ At(N, L, W, m, p, q, k0, c0, 1)

\* Such a move keeps letters apart.
LEMMA Carry ==
  ASSUME NEW N, NEW L, NEW W, NEW N2, NEW L2, NEW W2,
         NEW p \in Peers, NEW q \in Peers,
         NEW k0, NEW c0, NEW k1, NEW c1, NEW i1,
         Hop(N, L, W, N2, L2, W2, p, q, k0, c0, k1, c1, i1)
  PROVE  /\ Lone(N, L, W, p, q) => Lone(N2, L2, W2, p, q)
         /\ \A m \in Letter :
              Aloft(N2, L2, W2, m, p, q) => Aloft(N, L, W, m, p, q)
  <1>1. \A m \in Letter :
          Aloft(N2, L2, W2, m, p, q) => Aloft(N, L, W, m, p, q)
    BY DEF Aloft, Hop
  <1>2. ASSUME Lone(N, L, W, p, q),
               NEW m \in Letter, NEW n \in Letter, NEW k, NEW c, NEW i,
               NEW k2, NEW c2, NEW i2,
               At(N2, L2, W2, m, p, q, k, c, i),
               At(N2, L2, W2, n, p, q, k2, c2, i2),
               m.type = n.type, m.id = n.id
        PROVE  k = k2 /\ c = c2 /\ i = i2
    <2> DEFINE A(x, a, b, j) == At(N, L, W, x, p, q, a, b, j)
    <2>1. \A a, b, j, a2, b2, j2 :
            A(m, a, b, j) /\ A(n, a2, b2, j2) => a = a2 /\ b = b2 /\ j = j2
      BY <1>2 DEF Lone
    <2>2. \/ (k # k0 \/ c # c0) /\ ~(k = k1 /\ c = c1 /\ i = i1) /\ A(m, k, c, i)
          \/ k = k0 /\ c = c0 /\ i \in Nat /\ i >= 1 /\ A(m, k, c, i + 1)
          \/ k = k1 /\ c = c1 /\ i = i1 /\ A(m, k0, c0, 1)
      BY <1>2 DEF Hop
    <2>3. \/ /\ k2 # k0 \/ c2 # c0
             /\ ~(k2 = k1 /\ c2 = c1 /\ i2 = i1) /\ A(n, k2, c2, i2)
          \/ k2 = k0 /\ c2 = c0 /\ i2 \in Nat /\ i2 >= 1 /\ A(n, k2, c2, i2 + 1)
          \/ k2 = k1 /\ c2 = c1 /\ i2 = i1 /\ A(n, k0, c0, 1)
      BY <1>2 DEF Hop
    <2> HIDE DEF A
    <2>4. CASE A(m, k, c, i) /\ (k # k0 \/ c # c0) /\ ~(k = k1 /\ c = c1 /\ i = i1)
      BY <2>1, <2>3, <2>4
    <2>5. CASE k = k0 /\ c = c0 /\ i \in Nat /\ i >= 1 /\ A(m, k, c, i + 1)
      BY <2>1, <2>3, <2>5
    <2>6. CASE k = k1 /\ c = c1 /\ i = i1 /\ A(m, k0, c0, 1)
      BY <2>1, <2>3, <2>6
    <2> QED BY <2>2, <2>4, <2>5, <2>6
  <1>3. Lone(N, L, W, p, q) => Lone(N2, L2, W2, p, q)
    BY <1>2, ZenonT(60) DEF Lone
  <1> QED BY <1>1, <1>3

\* Nothing moves; anything may be lost.
LEMMA Stay ==
  ASSUME NEW N, NEW L, NEW W, NEW N2, NEW L2, NEW W2,
         NEW p \in Peers, NEW q \in Peers,
         \A m \in Letter : \A k, c, i :
           At(N2, L2, W2, m, p, q, k, c, i) => At(N, L, W, m, p, q, k, c, i)
  PROVE  /\ Lone(N, L, W, p, q) => Lone(N2, L2, W2, p, q)
         /\ \A m \in Letter :
              Aloft(N2, L2, W2, m, p, q) => Aloft(N, L, W, m, p, q)
  <1>1. \A m \in Letter :
          Aloft(N2, L2, W2, m, p, q) => Aloft(N, L, W, m, p, q)
    BY DEF Aloft
  <1>2. ASSUME Lone(N, L, W, p, q),
               NEW m \in Letter, NEW n \in Letter, NEW k, NEW c, NEW i,
               NEW k2, NEW c2, NEW i2,
               At(N2, L2, W2, m, p, q, k, c, i),
               At(N2, L2, W2, n, p, q, k2, c2, i2),
               m.type = n.type, m.id = n.id
        PROVE  k = k2 /\ c = c2 /\ i = i2
    <2>1. At(N, L, W, m, p, q, k, c, i) /\ At(N, L, W, n, p, q, k2, c2, i2)
      BY <1>2
    <2> QED BY <1>2, <2>1 DEF Lone
  <1>3. Lone(N, L, W, p, q) => Lone(N2, L2, W2, p, q)
    BY <1>2, ZenonT(60) DEF Lone
  <1> QED BY <1>1, <1>3

-----------------------------------------------------------------------------
(* The steps a letter takes. *)

\* a has no letter in its queue that b does not have, at the same place.
Hushed(b, a) ==
  \A i \in DOMAIN a.pending_handler_event :
    a.pending_handler_event[i].msg \in Letter =>
      /\ i \in DOMAIN b.pending_handler_event
      /\ a.pending_handler_event[i] = b.pending_handler_event[i]

\* Queues get no letters.
LEMMA CarryHushed ==
  ASSUME NEW N, NEW L, NEW W, NEW N2,
         \A a \in Peers : Hushed(N[a], N2[a])
  PROVE  Carried(N, L, W, N2, L, W)
  <1> SUFFICES ASSUME NEW p \in Peers, NEW q \in Peers
               PROVE  /\ Lone(N, L, W, p, q) => Lone(N2, L, W, p, q)
                      /\ \A m \in Letter : Aloft(N2, L, W, m, p, q)
                                             => Aloft(N, L, W, m, p, q)
    BY DEF Carried
  <1>1. ASSUME NEW m \in Letter, NEW k, NEW c, NEW i,
               At(N2, L, W, m, p, q, k, c, i)
        PROVE  At(N, L, W, m, p, q, k, c, i)
    <2>1. Hushed(N[p], N2[p])
      OBVIOUS
    <2> QED BY <1>1, <2>1 DEF At, Hushed
  <1> QED BY <1>1, Stay

\* What a handler says about the network.
Quieter(h, h2) ==
  /\ \A i \in DOMAIN h2.inq :
       h2.inq[i] \in Letter => i \in DOMAIN h.inq /\ h2.inq[i] = h.inq[i]
  /\ \A i \in DOMAIN h2.ev :
       h2.ev[i].type \in {"IncomingFile", "FileSendAccepted"}
         => i \in DOMAIN h.ev /\ h2.ev[i] = h.ev[i]

\* What on_message makes of a letter.
LEMMA LetterEvent ==
  ASSUME NEW m \in Letter
  PROVE  /\ on_message(m).type \in {"IncomingFile", "FileSendAccepted"}
         /\ on_message(m).type = "IncomingFile" <=> m.type = "IncomingFile"
         /\ on_message(m).type = "FileSendAccepted" <=> m.type = "AcceptFile"
         /\ on_message(m).id = m.id
         /\ on_message(m).body = m.body
  BY DEF Letter, on_message

\* Handlers and wires get no letters.
LEMMA CarryQuieter ==
  ASSUME NEW N, NEW L, NEW W, NEW L2, NEW W2,
         \A l \in Links : Quieter(L[l], L2[l]),
         \A l \in Links : W2[l] # <<>> => W2[l] = W[l]
  PROVE  Carried(N, L, W, N, L2, W2)
  <1> SUFFICES ASSUME NEW p \in Peers, NEW q \in Peers
               PROVE  /\ Lone(N, L, W, p, q) => Lone(N, L2, W2, p, q)
                      /\ \A m \in Letter : Aloft(N, L2, W2, m, p, q)
                                             => Aloft(N, L, W, m, p, q)
    BY DEF Carried
  <1>1. ASSUME NEW m \in Letter, NEW k, NEW c, NEW i,
               At(N, L2, W2, m, p, q, k, c, i)
        PROVE  At(N, L, W, m, p, q, k, c, i)
    <2>1. CASE k = "queue"
      BY <1>1, <2>1 DEF At
    <2>2. CASE k # "queue"
      <3>1. c \in Conns
        BY <1>1, <2>2 DEF At
      <3>2. <<p, q, c>> \in Links /\ <<q, p, c>> \in Links
        BY <3>1 DEF Links
      <3>3. Quieter(L[<<p, q, c>>], L2[<<p, q, c>>])
        BY <3>2
      <3>4. Quieter(L[<<q, p, c>>], L2[<<q, p, c>>])
        BY <3>2
      <3>5. W2[<<p, q, c>>] # <<>> => W2[<<p, q, c>>] = W[<<p, q, c>>]
        BY <3>2
      <3> QED BY <1>1, <2>2, <3>3, <3>4, <3>5, LetterEvent DEF At, Quieter
    <2> QED BY <2>1, <2>2
  <1> QED BY <1>1, Stay

\* The tail of a sequence, by index.
LEMMA TailAt ==
  ASSUME NEW S, NEW s \in Seq(S), s # <<>>
  PROVE  /\ Tail(s) \in Seq(S)
         /\ \A i \in DOMAIN Tail(s) :
              i \in Nat /\ i >= 1 /\ i + 1 \in DOMAIN s /\ Tail(s)[i] = s[i + 1]
         /\ 1 \in DOMAIN s /\ Head(s) = s[1]
  OBVIOUS

\* One more element, by index.
LEMMA AppendAt ==
  ASSUME NEW S, NEW s \in Seq(S), NEW e
  PROVE  \A i \in DOMAIN Append(s, e) :
           \/ i \in DOMAIN s /\ i # Len(s) + 1 /\ Append(s, e)[i] = s[i]
           \/ i = Len(s) + 1 /\ Append(s, e)[i] = e
  OBVIOUS

\* What Tail does to one handler.
Takes(L, L2, a, b, d) ==
  /\ L[<<a, b, d>>].ev # <<>>
  /\ L2[<<a, b, d>>].ev = Tail(L[<<a, b, d>>].ev)
  /\ \A l \in Links : L2[l].inq = L[l].inq
  /\ \A l \in Links : l # <<a, b, d>> => L2[l].ev = L[l].ev

\* A Behaviour takes the next event of a handler.
LEMMA CarryTake ==
  ASSUME NEW N, NEW L \in [Links -> Handler], NEW W, NEW L2,
         NEW a \in Peers, NEW b \in Peers, NEW d \in Conns,
         Takes(L, L2, a, b, d)
  PROVE  Carried(N, L, W, N, L2, W)
  <1> SUFFICES ASSUME NEW p \in Peers, NEW q \in Peers
               PROVE  /\ Lone(N, L, W, p, q) => Lone(N, L2, W, p, q)
                      /\ \A m \in Letter : Aloft(N, L2, W, m, p, q)
                                             => Aloft(N, L, W, m, p, q)
    BY DEF Carried
  <1> DEFINE z == L[<<a, b, d>>].ev
  <1>1. <<a, b, d>> \in Links /\ z \in Seq(Event) /\ z # <<>>
    BY DEF Links, Handler, Takes
  <1>3. \A i \in DOMAIN Tail(z) :
          i \in Nat /\ i >= 1 /\ i + 1 \in DOMAIN z /\ Tail(z)[i] = z[i + 1]
    BY <1>1, TailAt, Zenon
  <1>4. \A c \in Conns : <<p, q, c>> \in Links /\ <<q, p, c>> \in Links
    BY DEF Links
  <1>5. CASE a = q /\ b = p
    <2>1. ASSUME NEW m \in Letter, NEW k, NEW c, NEW i,
                 At(N, L2, W, m, p, q, k, c, i)
          PROVE  \/ /\ k # "ev" \/ c # d
                    /\ ~(k = "none" /\ c = d /\ i = 1)
                    /\ At(N, L, W, m, p, q, k, c, i)
                 \/ /\ k = "ev" /\ c = d /\ i \in Nat /\ i >= 1
                    /\ At(N, L, W, m, p, q, k, c, i + 1)
                 \/ /\ k = "none" /\ c = d /\ i = 1
                    /\ At(N, L, W, m, p, q, "ev", d, 1)
      <3>1. CASE k = "ev" /\ c = d
        <4>1. i \in DOMAIN Tail(z) /\ Tail(z)[i] = on_message(m)
          BY <1>5, <2>1, <3>1 DEF At, Takes
        <4> QED BY <1>3, <1>5, <3>1, <4>1 DEF At
      <3>2. CASE ~(k = "ev" /\ c = d)
        BY <1>4, <1>5, <2>1, <3>2 DEF At, Takes
      <3> QED BY <3>1, <3>2
    <2>2. Hop(N, L, W, N, L2, W, p, q, "ev", d, "none", d, 1)
      BY <2>1 DEF Hop
    <2> HIDE DEF z
    <2> QED BY <2>2, Carry
  <1>6. CASE ~(a = q /\ b = p)
    <2>1. ASSUME NEW m \in Letter, NEW k, NEW c, NEW i,
                 At(N, L2, W, m, p, q, k, c, i)
          PROVE  At(N, L, W, m, p, q, k, c, i)
      BY <1>4, <1>6, <2>1 DEF At, Takes
    <2> HIDE DEF z
    <2> QED BY <2>1, Stay
  <1> QED BY <1>5, <1>6

\* What poll does to one queue.
Pops(N, N2, a) ==
  /\ N[a].pending_handler_event # <<>>
  /\ N2[a].pending_handler_event = Tail(N[a].pending_handler_event)
  /\ \A b \in Peers : b # a =>
       N2[b].pending_handler_event = N[b].pending_handler_event

\* The queue of a, one shorter.
LEMMA PopsAt ==
  ASSUME NEW N \in [Peers -> Behaviour], NEW N2, NEW a \in Peers,
         Pops(N, N2, a)
  PROVE  LET z == N[a].pending_handler_event
         IN  /\ \A i \in DOMAIN Tail(z) :
                  i \in Nat /\ i >= 1 /\ i + 1 \in DOMAIN z /\ Tail(z)[i] = z[i + 1]
             /\ 1 \in DOMAIN z /\ Head(z) = z[1]
  <1> DEFINE z == N[a].pending_handler_event
  <1>1. z \in Seq(Notification) /\ z # <<>>
    BY DEF Behaviour, Pops
  <1> QED BY <1>1, TailAt, Zenon

\* poll takes a message for a peer without connections: it is lost.
LEMMA CarryPop ==
  ASSUME NEW N \in [Peers -> Behaviour], NEW L, NEW W, NEW N2,
         NEW a \in Peers, Pops(N, N2, a)
  PROVE  Carried(N, L, W, N2, L, W)
  <1> SUFFICES ASSUME NEW p \in Peers, NEW q \in Peers
               PROVE  /\ Lone(N, L, W, p, q) => Lone(N2, L, W, p, q)
                      /\ \A m \in Letter : Aloft(N2, L, W, m, p, q)
                                             => Aloft(N, L, W, m, p, q)
    BY DEF Carried
  <1> DEFINE z == N[a].pending_handler_event
  <1>1. \A i \in DOMAIN Tail(z) :
          i \in Nat /\ i >= 1 /\ i + 1 \in DOMAIN z /\ Tail(z)[i] = z[i + 1]
    BY PopsAt
  <1>2. CASE p = a
    <2>1. ASSUME NEW m \in Letter, NEW k, NEW c, NEW i,
                 At(N2, L, W, m, p, q, k, c, i)
          PROVE  \/ /\ k # "queue" \/ c # p
                    /\ ~(k = "none" /\ c = p /\ i = 1)
                    /\ At(N, L, W, m, p, q, k, c, i)
                 \/ /\ k = "queue" /\ c = p /\ i \in Nat /\ i >= 1
                    /\ At(N, L, W, m, p, q, k, c, i + 1)
                 \/ /\ k = "none" /\ c = p /\ i = 1
                    /\ At(N, L, W, m, p, q, "queue", p, 1)
      <3>1. CASE k = "queue" /\ c = p
        <4>1. i \in DOMAIN Tail(z) /\ Tail(z)[i].to = q /\ Tail(z)[i].msg = m
          BY <1>2, <2>1, <3>1 DEF At, Pops
        <4> QED BY <1>1, <1>2, <3>1, <4>1 DEF At
      <3>2. CASE ~(k = "queue" /\ c = p)
        BY <1>2, <2>1, <3>2 DEF At, Pops
      <3> QED BY <3>1, <3>2
    <2>2. Hop(N, L, W, N2, L, W, p, q, "queue", p, "none", p, 1)
      BY <2>1 DEF Hop
    <2> HIDE DEF z
    <2> QED BY <2>2, Carry
  <1>3. CASE p # a
    <2>1. ASSUME NEW m \in Letter, NEW k, NEW c, NEW i,
                 At(N2, L, W, m, p, q, k, c, i)
          PROVE  At(N, L, W, m, p, q, k, c, i)
      BY <1>3, <2>1 DEF At, Pops
    <2> HIDE DEF z
    <2> QED BY <2>1, Stay
  <1> QED BY <1>2, <1>3

\* A message is handed to the handler of a on connection d with b.
Posts(L, L2, a, b, d, m) ==
  /\ L2[<<a, b, d>>].inq = Append(L[<<a, b, d>>].inq, m)
  /\ \A l \in Links : l # <<a, b, d>> => L2[l].inq = L[l].inq
  /\ \A l \in Links : L2[l].ev = L[l].ev

\* poll takes a message and a connection is there.
LEMMA CarryPost ==
  ASSUME NEW N \in [Peers -> Behaviour], NEW L \in [Links -> Handler], NEW W,
         NEW N2, NEW L2, NEW a \in Peers, NEW d \in Conns, Pops(N, N2, a),
         Posts(L, L2, a, Head(N[a].pending_handler_event).to, d,
               Head(N[a].pending_handler_event).msg)
  PROVE  Carried(N, L, W, N2, L2, W)
  <1> SUFFICES ASSUME NEW p \in Peers, NEW q \in Peers
               PROVE  /\ Lone(N, L, W, p, q) => Lone(N2, L2, W, p, q)
                      /\ \A m \in Letter : Aloft(N2, L2, W, m, p, q)
                                             => Aloft(N, L, W, m, p, q)
    BY DEF Carried
  <1> DEFINE z == N[a].pending_handler_event
             h == Head(z)
             l0 == <<a, h.to, d>>
             y == L[l0].inq
             n == Len(y) + 1
  <1>1. /\ \A i \in DOMAIN Tail(z) :
             i \in Nat /\ i >= 1 /\ i + 1 \in DOMAIN z /\ Tail(z)[i] = z[i + 1]
        /\ 1 \in DOMAIN z /\ h = z[1]
    BY PopsAt
  <1>2. z \in Seq(Notification) /\ z # <<>>
    BY DEF Behaviour, Pops
  <1>3. h \in Notification
    BY <1>2
  <1>4. h.to \in Peers /\ l0 \in Links
    BY <1>3 DEF Notification, Links
  <1>5. y \in Seq(Msg)
    BY <1>4 DEF Handler
  <1>6. \A i \in DOMAIN Append(y, h.msg) :
           \/ i \in DOMAIN y /\ i # n /\ Append(y, h.msg)[i] = y[i]
           \/ i = n /\ Append(y, h.msg)[i] = h.msg
    BY <1>5, AppendAt, Zenon
  <1>7. /\ L2[l0].inq = Append(y, h.msg)
        /\ \A l \in Links : l # l0 => L2[l].inq = L[l].inq
        /\ \A l \in Links : L2[l].ev = L[l].ev
    BY DEF Posts
  <1>8. \A c \in Conns : <<p, q, c>> \in Links /\ <<q, p, c>> \in Links
    BY DEF Links
  <1>9. CASE p = a /\ q = h.to
    <2>1. ASSUME NEW m \in Letter, NEW k, NEW c, NEW i,
                 At(N2, L2, W, m, p, q, k, c, i)
          PROVE  \/ /\ k # "queue" \/ c # p
                    /\ ~(k = "inq" /\ c = d /\ i = n)
                    /\ At(N, L, W, m, p, q, k, c, i)
                 \/ /\ k = "queue" /\ c = p /\ i \in Nat /\ i >= 1
                    /\ At(N, L, W, m, p, q, k, c, i + 1)
                 \/ /\ k = "inq" /\ c = d /\ i = n
                    /\ At(N, L, W, m, p, q, "queue", p, 1)
      <3>1. CASE k = "queue"
        <4>1. /\ c = p /\ i \in DOMAIN Tail(z) /\ Tail(z)[i].to = q
              /\ Tail(z)[i].msg = m
          BY <1>9, <2>1, <3>1 DEF At, Pops
        <4> QED BY <1>1, <1>9, <3>1, <4>1 DEF At
      <3>2. CASE k = "inq" /\ c = d
        <4>1. i \in DOMAIN Append(y, h.msg) /\ Append(y, h.msg)[i] = m
          BY <1>7, <1>9, <2>1, <3>2 DEF At
        <4>2. CASE i = n
          <5>1. h.msg = m
            BY <1>6, <4>1, <4>2
          <5> QED BY <1>1, <1>9, <3>2, <4>2, <5>1 DEF At
        <4>3. CASE i # n
          <5>1. i \in DOMAIN y /\ y[i] = m
            BY <1>6, <4>1, <4>3
          <5> QED BY <1>9, <3>2, <4>3, <5>1 DEF At
        <4> QED BY <4>2, <4>3
      <3>3. CASE k = "inq" /\ c # d
        <4>1. c \in Conns /\ <<p, q, c>> # l0
          BY <2>1, <3>3 DEF At
        <4> HIDE DEF l0, n
        <4> QED BY <1>7, <1>8, <2>1, <3>3, <4>1 DEF At
      <3>4. CASE k # "queue" /\ k # "inq"
        BY <1>7, <1>8, <2>1, <3>4 DEF At
      <3> QED BY <3>1, <3>2, <3>3, <3>4
    <2>2. Hop(N, L, W, N2, L2, W, p, q, "queue", p, "inq", d, n)
      BY <2>1 DEF Hop
    <2> HIDE DEF z, h, l0, y, n
    <2> QED BY <2>2, Carry
  <1>10. CASE p = a /\ q # h.to
    <2>1. ASSUME NEW m \in Letter, NEW k, NEW c, NEW i,
                 At(N2, L2, W, m, p, q, k, c, i)
          PROVE  \/ /\ k # "queue" \/ c # p
                    /\ ~(k = "none" /\ c = p /\ i = 1)
                    /\ At(N, L, W, m, p, q, k, c, i)
                 \/ /\ k = "queue" /\ c = p /\ i \in Nat /\ i >= 1
                    /\ At(N, L, W, m, p, q, k, c, i + 1)
                 \/ /\ k = "none" /\ c = p /\ i = 1
                    /\ At(N, L, W, m, p, q, "queue", p, 1)
      <3>1. CASE k = "queue"
        <4>1. /\ c = p /\ i \in DOMAIN Tail(z) /\ Tail(z)[i].to = q
              /\ Tail(z)[i].msg = m
          BY <1>10, <2>1, <3>1 DEF At, Pops
        <4> QED BY <1>1, <1>10, <3>1, <4>1 DEF At
      <3>2. CASE k # "queue"
        <4>1. \A c2 \in Conns : <<p, q, c2>> # l0
          BY <1>10
        <4> HIDE DEF l0
        <4> QED BY <1>7, <1>8, <2>1, <3>2, <4>1 DEF At
      <3> QED BY <3>1, <3>2
    <2>2. Hop(N, L, W, N2, L2, W, p, q, "queue", p, "none", p, 1)
      BY <2>1 DEF Hop
    <2> HIDE DEF z, h, l0, y, n
    <2> QED BY <2>2, Carry
  <1>11. CASE p # a
    <2>1. ASSUME NEW m \in Letter, NEW k, NEW c, NEW i,
                 At(N2, L2, W, m, p, q, k, c, i)
          PROVE  At(N, L, W, m, p, q, k, c, i)
      <3>1. \A c2 \in Conns : <<p, q, c2>> # l0
        BY <1>11
      <3>2. N2[p].pending_handler_event = N[p].pending_handler_event
        BY <1>11 DEF Pops
      <3> HIDE DEF l0
      <3> QED BY <1>7, <1>8, <2>1, <3>1, <3>2 DEF At
    <2> HIDE DEF z, h, l0, y, n
    <2> QED BY <2>1, Stay
  <1> QED BY <1>9, <1>10, <1>11

\* What progress_outbound does to one handler and its wire.
Sent(L, L2, W, W2, l) ==
  /\ L[l].inq # <<>>
  /\ L2[l].inq = Tail(L[l].inq)
  /\ W2[l] = <<Head(L[l].inq)>>
  /\ \A j \in Links : j # l => L2[j].inq = L[j].inq /\ W2[j] = W[j]
  /\ \A j \in Links : L2[j].ev = L[j].ev

\* progress_outbound
LEMMA CarrySent ==
  ASSUME NEW N, NEW L \in [Links -> Handler], NEW W, NEW L2, NEW W2,
         NEW a \in Peers, NEW b \in Peers, NEW d \in Conns,
         Sent(L, L2, W, W2, <<a, b, d>>)
  PROVE  Carried(N, L, W, N, L2, W2)
  <1> SUFFICES ASSUME NEW p \in Peers, NEW q \in Peers
               PROVE  /\ Lone(N, L, W, p, q) => Lone(N, L2, W2, p, q)
                      /\ \A m \in Letter : Aloft(N, L2, W2, m, p, q)
                                             => Aloft(N, L, W, m, p, q)
    BY DEF Carried
  <1> DEFINE l == <<a, b, d>>
             z == L[l].inq
  <1>1. l \in Links
    BY DEF Links
  <1>2. z \in Seq(Msg) /\ z # <<>>
    BY <1>1 DEF Handler, Sent
  <1>3. /\ \A i \in DOMAIN Tail(z) :
             i \in Nat /\ i >= 1 /\ i + 1 \in DOMAIN z /\ Tail(z)[i] = z[i + 1]
        /\ 1 \in DOMAIN z /\ Head(z) = z[1]
    BY <1>2, TailAt, Zenon
  <1>4. \A c \in Conns : <<p, q, c>> \in Links /\ <<q, p, c>> \in Links
    BY DEF Links
  <1>5. /\ L2[l].inq = Tail(z)
        /\ W2[l] # <<>> /\ W2[l][1] = Head(z)
        /\ \A j \in Links : j # l => L2[j].inq = L[j].inq /\ W2[j] = W[j]
        /\ \A j \in Links : L2[j].ev = L[j].ev
    BY DEF Sent
  <1>6. CASE p = a /\ q = b
    <2>1. ASSUME NEW m \in Letter, NEW k, NEW c, NEW i,
                 At(N, L2, W2, m, p, q, k, c, i)
          PROVE  \/ /\ k # "inq" \/ c # d
                    /\ ~(k = "wire" /\ c = d /\ i = 1)
                    /\ At(N, L, W, m, p, q, k, c, i)
                 \/ /\ k = "inq" /\ c = d /\ i \in Nat /\ i >= 1
                    /\ At(N, L, W, m, p, q, k, c, i + 1)
                 \/ /\ k = "wire" /\ c = d /\ i = 1
                    /\ At(N, L, W, m, p, q, "inq", d, 1)
      <3>1. CASE k = "inq" /\ c = d
        <4>1. i \in DOMAIN Tail(z) /\ Tail(z)[i] = m
          BY <1>5, <1>6, <2>1, <3>1 DEF At
        <4> QED BY <1>3, <1>6, <3>1, <4>1 DEF At
      <3>2. CASE k = "wire" /\ c = d
        <4>1. i = 1 /\ Head(z) = m
          BY <1>5, <1>6, <2>1, <3>2 DEF At
        <4> QED BY <1>3, <1>6, <3>2, <4>1 DEF At
      <3>3. CASE c # d \/ (k # "inq" /\ k # "wire")
        <4>1. \A c2 \in Conns : c2 # d => <<p, q, c2>> # l
          OBVIOUS
        <4> HIDE DEF l
        <4> QED BY <1>4, <1>5, <2>1, <3>3, <4>1 DEF At
      <3> QED BY <3>1, <3>2, <3>3
    <2>2. Hop(N, L, W, N, L2, W2, p, q, "inq", d, "wire", d, 1)
      BY <2>1 DEF Hop
    <2> HIDE DEF z, l
    <2> QED BY <2>2, Carry
  <1>7. CASE ~(p = a /\ q = b)
    <2>1. ASSUME NEW m \in Letter, NEW k, NEW c, NEW i,
                 At(N, L2, W2, m, p, q, k, c, i)
          PROVE  At(N, L, W, m, p, q, k, c, i)
      <3>1. \A c2 \in Conns : <<p, q, c2>> # l
        BY <1>7
      <3> HIDE DEF l
      <3> QED BY <1>4, <1>5, <2>1, <3>1 DEF At
    <2> HIDE DEF z, l
    <2> QED BY <2>1, Stay
  <1> QED BY <1>6, <1>7

\* What is reported tells which letter came.
LEMMA OnMessageInjective ==
  ASSUME NEW m \in Letter, NEW n \in Msg, on_message(m) = on_message(n)
  PROVE  m = n
  <1>1. /\ m \in [type : MsgType, id : Nat, body : Seq(Chunk)]
        /\ n \in [type : MsgType, id : Nat, body : Seq(Chunk)]
        /\ m.type \in {"IncomingFile", "AcceptFile"}
    BY DEF Letter, Msg
  <1>2. m.id = n.id /\ m.body = n.body
    BY DEF on_message
  <1>3. on_message(n).type = on_message(m).type
    OBVIOUS
  <1>4. m.type = n.type
    BY <1>1, <1>3 DEF on_message, MsgType
  <1> QED BY <1>1, <1>2, <1>4

\* What poll_inbound does to one handler and the wire to it.
Reads(L, L2, W, W2, a, b, d) ==
  /\ W[<<a, b, d>>] # <<>>
  /\ W2[<<a, b, d>>] = <<>>
  /\ \A j \in Links : j # <<a, b, d>> => W2[j] = W[j]
  /\ L2[<<b, a, d>>].ev = Append(L[<<b, a, d>>].ev, on_message(W[<<a, b, d>>][1]))
  /\ \A j \in Links : j # <<b, a, d>> => L2[j].ev = L[j].ev
  /\ \A j \in Links : L2[j].inq = L[j].inq

\* poll_inbound
LEMMA CarryRead ==
  ASSUME NEW N, NEW L \in [Links -> Handler], NEW W \in [Links -> Slot],
         NEW L2, NEW W2,
         NEW a \in Peers, NEW b \in Peers, NEW d \in Conns,
         Reads(L, L2, W, W2, a, b, d)
  PROVE  Carried(N, L, W, N, L2, W2)
  <1> SUFFICES ASSUME NEW p \in Peers, NEW q \in Peers
               PROVE  /\ Lone(N, L, W, p, q) => Lone(N, L2, W2, p, q)
                      /\ \A m \in Letter : Aloft(N, L2, W2, m, p, q)
                                             => Aloft(N, L, W, m, p, q)
    BY DEF Carried
  <1> DEFINE l == <<a, b, d>>
             g == <<b, a, d>>
             z == L[g].ev
             x == W[l][1]
             n == Len(z) + 1
  <1>1. l \in Links /\ g \in Links
    BY DEF Links
  <1>2. z \in Seq(Event) /\ W[l] # <<>> /\ x \in Msg
    BY <1>1, SlotType DEF Handler, Reads
  <1>3. \A i \in DOMAIN Append(z, on_message(x)) :
           \/ i \in DOMAIN z /\ i # n /\ Append(z, on_message(x))[i] = z[i]
           \/ i = n /\ Append(z, on_message(x))[i] = on_message(x)
    BY <1>2, AppendAt, Zenon
  <1>4. \A c \in Conns : <<p, q, c>> \in Links /\ <<q, p, c>> \in Links
    BY DEF Links
  <1>5. /\ L2[g].ev = Append(z, on_message(x))
        /\ \A j \in Links : j # g => L2[j].ev = L[j].ev
        /\ W2[l] = <<>>
        /\ \A j \in Links : j # l => W2[j] = W[j]
        /\ \A j \in Links : L2[j].inq = L[j].inq
    BY DEF Reads
  <1>6. CASE p = a /\ q = b
    <2>1. ASSUME NEW m \in Letter, NEW k, NEW c, NEW i,
                 At(N, L2, W2, m, p, q, k, c, i)
          PROVE  \/ /\ k # "wire" \/ c # d
                    /\ ~(k = "ev" /\ c = d /\ i = n)
                    /\ At(N, L, W, m, p, q, k, c, i)
                 \/ /\ k = "wire" /\ c = d /\ i \in Nat /\ i >= 1
                    /\ At(N, L, W, m, p, q, k, c, i + 1)
                 \/ /\ k = "ev" /\ c = d /\ i = n
                    /\ At(N, L, W, m, p, q, "wire", d, 1)
      <3>1. CASE k = "ev" /\ c = d
        <4>1. /\ i \in DOMAIN Append(z, on_message(x))
              /\ Append(z, on_message(x))[i] = on_message(m)
          BY <1>5, <1>6, <2>1, <3>1 DEF At
        <4>2. CASE i = n
          <5>1. on_message(m) = on_message(x)
            BY <1>3, <4>1, <4>2
          <5>2. m = x
            BY <1>2, <5>1, OnMessageInjective
          <5> QED BY <1>2, <1>6, <3>1, <4>2, <5>2 DEF At
        <4>3. CASE i # n
          <5>1. i \in DOMAIN z /\ z[i] = on_message(m)
            BY <1>3, <4>1, <4>3
          <5> QED BY <1>6, <3>1, <4>3, <5>1 DEF At
        <4> QED BY <4>2, <4>3
      <3>2. CASE k = "wire" /\ c = d
        BY <1>5, <1>6, <2>1, <3>2 DEF At
      <3>3. CASE c # d \/ (k # "ev" /\ k # "wire")
        <4>1. \A c2 \in Conns : c2 # d => <<p, q, c2>> # l /\ <<q, p, c2>> # g
          OBVIOUS
        <4> HIDE DEF l, g, n
        <4> QED BY <1>4, <1>5, <2>1, <3>3, <4>1 DEF At
      <3> QED BY <3>1, <3>2, <3>3
    <2>2. Hop(N, L, W, N, L2, W2, p, q, "wire", d, "ev", d, n)
      BY <2>1 DEF Hop
    <2> HIDE DEF z, l, g, x, n
    <2> QED BY <2>2, Carry
  <1>7. CASE ~(p = a /\ q = b)
    <2>1. ASSUME NEW m \in Letter, NEW k, NEW c, NEW i,
                 At(N, L2, W2, m, p, q, k, c, i)
          PROVE  At(N, L, W, m, p, q, k, c, i)
      <3>1. \A c2 \in Conns : <<p, q, c2>> # l /\ <<q, p, c2>> # g
        BY <1>7
      <3> HIDE DEF l, g
      <3> QED BY <1>4, <1>5, <2>1, <3>1 DEF At
    <2> HIDE DEF z, l, g, x, n
    <2> QED BY <2>1, Stay
  <1> QED BY <1>6, <1>7

-----------------------------------------------------------------------------
(* A letter is written, a letter is read. *)

\* a queues m for b.
Writes(N, N2, a, b, m) ==
  /\ N2[a].pending_handler_event
       = Append(N[a].pending_handler_event, [to |-> b, msg |-> m])
  /\ \A x \in Peers : x # a =>
       N2[x].pending_handler_event = N[x].pending_handler_event

\* The only new letter is m, and if nothing like it was on its way it is
\* still the only one.
LEMMA WriteLetter ==
  ASSUME NEW N \in [Peers -> Behaviour], NEW L, NEW W, NEW N2,
         NEW a \in Peers, NEW b \in Peers, NEW m \in Letter,
         Writes(N, N2, a, b, m)
  PROVE  /\ \A p, q \in Peers : \A n \in Letter :
              Aloft(N2, L, W, n, p, q) =>
                Aloft(N, L, W, n, p, q) \/ (p = a /\ q = b /\ n = m)
         /\ \A p, q \in Peers :
              /\ Lone(N, L, W, p, q)
              /\ p = a /\ q = b => \A n \in Letter :
                   n.type = m.type /\ n.id = m.id => ~Aloft(N, L, W, n, p, q)
              => Lone(N2, L, W, p, q)
  <1> DEFINE z == N[a].pending_handler_event
             e == [to |-> b, msg |-> m]
             j == Len(z) + 1
  <1>1. z \in Seq(Notification)
    BY DEF Behaviour
  <1>2. \A i \in DOMAIN Append(z, e) :
           \/ i \in DOMAIN z /\ i # j /\ Append(z, e)[i] = z[i]
           \/ i = j /\ Append(z, e)[i] = e
    BY <1>1, AppendAt, Zenon
  <1>3. ASSUME NEW p \in Peers, NEW q \in Peers, NEW n \in Letter,
               NEW k, NEW c, NEW i, At(N2, L, W, n, p, q, k, c, i)
        PROVE  \/ At(N, L, W, n, p, q, k, c, i)
               \/ /\ p = a /\ q = b /\ n = m
                  /\ k = "queue" /\ c = a /\ i = j
    <2>1. CASE k = "queue" /\ p = a
      <3>1. /\ c = a /\ i \in DOMAIN Append(z, e) /\ Append(z, e)[i].to = q
            /\ Append(z, e)[i].msg = n
        BY <1>3, <2>1 DEF At, Writes
      <3> QED BY <1>2, <2>1, <3>1 DEF At
    <2>2. CASE ~(k = "queue" /\ p = a)
      BY <1>3, <2>2 DEF At, Writes
    <2> QED BY <2>1, <2>2
  <1> HIDE DEF z, e, j
  <1>4. ASSUME NEW p \in Peers, NEW q \in Peers, NEW n \in Letter,
               Aloft(N2, L, W, n, p, q)
        PROVE  Aloft(N, L, W, n, p, q) \/ (p = a /\ q = b /\ n = m)
    BY <1>3, <1>4 DEF Aloft
  <1>5. ASSUME NEW p \in Peers, NEW q \in Peers, Lone(N, L, W, p, q),
               p = a /\ q = b => \A n \in Letter :
                 n.type = m.type /\ n.id = m.id => ~Aloft(N, L, W, n, p, q)
        PROVE  Lone(N2, L, W, p, q)
    <2> SUFFICES ASSUME NEW x \in Letter, NEW y \in Letter, NEW k, NEW c,
                        NEW i, NEW k2, NEW c2, NEW i2,
                        At(N2, L, W, x, p, q, k, c, i),
                        At(N2, L, W, y, p, q, k2, c2, i2),
                        x.type = y.type, x.id = y.id
                 PROVE  k = k2 /\ c = c2 /\ i = i2
      BY ZenonT(60) DEF Lone
    <2>1. /\ At(N, L, W, x, p, q, k, c, i) => Aloft(N, L, W, x, p, q)
          /\ At(N, L, W, y, p, q, k2, c2, i2) => Aloft(N, L, W, y, p, q)
      BY Zenon DEF Aloft
    <2>2. \/ At(N, L, W, x, p, q, k, c, i)
          \/ p = a /\ q = b /\ x = m /\ k = "queue" /\ c = a /\ i = j
      BY <1>3
    <2>3. \/ At(N, L, W, y, p, q, k2, c2, i2)
          \/ p = a /\ q = b /\ y = m /\ k2 = "queue" /\ c2 = a /\ i2 = j
      BY <1>3
    <2>4. CASE At(N, L, W, x, p, q, k, c, i) /\ At(N, L, W, y, p, q, k2, c2, i2)
      BY <1>5, <2>4 DEF Lone
    <2>5. CASE ~(At(N, L, W, x, p, q, k, c, i) /\ At(N, L, W, y, p, q, k2, c2, i2))
      BY <1>5, <2>1, <2>2, <2>3, <2>5
    <2> QED BY <2>4, <2>5
  <1> QED BY <1>4, <1>5

\* When a takes the event that m, a letter from b, has become, nothing like m
\* is on its way any more.
LEMMA ReadLetter ==
  ASSUME NEW N, NEW L \in [Links -> Handler], NEW W, NEW L2,
         NEW a \in Peers, NEW b \in Peers, NEW d \in Conns,
         Takes(L, L2, a, b, d), NEW m \in Letter,
         Head(L[<<a, b, d>>].ev) = on_message(m), Lone(N, L, W, b, a)
  PROVE  /\ Aloft(N, L, W, m, b, a)
         /\ \A n \in Letter :
              n.type = m.type /\ n.id = m.id => ~Aloft(N, L2, W, n, b, a)
  <1> DEFINE z == L[<<a, b, d>>].ev
  <1>1. <<a, b, d>> \in Links /\ z \in Seq(Event) /\ z # <<>>
    BY DEF Links, Handler, Takes
  <1>2. /\ \A i \in DOMAIN Tail(z) :
             i \in Nat /\ i >= 1 /\ i + 1 \in DOMAIN z /\ Tail(z)[i] = z[i + 1]
        /\ 1 \in DOMAIN z /\ Head(z) = z[1]
    BY <1>1, TailAt, Zenon
  <1>3. At(N, L, W, m, b, a, "ev", d, 1)
    BY <1>2 DEF At
  <1>4. ASSUME NEW n \in Letter, n.type = m.type, n.id = m.id, NEW k, NEW c,
               NEW i, At(N, L2, W, n, b, a, k, c, i)
        PROVE  FALSE
    <2>1. CASE k = "ev" /\ c = d
      <3>1. i \in DOMAIN Tail(z) /\ Tail(z)[i] = on_message(n)
        BY <1>4, <2>1 DEF At, Takes
      <3>2. i \in Nat /\ i >= 1 /\ At(N, L, W, n, b, a, "ev", d, i + 1)
        BY <1>2, <3>1 DEF At
      <3>3. i + 1 = 1
        BY <1>3, <1>4, <3>2 DEF Lone
      <3> QED BY <3>2, <3>3
    <2>2. CASE ~(k = "ev" /\ c = d)
      <3>0. \A c2 \in Conns : <<b, a, c2>> \in Links /\ <<a, b, c2>> \in Links
        BY DEF Links
      <3>1. At(N, L, W, n, b, a, k, c, i)
        BY <1>4, <2>2, <3>0 DEF At, Takes
      <3> QED BY <1>3, <1>4, <2>2, <3>1 DEF Lone
    <2> QED BY <2>1, <2>2
  <1> HIDE DEF z
  <1>5. Aloft(N, L, W, m, b, a)
    BY <1>3 DEF Aloft
  <1> QED BY <1>4, <1>5 DEF Aloft

-----------------------------------------------------------------------------
(* The invariant.  A request of p to q is first a letter (IncomingFile),   *)
(* then a pending record of q, then a letter back (AcceptFile), then an    *)
(* ongoing send of p: never two of them.  It holds as long as nobody has   *)
(* restarted with the counters at zero: then ids are given out again.  P   *)
(* and A stand for panic and accepted.                                     *)

About(r, p, id) == r.remote = p /\ r.remote_send_id = id

\* A request that has not been read.
Announced(N, L, W, P, p, q) ==
  \A m \in Letter : m.type = "IncomingFile" /\ Aloft(N, L, W, m, p, q) =>
    /\ \A r \in Recvs(N[q]) : ~About(r, p, m.id)
    /\ \A n \in Letter :
         n.type = "AcceptFile" /\ n.id = m.id => ~Aloft(N, L, W, n, q, p)
    /\ P[p] = "none" => m.id < N[p].send_counter
    /\ \A s \in N[p].ongoing_send : s.local_send_id # m.id
    /\ \A s \in N[p].pending_send :
         s.local_send_id = m.id => s.remote = q /\ s.file = m.body[1][1]

\* A request that waits for the user of q.
Waiting(N, P, p, q) ==
  /\ \A r \in Recvs(N[q]) :
       r.remote = p /\ P[p] = "none" => r.remote_send_id < N[p].send_counter
  /\ \A r \in N[q].pending_recv : r.remote = p =>
       /\ \A s \in N[p].ongoing_send : s.local_send_id # r.remote_send_id
       /\ \A s \in N[p].pending_send :
            s.local_send_id = r.remote_send_id => s.remote = q /\ s.file = r.file

\* An answer that has not been read.
Answered(N, L, W, P, A, p, q) ==
  \A m \in Letter : m.type = "AcceptFile" /\ Aloft(N, L, W, m, q, p) =>
    /\ \A r \in N[q].pending_recv : ~About(r, p, m.id)
    /\ P[p] = "none" => m.id < N[p].send_counter
    /\ \A s \in N[p].ongoing_send : s.local_send_id # m.id
    /\ \A s \in N[p].pending_send : s.local_send_id = m.id =>
         s.remote = q /\ <<p, m.id, s.file>> \in A

\* The records of one peer, and why it has not panicked.
Single(b) ==
  \A r, t \in Recvs(b) : About(r, t.remote, t.remote_send_id) => r = t
Started(N, A, p) ==
  \A s \in N[p].ongoing_send : <<p, s.local_send_id, s.file>> \in A

Flow(N, L, W, P, A) ==
  /\ \A p, q \in Peers :
       /\ Lone(N, L, W, p, q)
       /\ Announced(N, L, W, P, p, q)
       /\ Waiting(N, P, p, q)
       /\ Answered(N, L, W, P, A, p, q)
  /\ \A p \in Peers :
       Single(N[p]) /\ Started(N, A, p) /\ P[p] # "Already handled"

\* a has no record that b does not have, but for the progress of the ongoing
\* ones.
Tame(b, a) ==
  /\ a.pending_send \subseteq b.pending_send
  /\ \A s \in a.ongoing_send : \E t \in b.ongoing_send :
       /\ t.local_send_id = s.local_send_id
       /\ t.remote = s.remote /\ t.file = s.file
  /\ a.pending_recv \subseteq b.pending_recv
  /\ \A r \in a.ongoing_recv : \E t \in b.ongoing_recv :
       /\ t.local_recv_id = r.local_recv_id
       /\ t.remote = r.remote /\ t.remote_send_id = r.remote_send_id

\* A step that starts nothing at p.
Calm(N, P, A, N2, P2, A2, p) ==
  /\ Tame(N[p], N2[p])
  /\ P2[p] = "none" =>
       P[p] = "none" /\ N[p].send_counter <= N2[p].send_counter
  /\ P2[p] = "Already handled" => P[p] = "Already handled"
  /\ \A s \in Sends(N2[p]) :
       <<p, s.local_send_id, s.file>> \in A
         => <<p, s.local_send_id, s.file>> \in A2

\* Every recv of a was one of b: same id, same remote, same send.
Descend(b, a) ==
  \A r \in Recvs(a) : \E t \in Recvs(b) :
    /\ t.local_recv_id = r.local_recv_id
    /\ t.remote = r.remote /\ t.remote_send_id = r.remote_send_id

\* After a calm step the recvs are some of those before.
LEMMA TameKeys ==
  ASSUME NEW b, NEW a, Tame(b, a)
  PROVE  Descend(b, a)
  BY DEF Tame, Recvs, Descend

\* One send is one recv still.
LEMMA DescendSingle ==
  ASSUME NEW b, NEW a, Descend(b, a), Single(b), Ids(a), Ids(b)
  PROVE  Single(a)
  <1> SUFFICES ASSUME NEW r \in Recvs(a), NEW t \in Recvs(a),
                      About(r, t.remote, t.remote_send_id)
               PROVE  r = t
    BY DEF Single
  <1>1. PICK x \in Recvs(b) : /\ x.local_recv_id = r.local_recv_id
                              /\ x.remote = r.remote
                              /\ x.remote_send_id = r.remote_send_id
    BY DEF Descend
  <1>2. PICK y \in Recvs(b) : /\ y.local_recv_id = t.local_recv_id
                              /\ y.remote = t.remote
                              /\ y.remote_send_id = t.remote_send_id
    BY DEF Descend
  <1>3. x = y
    BY <1>1, <1>2 DEF Single, About
  <1> QED BY <1>1, <1>2, <1>3 DEF Ids

\* Steps that only move letters and start nothing keep the invariant.
LEMMA CalmFlow ==
  ASSUME NEW N \in [Peers -> Behaviour], NEW L, NEW W, NEW P, NEW A,
         NEW N2 \in [Peers -> Behaviour], NEW L2, NEW W2, NEW P2, NEW A2,
         Flow(N, L, W, P, A),
         Carried(N, L, W, N2, L2, W2),
         \A p \in Peers : Calm(N, P, A, N2, P2, A2, p),
         \A p \in Peers : Ids(N[p]) /\ Ids(N2[p])
  PROVE  Flow(N2, L2, W2, P2, A2)
  <1>1. \A p, q \in Peers : Lone(N2, L2, W2, p, q)
    BY DEF Flow, Carried
  <1>2. \A p, q \in Peers : \A m \in Letter :
          Aloft(N2, L2, W2, m, p, q) => Aloft(N, L, W, m, p, q)
    BY DEF Carried
  <1>3. \A p \in Peers : /\ N[p].send_counter \in Nat
                         /\ N2[p].send_counter \in Nat
    BY DEF Behaviour
  <1>4. \A m \in Letter : m.id \in Nat
    BY DEF Letter, Msg
  <1>5. \A p \in Peers : \A r \in Recvs(N2[p]) : r.remote_send_id \in Nat
    BY DEF Recvs, Behaviour, PendingRecv, OngoingRecv
  <1>6. ASSUME NEW p \in Peers, NEW q \in Peers
        PROVE  Announced(N2, L2, W2, P2, p, q)
    <2> SUFFICES ASSUME NEW m \in Letter, m.type = "IncomingFile",
                        Aloft(N2, L2, W2, m, p, q)
                 PROVE  /\ \A r \in Recvs(N2[q]) : ~About(r, p, m.id)
                        /\ \A n \in Letter :
                             n.type = "AcceptFile" /\ n.id = m.id
                               => ~Aloft(N2, L2, W2, n, q, p)
                        /\ P2[p] = "none" => m.id < N2[p].send_counter
                        /\ \A s \in N2[p].ongoing_send : s.local_send_id # m.id
                        /\ \A s \in N2[p].pending_send : s.local_send_id = m.id =>
                             s.remote = q /\ s.file = m.body[1][1]
      BY DEF Announced
    <2>1. /\ \A r \in Recvs(N[q]) : ~About(r, p, m.id)
          /\ \A n \in Letter :
               n.type = "AcceptFile" /\ n.id = m.id => ~Aloft(N, L, W, n, q, p)
          /\ P[p] = "none" => m.id < N[p].send_counter
          /\ \A s \in N[p].ongoing_send : s.local_send_id # m.id
          /\ \A s \in N[p].pending_send :
               s.local_send_id = m.id => s.remote = q /\ s.file = m.body[1][1]
      BY <1>2, ZenonT(60) DEF Flow, Announced
    <2>0. /\ Tame(N[p], N2[p]) /\ Tame(N[q], N2[q])
          /\ P2[p] = "none" =>
               P[p] = "none" /\ N[p].send_counter <= N2[p].send_counter
      BY Zenon DEF Calm
    <2>2. ASSUME NEW r \in Recvs(N2[q]), About(r, p, m.id)
          PROVE  FALSE
      <3>1. PICK t \in Recvs(N[q]) : t.remote = r.remote
                                     /\ t.remote_send_id = r.remote_send_id
        BY <2>0, TameKeys DEF Descend
      <3> QED BY <2>1, <2>2, <3>1 DEF About
    <2>3. \A n \in Letter : n.type = "AcceptFile" /\ n.id = m.id
                              => ~Aloft(N2, L2, W2, n, q, p)
      BY <1>2, <2>1
    <2>4. P2[p] = "none" => m.id < N2[p].send_counter
      <3>1. m.id \in Nat
        BY <1>4
      <3>2. N[p].send_counter \in Nat /\ N2[p].send_counter \in Nat
        BY <1>3
      <3> QED BY <2>0, <2>1, <3>1, <3>2
    <2>5. \A s \in N2[p].ongoing_send : s.local_send_id # m.id
      BY <2>0, <2>1 DEF Tame
    <2>6. \A s \in N2[p].pending_send :
            s.local_send_id = m.id => s.remote = q /\ s.file = m.body[1][1]
      BY <2>0, <2>1 DEF Tame
    <2> QED BY <2>2, <2>3, <2>4, <2>5, <2>6
  <1>7. ASSUME NEW p \in Peers, NEW q \in Peers
        PROVE  Waiting(N2, P2, p, q)
    <2>1. ASSUME NEW r \in Recvs(N2[q]), r.remote = p, P2[p] = "none"
          PROVE  r.remote_send_id < N2[p].send_counter
      <3>1. PICK t \in Recvs(N[q]) : t.remote = r.remote
                                     /\ t.remote_send_id = r.remote_send_id
        BY TameKeys DEF Calm, Descend
      <3>2. P[p] = "none" /\ N[p].send_counter <= N2[p].send_counter
        BY <2>1 DEF Calm
      <3>3. t.remote_send_id < N[p].send_counter
        BY <2>1, <3>1, <3>2 DEF Flow, Waiting
      <3> QED BY <1>3, <1>5, <3>1, <3>2, <3>3
    <2>2. ASSUME NEW r \in N2[q].pending_recv, r.remote = p
          PROVE  /\ \A s \in N2[p].ongoing_send : s.local_send_id # r.remote_send_id
                 /\ \A s \in N2[p].pending_send :
                      s.local_send_id = r.remote_send_id
                        => s.remote = q /\ s.file = r.file
      <3>1. r \in N[q].pending_recv
        BY DEF Calm, Tame
      <3>2. /\ \A s \in N[p].ongoing_send : s.local_send_id # r.remote_send_id
            /\ \A s \in N[p].pending_send : s.local_send_id = r.remote_send_id
                 => s.remote = q /\ s.file = r.file
        BY <2>2, <3>1, ZenonT(60) DEF Flow, Waiting
      <3>3. Tame(N[p], N2[p])
        BY DEF Calm
      <3> QED BY <3>2, <3>3 DEF Tame
    <2> QED BY <2>1, <2>2 DEF Waiting
  <1>8. ASSUME NEW p \in Peers, NEW q \in Peers
        PROVE  Answered(N2, L2, W2, P2, A2, p, q)
    <2> SUFFICES ASSUME NEW m \in Letter, m.type = "AcceptFile",
                        Aloft(N2, L2, W2, m, q, p)
                 PROVE  /\ \A r \in N2[q].pending_recv : ~About(r, p, m.id)
                        /\ P2[p] = "none" => m.id < N2[p].send_counter
                        /\ \A s \in N2[p].ongoing_send : s.local_send_id # m.id
                        /\ \A s \in N2[p].pending_send : s.local_send_id = m.id =>
                             s.remote = q /\ <<p, m.id, s.file>> \in A2
      BY DEF Answered
    <2>1. /\ \A r \in N[q].pending_recv : ~About(r, p, m.id)
          /\ P[p] = "none" => m.id < N[p].send_counter
          /\ \A s \in N[p].ongoing_send : s.local_send_id # m.id
          /\ \A s \in N[p].pending_send : s.local_send_id = m.id =>
               s.remote = q /\ <<p, m.id, s.file>> \in A
      BY <1>2 DEF Flow, Answered
    <2>0. /\ Tame(N[p], N2[p]) /\ Tame(N[q], N2[q])
          /\ P2[p] = "none" =>
               P[p] = "none" /\ N[p].send_counter <= N2[p].send_counter
      BY Zenon DEF Calm
    <2>2. \A r \in N2[q].pending_recv : ~About(r, p, m.id)
      BY <2>0, <2>1 DEF Tame
    <2>3. P2[p] = "none" => m.id < N2[p].send_counter
      <3>1. m.id \in Nat
        BY <1>4
      <3>2. N[p].send_counter \in Nat /\ N2[p].send_counter \in Nat
        BY <1>3
      <3> QED BY <2>0, <2>1, <3>1, <3>2
    <2>4. \A s \in N2[p].ongoing_send : s.local_send_id # m.id
      BY <2>0, <2>1 DEF Tame
    <2>5. ASSUME NEW s \in N2[p].pending_send, s.local_send_id = m.id
          PROVE  s.remote = q /\ <<p, m.id, s.file>> \in A2
      <3>1. s \in N[p].pending_send /\ s \in Sends(N2[p])
        BY DEF Calm, Tame, Sends
      <3>2. s.remote = q /\ <<p, s.local_send_id, s.file>> \in A
        BY <2>1, <2>5, <3>1
      <3>3. <<p, s.local_send_id, s.file>> \in A2
        BY <3>1, <3>2, Zenon DEF Calm
      <3> QED BY <2>5, <3>2, <3>3
    <2> QED BY <2>2, <2>3, <2>4, <2>5
  <1>9. ASSUME NEW p \in Peers
        PROVE  /\ Single(N2[p]) /\ Started(N2, A2, p)
               /\ P2[p] # "Already handled"
    <2>0. Tame(N[p], N2[p]) /\ Single(N[p]) /\ Ids(N[p]) /\ Ids(N2[p])
      BY DEF Calm, Flow
    <2>1. Single(N2[p])
      BY <2>0, TameKeys, DescendSingle
    <2>2. ASSUME NEW s \in N2[p].ongoing_send
          PROVE  <<p, s.local_send_id, s.file>> \in A2
      <3>1. PICK t \in N[p].ongoing_send :
              t.local_send_id = s.local_send_id /\ t.file = s.file
        BY DEF Calm, Tame
      <3>2. <<p, t.local_send_id, t.file>> \in A
        BY DEF Flow, Started
      <3>3. <<p, s.local_send_id, s.file>> \in A /\ s \in Sends(N2[p])
        BY <3>1, <3>2 DEF Sends
      <3> QED BY <3>3, Zenon DEF Calm
    <2>3. P2[p] # "Already handled"
      BY DEF Calm, Flow
    <2> QED BY <2>1, <2>2, <2>3 DEF Started
  <1> QED BY <1>1, <1>6, <1>7, <1>8, <1>9 DEF Flow

-----------------------------------------------------------------------------
(* The four steps that are not calm. *)

\* queue_send, at a, for b.
Requests(N, N2, a, b, f) ==
  LET id == N[a].send_counter
  IN  /\ Writes(N, N2, a, b, Message("IncomingFile", id, <<<<f, FileLen[f]>>>>))
      /\ N2[a].pending_send = N[a].pending_send \cup
           {[local_send_id |-> id, remote |-> b, file |-> f]}
      /\ N2[a].ongoing_send = N[a].ongoing_send
      /\ N2[a].pending_recv = N[a].pending_recv
      /\ N2[a].ongoing_recv = N[a].ongoing_recv
      /\ N2[a].send_counter = id + 1
      /\ \A x \in Peers : x # a => N2[x] = N[x]

\* The id is new: no letter and no record is about it.
LEMMA FreshId ==
  ASSUME NEW N \in [Peers -> Behaviour], NEW L, NEW W, NEW P, NEW A,
         Flow(N, L, W, P, A), NEW a \in Peers, P[a] = "none", Ids(N[a]),
         NEW q \in Peers
  PROVE  /\ \A m \in Letter :
              m.type = "IncomingFile" /\ Aloft(N, L, W, m, a, q)
                => m.id # N[a].send_counter
         /\ \A m \in Letter :
              m.type = "AcceptFile" /\ Aloft(N, L, W, m, q, a)
                => m.id # N[a].send_counter
         /\ \A r \in Recvs(N[q]) : ~About(r, a, N[a].send_counter)
         /\ \A s \in Sends(N[a]) : s.local_send_id # N[a].send_counter
  <1>1. N[a].send_counter \in Nat
    BY DEF Behaviour
  <1>2. Announced(N, L, W, P, a, q) /\ Waiting(N, P, a, q)
        /\ Answered(N, L, W, P, A, a, q)
    BY DEF Flow
  <1>3. \A m \in Letter : m.type = "IncomingFile" /\ Aloft(N, L, W, m, a, q)
          => m.id < N[a].send_counter
    BY <1>2 DEF Announced
  <1>4. \A m \in Letter : m.type = "AcceptFile" /\ Aloft(N, L, W, m, q, a)
          => m.id < N[a].send_counter
    BY <1>2 DEF Answered
  <1>5. \A r \in Recvs(N[q]) : r.remote = a => r.remote_send_id < N[a].send_counter
    BY <1>2 DEF Waiting
  <1>6. \A s \in Sends(N[a]) : s.local_send_id < N[a].send_counter
    BY DEF Ids
  <1> QED BY <1>1, <1>3, <1>4, <1>5, <1>6 DEF About

\* A new request.
LEMMA RequestFlow ==
  ASSUME NEW N \in [Peers -> Behaviour], NEW L, NEW W, NEW P, NEW A, NEW N2,
         Flow(N, L, W, P, A), NEW a \in Peers, NEW b \in Peers, NEW f \in Files,
         P[a] = "none", Ids(N[a]), Requests(N, N2, a, b, f)
  PROVE  Flow(N2, L, W, P, A)
  <1> DEFINE id == N[a].send_counter
             m0 == Message("IncomingFile", id, <<<<f, FileLen[f]>>>>)
             s0 == [local_send_id |-> id, remote |-> b, file |-> f]
  <1>1. id \in Nat /\ FileLen[f] \in Nat
    BY FilesAssumption DEF Behaviour
  <1>2. /\ m0 \in Letter /\ m0.type = "IncomingFile" /\ m0.id = id
        /\ m0.body[1][1] = f
    <2>1. m0 \in Msg
      BY <1>1, Messages
    <2> QED BY <2>1 DEF Letter, Message
  <1>3. s0.local_send_id = id /\ s0.remote = b /\ s0.file = f
    OBVIOUS
  <1>4. /\ Writes(N, N2, a, b, m0)
        /\ N2[a].pending_send = N[a].pending_send \cup {s0}
        /\ N2[a].ongoing_send = N[a].ongoing_send
        /\ N2[a].pending_recv = N[a].pending_recv
        /\ N2[a].ongoing_recv = N[a].ongoing_recv
        /\ N2[a].send_counter = id + 1
        /\ \A x \in Peers : x # a => N2[x] = N[x]
    BY DEF Requests
  <1>5. \A q \in Peers :
          /\ \A m \in Letter : m.type = "IncomingFile" /\ Aloft(N, L, W, m, a, q)
               => m.id # id
          /\ \A m \in Letter : m.type = "AcceptFile" /\ Aloft(N, L, W, m, q, a)
               => m.id # id
          /\ \A r \in Recvs(N[q]) : ~About(r, a, id)
          /\ \A s \in Sends(N[a]) : s.local_send_id # id
    BY FreshId
  <1> HIDE DEF id, m0, s0
  <1>6. \A p \in Peers : /\ Recvs(N2[p]) = Recvs(N[p])
                         /\ N2[p].pending_recv = N[p].pending_recv
                         /\ N2[p].ongoing_send = N[p].ongoing_send
    BY <1>4 DEF Recvs
  <1>7. \A p \in Peers : \A s \in N2[p].pending_send :
          s \in N[p].pending_send \/ (p = a /\ s = s0)
    BY <1>4
  <1>8. \A p \in Peers : \A n \in Nat :
          n < N[p].send_counter => n < N2[p].send_counter
    <2>1. \A p \in Peers : N[p].send_counter \in Nat
      BY DEF Behaviour
    <2>2. \A p \in Peers : \/ N2[p].send_counter = N[p].send_counter
                             \/ N2[p].send_counter = N[p].send_counter + 1
      BY <1>4 DEF id
    <2> QED BY <2>1, <2>2
  <1>9. /\ \A p, q \in Peers : \A m \in Letter :
             Aloft(N2, L, W, m, p, q) =>
               Aloft(N, L, W, m, p, q) \/ (p = a /\ q = b /\ m = m0)
        /\ \A p, q \in Peers : Lone(N2, L, W, p, q)
    <2>1. /\ \A p, q \in Peers : \A m \in Letter :
               Aloft(N2, L, W, m, p, q) =>
                 Aloft(N, L, W, m, p, q) \/ (p = a /\ q = b /\ m = m0)
          /\ \A p, q \in Peers :
               /\ Lone(N, L, W, p, q)
               /\ p = a /\ q = b => \A n \in Letter :
                    n.type = m0.type /\ n.id = m0.id => ~Aloft(N, L, W, n, p, q)
               => Lone(N2, L, W, p, q)
      BY <1>2, <1>4, WriteLetter
    <2>2. \A p, q \in Peers : Lone(N, L, W, p, q)
      BY DEF Flow
    <2>3. \A n \in Letter :
            n.type = m0.type /\ n.id = m0.id => ~Aloft(N, L, W, n, a, b)
      BY <1>2, <1>5
    <2> QED BY <2>1, <2>2, <2>3
  <1>10. \A p, q \in Peers : \A m \in Letter :
           m.type = "AcceptFile" /\ Aloft(N2, L, W, m, p, q)
             => Aloft(N, L, W, m, p, q)
    BY <1>2, <1>9
  <1>11. \A m \in Letter : m.id \in Nat
    BY DEF Letter, Msg
  <1>12. ASSUME NEW p \in Peers, NEW q \in Peers
         PROVE  Announced(N2, L, W, P, p, q)
    <2> SUFFICES ASSUME NEW m \in Letter, m.type = "IncomingFile",
                        Aloft(N2, L, W, m, p, q)
                 PROVE  /\ \A r \in Recvs(N2[q]) : ~About(r, p, m.id)
                        /\ \A n \in Letter :
                             n.type = "AcceptFile" /\ n.id = m.id
                               => ~Aloft(N2, L, W, n, q, p)
                        /\ P[p] = "none" => m.id < N2[p].send_counter
                        /\ \A s \in N2[p].ongoing_send : s.local_send_id # m.id
                        /\ \A s \in N2[p].pending_send : s.local_send_id = m.id =>
                             s.remote = q /\ s.file = m.body[1][1]
      BY DEF Announced
    <2>1. CASE Aloft(N, L, W, m, p, q)
      <3>0. Announced(N, L, W, P, p, q)
        BY DEF Flow
      <3>1. /\ \A r \in Recvs(N[q]) : ~About(r, p, m.id)
            /\ \A n \in Letter :
                 n.type = "AcceptFile" /\ n.id = m.id => ~Aloft(N, L, W, n, q, p)
            /\ P[p] = "none" => m.id < N[p].send_counter
            /\ \A s \in N[p].ongoing_send : s.local_send_id # m.id
            /\ \A s \in N[p].pending_send :
                 s.local_send_id = m.id => s.remote = q /\ s.file = m.body[1][1]
        BY <2>1, <3>0 DEF Announced
      <3>2. p = a => m.id # id
        BY <1>5, <2>1
      <3>3. \A s \in N2[p].pending_send : s.local_send_id = m.id =>
              s.remote = q /\ s.file = m.body[1][1]
        BY <1>3, <1>7, <3>1, <3>2
      <3>4. P[p] = "none" => m.id < N2[p].send_counter
        <4>1. m.id \in Nat
          BY <1>11
        <4> QED BY <1>8, <3>1, <4>1
      <3> QED BY <1>6, <1>10, <3>1, <3>3, <3>4
    <2>2. CASE p = a /\ q = b /\ m = m0
      <3>1. \A r \in Recvs(N2[q]) : ~About(r, p, m.id)
        BY <1>2, <1>5, <1>6, <2>2
      <3>2. \A n \in Letter : n.type = "AcceptFile" /\ n.id = m.id
                                => ~Aloft(N2, L, W, n, q, p)
        BY <1>2, <1>5, <1>10, <2>2
      <3>3. P[p] = "none" => m.id < N2[p].send_counter
        BY <1>1, <1>2, <1>4, <2>2
      <3>4. \A s \in N2[p].ongoing_send : s.local_send_id # m.id
        BY <1>2, <1>5, <1>6, <2>2 DEF Sends
      <3>5. \A s \in N2[p].pending_send : s.local_send_id = m.id =>
              s.remote = q /\ s.file = m.body[1][1]
        BY <1>2, <1>3, <1>5, <1>7, <2>2 DEF Sends
      <3> QED BY <3>1, <3>2, <3>3, <3>4, <3>5
    <2> QED BY <1>9, <2>1, <2>2
  <1>13. ASSUME NEW p \in Peers, NEW q \in Peers
         PROVE  Waiting(N2, P, p, q)
    <2>1. Waiting(N, P, p, q)
      BY DEF Flow
    <2>2. \A r \in Recvs(N[q]) : r.remote_send_id \in Nat
      BY DEF Recvs, Behaviour, PendingRecv, OngoingRecv
    <2>3. \A r \in Recvs(N2[q]) :
            r.remote = p /\ P[p] = "none" => r.remote_send_id < N2[p].send_counter
      BY <1>6, <1>8, <2>1, <2>2 DEF Waiting
    <2>4. ASSUME NEW r \in N2[q].pending_recv, r.remote = p
          PROVE  /\ \A s \in N2[p].ongoing_send : s.local_send_id # r.remote_send_id
                 /\ \A s \in N2[p].pending_send :
                      s.local_send_id = r.remote_send_id
                        => s.remote = q /\ s.file = r.file
      <3>1. r \in N[q].pending_recv /\ r \in Recvs(N[q])
        BY <1>6 DEF Recvs
      <3>2. /\ \A s \in N[p].ongoing_send : s.local_send_id # r.remote_send_id
            /\ \A s \in N[p].pending_send : s.local_send_id = r.remote_send_id
                 => s.remote = q /\ s.file = r.file
        BY <2>1, <2>4, <3>1 DEF Waiting
      <3>3. p = a => r.remote_send_id # id
        BY <1>5, <2>4, <3>1 DEF About
      <3> QED BY <1>3, <1>6, <1>7, <3>2, <3>3
    <2> QED BY <2>3, <2>4 DEF Waiting
  <1>14. ASSUME NEW p \in Peers, NEW q \in Peers
         PROVE  Answered(N2, L, W, P, A, p, q)
    <2> SUFFICES ASSUME NEW m \in Letter, m.type = "AcceptFile",
                        Aloft(N2, L, W, m, q, p)
                 PROVE  /\ \A r \in N2[q].pending_recv : ~About(r, p, m.id)
                        /\ P[p] = "none" => m.id < N2[p].send_counter
                        /\ \A s \in N2[p].ongoing_send : s.local_send_id # m.id
                        /\ \A s \in N2[p].pending_send : s.local_send_id = m.id =>
                             s.remote = q /\ <<p, m.id, s.file>> \in A
      BY DEF Answered
    <2>1. Aloft(N, L, W, m, q, p)
      BY <1>10
    <2>2. /\ \A r \in N[q].pending_recv : ~About(r, p, m.id)
          /\ P[p] = "none" => m.id < N[p].send_counter
          /\ \A s \in N[p].ongoing_send : s.local_send_id # m.id
          /\ \A s \in N[p].pending_send : s.local_send_id = m.id =>
               s.remote = q /\ <<p, m.id, s.file>> \in A
      BY <2>1 DEF Flow, Answered
    <2>3. p = a => m.id # id
      BY <1>5, <2>1
    <2>4. P[p] = "none" => m.id < N2[p].send_counter
      BY <1>8, <1>11, <2>2
    <2> QED BY <1>3, <1>6, <1>7, <2>2, <2>3, <2>4
  <1>15. \A p \in Peers :
           Single(N2[p]) /\ Started(N2, A, p) /\ P[p] # "Already handled"
    BY <1>6 DEF Flow, Single, Started
  <1> QED BY <1>9, <1>12, <1>13, <1>14, <1>15 DEF Flow

\* accept_pending_recv, at a, of the record r.
Accepts(N, N2, A, A2, a, r) ==
  LET id == r.remote_send_id
  IN  /\ Writes(N, N2, a, r.remote, Message("AcceptFile", id, <<>>))
      /\ N2[a].pending_recv = N[a].pending_recv \ {r}
      /\ Descend(N[a], N2[a])
      /\ N2[a].pending_send = N[a].pending_send
      /\ N2[a].ongoing_send = N[a].ongoing_send
      /\ N2[a].send_counter = N[a].send_counter
      /\ \A x \in Peers : x # a => N2[x] = N[x]
      /\ A2 = A \cup {<<r.remote, id, r.file>>}

\* A request is accepted.
LEMMA AcceptFlow ==
  ASSUME NEW N \in [Peers -> Behaviour], NEW L, NEW W, NEW P, NEW A,
         NEW N2, NEW A2, Flow(N, L, W, P, A),
         NEW a \in Peers, NEW r0 \in N[a].pending_recv,
         Accepts(N, N2, A, A2, a, r0), Ids(N[a]), Ids(N2[a])
  PROVE  Flow(N2, L, W, P, A2)
  <1> DEFINE b == r0.remote
             id == r0.remote_send_id
             m0 == Message("AcceptFile", id, <<>>)
  <1>1. b \in Peers /\ id \in Nat
    BY DEF Behaviour, PendingRecv
  <1>2. m0 \in Letter /\ m0.type = "AcceptFile" /\ m0.id = id
    <2>1. m0 \in Msg
      BY <1>1, EmptyMessages
    <2> QED BY <2>1 DEF Letter, Message
  <1>3. /\ Writes(N, N2, a, b, m0)
        /\ N2[a].pending_recv = N[a].pending_recv \ {r0}
        /\ Descend(N[a], N2[a])
        /\ N2[a].pending_send = N[a].pending_send
        /\ N2[a].ongoing_send = N[a].ongoing_send
        /\ N2[a].send_counter = N[a].send_counter
        /\ \A x \in Peers : x # a => N2[x] = N[x]
        /\ A2 = A \cup {<<b, id, r0.file>>}
    BY DEF Accepts
  <1>4. r0 \in Recvs(N[a]) /\ About(r0, b, id)
    BY DEF Recvs, About
  <1>5. /\ Announced(N, L, W, P, b, a) /\ Waiting(N, P, b, a)
        /\ Answered(N, L, W, P, A, b, a) /\ Single(N[a])
    BY <1>1 DEF Flow
  <1>6. /\ \A m \in Letter : m.type = "IncomingFile" /\ m.id = id
             => ~Aloft(N, L, W, m, b, a)
        /\ \A m \in Letter : m.type = "AcceptFile" /\ m.id = id
             => ~Aloft(N, L, W, m, a, b)
    BY <1>4, <1>5 DEF Announced, Answered
  <1>7. /\ P[b] = "none" => id < N[b].send_counter
        /\ \A s \in N[b].ongoing_send : s.local_send_id # id
        /\ \A s \in N[b].pending_send : s.local_send_id = id =>
             s.remote = a /\ s.file = r0.file
    BY <1>4, <1>5 DEF Waiting
  <1> HIDE DEF m0, id, b
  <1>8. \A p \in Peers : /\ N2[p].pending_recv \subseteq N[p].pending_recv
                         /\ N2[p].pending_send = N[p].pending_send
                         /\ N2[p].ongoing_send = N[p].ongoing_send
                         /\ N2[p].send_counter = N[p].send_counter
    BY <1>3
  <1>9. \A p \in Peers : Descend(N[p], N2[p])
    BY <1>3 DEF Descend
  <1>10. \A p, q \in Peers : Lone(N, L, W, p, q)
    BY DEF Flow
  <1>11. /\ \A p, q \in Peers : \A m \in Letter :
              Aloft(N2, L, W, m, p, q) =>
                Aloft(N, L, W, m, p, q) \/ (p = a /\ q = b /\ m = m0)
         /\ \A p, q \in Peers : Lone(N2, L, W, p, q)
    <2>1. /\ \A p, q \in Peers : \A m \in Letter :
               Aloft(N2, L, W, m, p, q) =>
                 Aloft(N, L, W, m, p, q) \/ (p = a /\ q = b /\ m = m0)
          /\ \A p, q \in Peers :
               /\ Lone(N, L, W, p, q)
               /\ p = a /\ q = b => \A n \in Letter :
                    n.type = m0.type /\ n.id = m0.id => ~Aloft(N, L, W, n, p, q)
               => Lone(N2, L, W, p, q)
      BY <1>1, <1>2, <1>3, WriteLetter
    <2>2. \A n \in Letter :
            n.type = m0.type /\ n.id = m0.id => ~Aloft(N, L, W, n, a, b)
      BY <1>2, <1>6
    <2> QED BY <1>10, <2>1, <2>2
  <1>12. ASSUME NEW p \in Peers, NEW q \in Peers
         PROVE  Announced(N2, L, W, P, p, q)
    <2> SUFFICES ASSUME NEW m \in Letter, m.type = "IncomingFile",
                        Aloft(N2, L, W, m, p, q)
                 PROVE  /\ \A r \in Recvs(N2[q]) : ~About(r, p, m.id)
                        /\ \A n \in Letter : n.type = "AcceptFile" /\ n.id = m.id
                             => ~Aloft(N2, L, W, n, q, p)
                        /\ P[p] = "none" => m.id < N2[p].send_counter
                        /\ \A s \in N2[p].ongoing_send : s.local_send_id # m.id
                        /\ \A s \in N2[p].pending_send : s.local_send_id = m.id =>
                             s.remote = q /\ s.file = m.body[1][1]
      BY DEF Announced
    <2>1. Aloft(N, L, W, m, p, q)
      BY <1>2, <1>11
    <2>2. Announced(N, L, W, P, p, q)
      BY DEF Flow
    <2>3. /\ \A r \in Recvs(N[q]) : ~About(r, p, m.id)
          /\ \A n \in Letter : n.type = "AcceptFile" /\ n.id = m.id
               => ~Aloft(N, L, W, n, q, p)
          /\ P[p] = "none" => m.id < N[p].send_counter
          /\ \A s \in N[p].ongoing_send : s.local_send_id # m.id
          /\ \A s \in N[p].pending_send : s.local_send_id = m.id =>
               s.remote = q /\ s.file = m.body[1][1]
      BY <2>1, <2>2 DEF Announced
    <2>4. \A r \in Recvs(N2[q]) : ~About(r, p, m.id)
      BY <1>9, <2>3 DEF Descend, About
    <2>5. ASSUME NEW n \in Letter, n.type = "AcceptFile", n.id = m.id,
                 Aloft(N2, L, W, n, q, p)
          PROVE  FALSE
      <3>1. q = a /\ p = b /\ n = m0
        BY <1>11, <2>3, <2>5
      <3> QED BY <1>2, <1>6, <2>1, <2>5, <3>1
    <2> QED BY <1>8, <2>3, <2>4, <2>5
  <1>13. ASSUME NEW p \in Peers, NEW q \in Peers
         PROVE  Waiting(N2, P, p, q)
    <2>1. Waiting(N, P, p, q)
      BY DEF Flow
    <2>2. \A r \in Recvs(N2[q]) : \E t \in Recvs(N[q]) :
            t.remote = r.remote /\ t.remote_send_id = r.remote_send_id
      BY <1>9 DEF Descend
    <2> QED BY <1>8, <2>1, <2>2 DEF Waiting
  <1>14. ASSUME NEW p \in Peers, NEW q \in Peers
         PROVE  Answered(N2, L, W, P, A2, p, q)
    <2> SUFFICES ASSUME NEW m \in Letter, m.type = "AcceptFile",
                        Aloft(N2, L, W, m, q, p)
                 PROVE  /\ \A r \in N2[q].pending_recv : ~About(r, p, m.id)
                        /\ P[p] = "none" => m.id < N2[p].send_counter
                        /\ \A s \in N2[p].ongoing_send : s.local_send_id # m.id
                        /\ \A s \in N2[p].pending_send : s.local_send_id = m.id =>
                             s.remote = q /\ <<p, m.id, s.file>> \in A2
      BY DEF Answered
    <2>1. CASE Aloft(N, L, W, m, q, p)
      <3>1. Answered(N, L, W, P, A, p, q)
        BY DEF Flow
      <3>2. /\ \A r \in N[q].pending_recv : ~About(r, p, m.id)
            /\ P[p] = "none" => m.id < N[p].send_counter
            /\ \A s \in N[p].ongoing_send : s.local_send_id # m.id
            /\ \A s \in N[p].pending_send : s.local_send_id = m.id =>
                 s.remote = q /\ <<p, m.id, s.file>> \in A
        BY <2>1, <3>1 DEF Answered
      <3> QED BY <1>3, <1>8, <3>2
    <2>2. CASE q = a /\ p = b /\ m = m0
      <3>1. ASSUME NEW r \in N2[q].pending_recv, About(r, p, m.id)
            PROVE  FALSE
        <4>1. r \in Recvs(N[a]) /\ r # r0
          BY <1>3, <2>2 DEF Recvs
        <4>2. About(r, r0.remote, r0.remote_send_id)
          BY <1>2, <2>2, <3>1 DEF b, id
        <4> QED BY <1>4, <1>5, <4>1, <4>2 DEF Single
      <3> QED BY <1>2, <1>3, <1>7, <1>8, <2>2, <3>1
    <2> QED BY <1>11, <2>1, <2>2
  <1>15. ASSUME NEW p \in Peers
         PROVE  Single(N2[p]) /\ Started(N2, A2, p) /\ P[p] # "Already handled"
    <2>1. Single(N[p]) /\ Started(N, A, p) /\ P[p] # "Already handled"
      BY DEF Flow
    <2>2. Single(N2[p])
      <3>1. CASE p = a
        BY <1>3, <2>1, <3>1, DescendSingle
      <3>2. CASE p # a
        BY <1>3, <2>1, <3>2
      <3> QED BY <3>1, <3>2
    <2>3. Started(N2, A2, p)
      BY <1>3, <1>8, <2>1 DEF Started
    <2> QED BY <2>1, <2>2, <2>3
  <1> QED BY <1>11, <1>12, <1>13, <1>14, <1>15 DEF Flow

\* on_new_pending_recv, at a, of the request m of b; the letter is gone.
Records(N, N2, a, b, m) ==
  /\ \E r : /\ r.remote = b /\ r.remote_send_id = m.id
            /\ r.file = m.body[1][1] /\ r.bytes_total = m.body[1][2]
            /\ N2[a].pending_recv = N[a].pending_recv \cup {r}
  /\ N2[a].ongoing_recv = N[a].ongoing_recv
  /\ N2[a].pending_send = N[a].pending_send
  /\ N2[a].ongoing_send = N[a].ongoing_send
  /\ N2[a].send_counter = N[a].send_counter
  /\ \A x \in Peers : x # a => N2[x] = N[x]

\* A request is read.
LEMMA RecordFlow ==
  ASSUME NEW N \in [Peers -> Behaviour], NEW L, NEW W, NEW P, NEW A,
         NEW N2, NEW L2, Flow(N, L, W, P, A), NEW a \in Peers, NEW b \in Peers,
         NEW m0 \in Letter, m0.type = "IncomingFile", Records(N, N2, a, b, m0),
         Aloft(N, L, W, m0, b, a), Carried(N, L, W, N2, L2, W),
         \A n \in Letter :
           n.type = m0.type /\ n.id = m0.id => ~Aloft(N2, L2, W, n, b, a)
  PROVE  Flow(N2, L2, W, P, A)
  <1>1. PICK r0 : /\ r0.remote = b /\ r0.remote_send_id = m0.id
                  /\ r0.file = m0.body[1][1]
                  /\ N2[a].pending_recv = N[a].pending_recv \cup {r0}
    BY DEF Records
  <1>2. /\ N2[a].ongoing_recv = N[a].ongoing_recv
        /\ \A x \in Peers : x # a => N2[x] = N[x]
    BY DEF Records
  <1>3. \A p \in Peers : /\ N2[p].pending_send = N[p].pending_send
                         /\ N2[p].ongoing_send = N[p].ongoing_send
                         /\ N2[p].send_counter = N[p].send_counter
    BY DEF Records
  <1>4. \A p \in Peers :
          /\ \A r \in Recvs(N2[p]) : r \in Recvs(N[p]) \/ (p = a /\ r = r0)
          /\ \A r \in N2[p].pending_recv :
               r \in N[p].pending_recv \/ (p = a /\ r = r0)
    BY <1>1, <1>2 DEF Recvs
  <1>5. /\ \A p, q \in Peers : Lone(N2, L2, W, p, q)
        /\ \A p, q \in Peers : \A m \in Letter :
             Aloft(N2, L2, W, m, p, q) => Aloft(N, L, W, m, p, q)
    BY DEF Carried, Flow
  <1>6. /\ \A r \in Recvs(N[a]) : ~About(r, b, m0.id)
        /\ \A n \in Letter :
             n.type = "AcceptFile" /\ n.id = m0.id => ~Aloft(N, L, W, n, a, b)
        /\ P[b] = "none" => m0.id < N[b].send_counter
        /\ \A s \in N[b].ongoing_send : s.local_send_id # m0.id
        /\ \A s \in N[b].pending_send : s.local_send_id = m0.id =>
             s.remote = a /\ s.file = m0.body[1][1]
    <2>1. Announced(N, L, W, P, b, a)
      BY DEF Flow
    <2> QED BY <2>1 DEF Announced
  <1>7. ASSUME NEW p \in Peers, NEW q \in Peers
         PROVE  Announced(N2, L2, W, P, p, q)
    <2> SUFFICES ASSUME NEW m \in Letter, m.type = "IncomingFile",
                        Aloft(N2, L2, W, m, p, q)
                 PROVE  /\ \A r \in Recvs(N2[q]) : ~About(r, p, m.id)
                        /\ \A n \in Letter : n.type = "AcceptFile" /\ n.id = m.id
                             => ~Aloft(N2, L2, W, n, q, p)
                        /\ P[p] = "none" => m.id < N2[p].send_counter
                        /\ \A s \in N2[p].ongoing_send : s.local_send_id # m.id
                        /\ \A s \in N2[p].pending_send : s.local_send_id = m.id =>
                             s.remote = q /\ s.file = m.body[1][1]
      BY DEF Announced
    <2>1. Aloft(N, L, W, m, p, q)
      BY <1>5
    <2>2. Announced(N, L, W, P, p, q)
      BY DEF Flow
    <2>3. /\ \A r \in Recvs(N[q]) : ~About(r, p, m.id)
          /\ \A n \in Letter : n.type = "AcceptFile" /\ n.id = m.id
               => ~Aloft(N, L, W, n, q, p)
          /\ P[p] = "none" => m.id < N[p].send_counter
          /\ \A s \in N[p].ongoing_send : s.local_send_id # m.id
          /\ \A s \in N[p].pending_send : s.local_send_id = m.id =>
               s.remote = q /\ s.file = m.body[1][1]
      BY <2>1, <2>2 DEF Announced
    <2>4. ASSUME NEW r \in Recvs(N2[q]), About(r, p, m.id)
          PROVE  FALSE
      <3>1. q = a /\ r = r0
        BY <1>4, <2>3, <2>4
      <3>2. p = b /\ m.id = m0.id
        BY <1>1, <2>4, <3>1 DEF About
      <3> QED BY <3>1, <3>2
    <2>5. \A n \in Letter : n.type = "AcceptFile" /\ n.id = m.id
            => ~Aloft(N2, L2, W, n, q, p)
      BY <1>5, <2>3
    <2> QED BY <1>3, <2>3, <2>4, <2>5
  <1>8. ASSUME NEW p \in Peers, NEW q \in Peers
        PROVE  Waiting(N2, P, p, q)
    <2>1. Waiting(N, P, p, q)
      BY DEF Flow
    <2>2. ASSUME NEW r \in Recvs(N2[q]), r.remote = p, P[p] = "none"
          PROVE  r.remote_send_id < N2[p].send_counter
      <3>1. CASE r \in Recvs(N[q])
        BY <1>3, <2>1, <2>2, <3>1 DEF Waiting
      <3>2. CASE q = a /\ r = r0
        BY <1>1, <1>3, <1>6, <2>2, <3>2
      <3> QED BY <1>4, <3>1, <3>2
    <2>3. ASSUME NEW r \in N2[q].pending_recv, r.remote = p
          PROVE  /\ \A s \in N2[p].ongoing_send : s.local_send_id # r.remote_send_id
                 /\ \A s \in N2[p].pending_send :
                      s.local_send_id = r.remote_send_id
                        => s.remote = q /\ s.file = r.file
      <3>1. CASE r \in N[q].pending_recv
        BY <1>3, <2>1, <2>3, <3>1 DEF Waiting
      <3>2. CASE q = a /\ r = r0
        BY <1>1, <1>3, <1>6, <2>3, <3>2
      <3> QED BY <1>4, <3>1, <3>2
    <2> QED BY <2>2, <2>3 DEF Waiting
  <1>9. ASSUME NEW p \in Peers, NEW q \in Peers
        PROVE  Answered(N2, L2, W, P, A, p, q)
    <2> SUFFICES ASSUME NEW m \in Letter, m.type = "AcceptFile",
                        Aloft(N2, L2, W, m, q, p)
                 PROVE  /\ \A r \in N2[q].pending_recv : ~About(r, p, m.id)
                        /\ P[p] = "none" => m.id < N2[p].send_counter
                        /\ \A s \in N2[p].ongoing_send : s.local_send_id # m.id
                        /\ \A s \in N2[p].pending_send : s.local_send_id = m.id =>
                             s.remote = q /\ <<p, m.id, s.file>> \in A
      BY DEF Answered
    <2>1. Aloft(N, L, W, m, q, p)
      BY <1>5
    <2>2. Answered(N, L, W, P, A, p, q)
      BY DEF Flow
    <2>3. /\ \A r \in N[q].pending_recv : ~About(r, p, m.id)
          /\ P[p] = "none" => m.id < N[p].send_counter
          /\ \A s \in N[p].ongoing_send : s.local_send_id # m.id
          /\ \A s \in N[p].pending_send : s.local_send_id = m.id =>
               s.remote = q /\ <<p, m.id, s.file>> \in A
      BY <2>1, <2>2 DEF Answered
    <2>4. ASSUME NEW r \in N2[q].pending_recv, About(r, p, m.id)
          PROVE  FALSE
      <3>1. q = a /\ r = r0
        BY <1>4, <2>3, <2>4
      <3>2. p = b /\ m.id = m0.id
        BY <1>1, <2>4, <3>1 DEF About
      <3> QED BY <1>6, <2>1, <3>1, <3>2
    <2> QED BY <1>3, <2>3, <2>4
  <1>10. ASSUME NEW p \in Peers
         PROVE  Single(N2[p]) /\ Started(N2, A, p) /\ P[p] # "Already handled"
    <2>1. Single(N[p]) /\ Started(N, A, p) /\ P[p] # "Already handled"
      BY DEF Flow
    <2>2. ASSUME NEW r \in Recvs(N2[p]), NEW t \in Recvs(N2[p]),
                 About(r, t.remote, t.remote_send_id)
          PROVE  r = t
      BY <1>1, <1>4, <1>6, <2>1, <2>2 DEF Single, About
    <2> QED BY <1>3, <2>1, <2>2 DEF Single, Started
  <1> QED BY <1>5, <1>7, <1>8, <1>9, <1>10 DEF Flow

\* pending_send_accepted, at a, of the record s; whether the first read fails
\* or not.
Starts(N, N2, a, s) ==
  /\ N2[a].pending_send = N[a].pending_send \ {s}
  /\ \A x \in N2[a].ongoing_send : \E y \in N[a].ongoing_send \cup {s} :
       /\ y.local_send_id = x.local_send_id
       /\ y.remote = x.remote /\ y.file = x.file
  /\ N2[a].pending_recv = N[a].pending_recv
  /\ N2[a].ongoing_recv = N[a].ongoing_recv
  /\ N2[a].send_counter = N[a].send_counter
  /\ \A x \in Peers : x # a => N2[x] = N[x]

\* An answer is read.
LEMMA StartFlow ==
  ASSUME NEW N \in [Peers -> Behaviour], NEW L, NEW W, NEW P, NEW A,
         NEW N2, NEW L2, Flow(N, L, W, P, A), NEW a \in Peers, NEW b \in Peers,
         NEW m0 \in Letter, m0.type = "AcceptFile",
         NEW s0 \in N[a].pending_send, s0.local_send_id = m0.id,
         Starts(N, N2, a, s0),
         Aloft(N, L, W, m0, b, a), Carried(N, L, W, N2, L2, W),
         \A n \in Letter :
           n.type = m0.type /\ n.id = m0.id => ~Aloft(N2, L2, W, n, b, a)
  PROVE  Flow(N2, L2, W, P, A)
  <1>1. \A p \in Peers : \A s \in N2[p].ongoing_send :
          \/ \E y \in N[p].ongoing_send :
               y.local_send_id = s.local_send_id /\ y.file = s.file
          \/ p = a /\ s.local_send_id = m0.id /\ s.file = s0.file
    BY DEF Starts
  <1>2. \A p \in Peers : /\ N2[p].pending_send \subseteq N[p].pending_send
                         /\ N2[p].pending_recv = N[p].pending_recv
                         /\ Recvs(N2[p]) = Recvs(N[p])
                         /\ N2[p].send_counter = N[p].send_counter
    BY DEF Starts, Recvs
  <1>3. /\ \A p, q \in Peers : Lone(N2, L2, W, p, q)
        /\ \A p, q \in Peers : \A m \in Letter :
             Aloft(N2, L2, W, m, p, q) => Aloft(N, L, W, m, p, q)
    BY DEF Carried, Flow
  <1>4. /\ \A r \in N[b].pending_recv : ~About(r, a, m0.id)
        /\ s0.remote = b /\ <<a, m0.id, s0.file>> \in A
    <2>1. Answered(N, L, W, P, A, a, b)
      BY DEF Flow
    <2> QED BY <2>1 DEF Answered
  <1>5. ASSUME NEW p \in Peers, NEW q \in Peers
        PROVE  Announced(N2, L2, W, P, p, q)
    <2> SUFFICES ASSUME NEW m \in Letter, m.type = "IncomingFile",
                        Aloft(N2, L2, W, m, p, q)
                 PROVE  /\ \A r \in Recvs(N2[q]) : ~About(r, p, m.id)
                        /\ \A n \in Letter : n.type = "AcceptFile" /\ n.id = m.id
                             => ~Aloft(N2, L2, W, n, q, p)
                        /\ P[p] = "none" => m.id < N2[p].send_counter
                        /\ \A s \in N2[p].ongoing_send : s.local_send_id # m.id
                        /\ \A s \in N2[p].pending_send : s.local_send_id = m.id =>
                             s.remote = q /\ s.file = m.body[1][1]
      BY DEF Announced
    <2>1. Aloft(N, L, W, m, p, q)
      BY <1>3
    <2>2. Announced(N, L, W, P, p, q)
      BY DEF Flow
    <2>3. /\ \A r \in Recvs(N[q]) : ~About(r, p, m.id)
          /\ \A n \in Letter : n.type = "AcceptFile" /\ n.id = m.id
               => ~Aloft(N, L, W, n, q, p)
          /\ P[p] = "none" => m.id < N[p].send_counter
          /\ \A s \in N[p].ongoing_send : s.local_send_id # m.id
          /\ \A s \in N[p].pending_send : s.local_send_id = m.id =>
               s.remote = q /\ s.file = m.body[1][1]
      BY <2>1, <2>2 DEF Announced
    <2>4. ASSUME NEW s \in N2[p].ongoing_send, s.local_send_id = m.id
          PROVE  FALSE
      <3>1. p = a /\ m.id = m0.id
        BY <1>1, <2>3, <2>4
      <3>2. q = b
        BY <1>4, <2>3, <3>1
      <3> QED BY <2>3, <3>1, <3>2
    <2>5. \A n \in Letter : n.type = "AcceptFile" /\ n.id = m.id
            => ~Aloft(N2, L2, W, n, q, p)
      BY <1>3, <2>3
    <2> QED BY <1>2, <2>3, <2>4, <2>5
  <1>6. ASSUME NEW p \in Peers, NEW q \in Peers
        PROVE  Waiting(N2, P, p, q)
    <2>1. Waiting(N, P, p, q)
      BY DEF Flow
    <2>2. ASSUME NEW r \in N[q].pending_recv, r.remote = p,
                 NEW s \in N2[p].ongoing_send, s.local_send_id = r.remote_send_id
          PROVE  FALSE
      <3>1. p = a /\ r.remote_send_id = m0.id
        BY <1>1, <2>1, <2>2 DEF Waiting
      <3>2. q = b
        BY <1>4, <2>1, <2>2, <3>1 DEF Waiting
      <3> QED BY <1>4, <2>2, <3>1, <3>2 DEF About
    <2> QED BY <1>2, <2>1, <2>2 DEF Waiting
  <1>7. ASSUME NEW p \in Peers, NEW q \in Peers
        PROVE  Answered(N2, L2, W, P, A, p, q)
    <2> SUFFICES ASSUME NEW m \in Letter, m.type = "AcceptFile",
                        Aloft(N2, L2, W, m, q, p)
                 PROVE  /\ \A r \in N2[q].pending_recv : ~About(r, p, m.id)
                        /\ P[p] = "none" => m.id < N2[p].send_counter
                        /\ \A s \in N2[p].ongoing_send : s.local_send_id # m.id
                        /\ \A s \in N2[p].pending_send : s.local_send_id = m.id =>
                             s.remote = q /\ <<p, m.id, s.file>> \in A
      BY DEF Answered
    <2>1. Aloft(N, L, W, m, q, p)
      BY <1>3
    <2>2. Answered(N, L, W, P, A, p, q)
      BY DEF Flow
    <2>3. /\ \A r \in N[q].pending_recv : ~About(r, p, m.id)
          /\ P[p] = "none" => m.id < N[p].send_counter
          /\ \A s \in N[p].ongoing_send : s.local_send_id # m.id
          /\ \A s \in N[p].pending_send : s.local_send_id = m.id =>
               s.remote = q /\ <<p, m.id, s.file>> \in A
      BY <2>1, <2>2 DEF Answered
    <2>4. ASSUME NEW s \in N2[p].ongoing_send, s.local_send_id = m.id
          PROVE  FALSE
      <3>1. p = a /\ m.id = m0.id
        BY <1>1, <2>3, <2>4
      <3>2. q = b
        BY <1>4, <2>3, <3>1
      <3> QED BY <3>1, <3>2
    <2> QED BY <1>2, <2>3, <2>4
  <1>8. ASSUME NEW p \in Peers
        PROVE  Single(N2[p]) /\ Started(N2, A, p) /\ P[p] # "Already handled"
    <2>1. Single(N[p]) /\ Started(N, A, p) /\ P[p] # "Already handled"
      BY DEF Flow
    <2>2. Single(N2[p])
      BY <1>2, <2>1 DEF Single
    <2>3. Started(N2, A, p)
      BY <1>1, <1>4, <2>1 DEF Started
    <2> QED BY <2>1, <2>2, <2>3
  <1> QED BY <1>3, <1>5, <1>6, <1>7, <1>8 DEF Flow

\* No answer is on its way to a send that has started.
LEMMA NotStartedTwice ==
  ASSUME NEW N, NEW L, NEW W, NEW P, NEW A, Flow(N, L, W, P, A),
         NEW a \in Peers, NEW b \in Peers, NEW m \in Letter,
         m.type = "AcceptFile", Aloft(N, L, W, m, b, a)
  PROVE  \A s \in N[a].ongoing_send : s.local_send_id # m.id
  <1>1. Answered(N, L, W, P, A, a, b)
    BY DEF Flow
  <1> QED BY <1>1 DEF Answered

-----------------------------------------------------------------------------
(* What the methods of Behaviour do to letters and records. *)

\* A method that starts nothing and writes no letter.
Idle(b, a) ==
  /\ a \in Behaviour
  /\ Tame(b, a) /\ Hushed(b, a) /\ b.send_counter <= a.send_counter

\* Methods that call one another are idle as a whole.
LEMMA IdleTrans ==
  ASSUME NEW b \in Behaviour, NEW a, NEW d, Idle(b, a), Idle(a, d)
  PROVE  Idle(b, d)
  <1>1. /\ b.send_counter \in Nat /\ a.send_counter \in Nat
        /\ d.send_counter \in Nat
    BY DEF Idle, Behaviour
  <1>2. Hushed(b, d)
    BY DEF Idle, Hushed
  <1>3. Tame(b, d)
    BY DEF Idle, Tame
  <1> QED BY <1>1, <1>2, <1>3 DEF Idle

\* A method that only removes records and writes nothing.
LEMMA ShrinksIdle ==
  ASSUME NEW b \in Behaviour, NEW a, Shrinks(b, a), Hushed(b, a)
  PROVE  Idle(b, a)
  BY DEF Shrinks, Idle, Tame

\* Nothing at all.
LEMMA SameIdle ==
  ASSUME NEW b \in Behaviour
  PROVE  Idle(b, b)
  BY DEF Idle, Tame, Hushed, Behaviour

\* The messages that are no letters.
LEMMA NoLetters ==
  ASSUME NEW id, NEW body
  PROVE  /\ Message("CancelSend", id, body) \notin Letter
         /\ Message("CancelRecv", id, body) \notin Letter
         /\ Message("FileChunk", id, body) \notin Letter
  BY DEF Message, Letter

\* Queueing one of them.
LEMMA NotifyIdle ==
  ASSUME NEW b \in Behaviour, NEW q \in Peers, NEW m \in Msg, m \notin Letter
  PROVE  Idle(b, Notify(b, q, m))
  <1> DEFINE z == b.pending_handler_event
             e == [to |-> q, msg |-> m]
             a == Notify(b, q, m)
  <1>1. z \in Seq(Notification)
    BY DEF Behaviour
  <1>2. \A i \in DOMAIN Append(z, e) :
           \/ i \in DOMAIN z /\ i # Len(z) + 1 /\ Append(z, e)[i] = z[i]
           \/ i = Len(z) + 1 /\ Append(z, e)[i] = e
    BY <1>1, AppendAt, Zenon
  <1>3. a.pending_handler_event = Append(z, e)
    BY DEF Notify, Behaviour
  <1>4. Shrinks(b, a)
    BY NotifyShrinks
  <1> HIDE DEF a, z
  <1>5. Hushed(b, a)
    BY <1>2, <1>3 DEF Hushed, z
  <1>6. Idle(b, a)
    BY <1>4, <1>5, ShrinksIdle
  <1> QED BY <1>6 DEF a

\* A method that removes records and leaves the queue for handlers alone.
LEMMA SilentIdle ==
  ASSUME NEW b \in Behaviour, NEW a, Shrinks(b, a),
         a.pending_handler_event = b.pending_handler_event
  PROVE  Idle(b, a)
  BY ShrinksIdle DEF Hushed

\* Emit
LEMMA EmitIdle ==
  ASSUME NEW b \in Behaviour, NEW t \in OutType, NEW id \in Nat, NEW n \in Nat
  PROVE  /\ Idle(b, Emit(b, t, id, n))
         /\ Emit(b, t, id, n).pending_handler_event = b.pending_handler_event
  <1>1. Shrinks(b, Emit(b, t, id, n))
    BY EmitShrinks
  <1>2. Emit(b, t, id, n).pending_handler_event = b.pending_handler_event
    BY DEF Emit, Behaviour
  <1> QED BY <1>1, <1>2, SilentIdle

\* Removing records.
LEMMA RemoveIdle ==
  ASSUME NEW b \in Behaviour, NEW X
  PROVE  /\ Idle(b, [b EXCEPT !.pending_send = @ \ X, !.ongoing_send = @ \ X])
         /\ Idle(b, [b EXCEPT !.pending_recv = @ \ X, !.ongoing_recv = @ \ X])
         /\ Idle(b, [b EXCEPT !.ongoing_send = @ \ X])
         /\ Idle(b, [b EXCEPT !.pending_recv = @ \ X])
         /\ Idle(b, [b EXCEPT !.ongoing_recv = @ \ X])
  <1> DEFINE a1 == [b EXCEPT !.pending_send = @ \ X, !.ongoing_send = @ \ X]
             a2 == [b EXCEPT !.pending_recv = @ \ X, !.ongoing_recv = @ \ X]
             a3 == [b EXCEPT !.ongoing_send = @ \ X]
             a4 == [b EXCEPT !.pending_recv = @ \ X]
             a5 == [b EXCEPT !.ongoing_recv = @ \ X]
  <1>1. /\ Shrinks(b, a1) /\ Shrinks(b, a2) /\ Shrinks(b, a3)
        /\ Shrinks(b, a4) /\ Shrinks(b, a5)
    BY RemoveShrinks, Zenon
  <1>2. /\ a1.pending_handler_event = b.pending_handler_event
        /\ a2.pending_handler_event = b.pending_handler_event
        /\ a3.pending_handler_event = b.pending_handler_event
        /\ a4.pending_handler_event = b.pending_handler_event
        /\ a5.pending_handler_event = b.pending_handler_event
    BY DEF Behaviour
  <1> HIDE DEF a1, a2, a3, a4, a5
  <1>3. Idle(b, a1) /\ Idle(b, a2) /\ Idle(b, a3) /\ Idle(b, a4) /\ Idle(b, a5)
    BY <1>1, <1>2, SilentIdle
  <1> QED BY <1>3, Zenon DEF a1, a2, a3, a4, a5

\* next_send_id
LEMMA NextSendIdIdle ==
  ASSUME NEW b \in Behaviour
  PROVE  Idle(b, next_send_id(b))
  <1>1. next_send_id(b).pending_handler_event = b.pending_handler_event
    BY DEF next_send_id, Behaviour
  <1> QED BY <1>1, NextSendIdShrinks, SilentIdle

\* cancel_recv_by_local_recv_id
LEMMA CancelRecvIdle ==
  ASSUME NEW b \in Behaviour, NEW id \in Nat, NEW r \in Recvs(b)
  PROVE  Idle(b, cancel_recv_by_local_recv_id(b, id, r))
  <1> DEFINE a == [b EXCEPT !.pending_recv = @ \ {r}, !.ongoing_recv = @ \ {r}]
             m == Message("CancelRecv", r.remote_send_id, <<>>)
             d == Notify(a, r.remote, m)
  <1>1. r.remote \in Peers /\ r.remote_send_id \in Nat
    BY DEF Recvs, Behaviour, PendingRecv, OngoingRecv
  <1>2. Idle(b, a)
    BY RemoveIdle, Zenon
  <1>3. m \in Msg /\ m \notin Letter
    BY <1>1, EmptyMessages, NoLetters, Zenon
  <1>4. "CancelledRecv" \in OutType /\ 0 \in Nat
    BY DEF OutType
  <1>5. cancel_recv_by_local_recv_id(b, id, r) = Emit(d, "CancelledRecv", id, 0)
    BY DEF cancel_recv_by_local_recv_id
  <1> HIDE DEF a, m
  <1>6. a \in Behaviour /\ Idle(a, d)
    BY <1>1, <1>2, <1>3, NotifyIdle DEF Idle
  <1> HIDE DEF d
  <1>7. Idle(d, Emit(d, "CancelledRecv", id, 0))
    BY <1>4, <1>6, EmitIdle DEF Idle
  <1> QED BY <1>2, <1>5, <1>6, <1>7, IdleTrans, Zenon

\* cancel_send_by_local_send_id
LEMMA CancelSendIdle ==
  ASSUME NEW b \in Behaviour, NEW s \in Sends(b)
  PROVE  Idle(b, cancel_send_by_local_send_id(b, s))
  <1> DEFINE a == [b EXCEPT !.pending_send = @ \ {s}, !.ongoing_send = @ \ {s}]
             m == Message("CancelSend", s.local_send_id, <<>>)
  <1>1. s.remote \in Peers /\ s.local_send_id \in Nat
    BY DEF Sends, Behaviour, PendingSend, OngoingSend
  <1>2. Idle(b, a)
    BY RemoveIdle, Zenon
  <1>3. m \in Msg /\ m \notin Letter
    BY <1>1, EmptyMessages, NoLetters, Zenon
  <1>4. cancel_send_by_local_send_id(b, s) = Notify(a, s.remote, m)
    BY DEF cancel_send_by_local_send_id
  <1> HIDE DEF a, m
  <1>5. a \in Behaviour /\ Idle(a, Notify(a, s.remote, m))
    BY <1>1, <1>2, <1>3, NotifyIdle DEF Idle
  <1> QED BY <1>2, <1>4, <1>5, IdleTrans, Zenon

\* end_recv
LEMMA EndRecvIdle ==
  ASSUME NEW b \in Behaviour, NEW o \in b.ongoing_recv, NEW t \in OutType,
         NEW n \in Nat
  PROVE  Idle(b, end_recv(b, o, t, n))
  <1> DEFINE a == [b EXCEPT !.ongoing_recv = @ \ {o}]
  <1>1. o.local_recv_id \in Nat
    BY DEF Behaviour, OngoingRecv
  <1>2. Idle(b, a)
    BY RemoveIdle, Zenon
  <1>3. end_recv(b, o, t, n) = Emit(a, t, o.local_recv_id, n)
    BY DEF end_recv
  <1> HIDE DEF a
  <1>4. Idle(a, Emit(a, t, o.local_recv_id, n))
    BY <1>1, <1>2, EmitIdle DEF Idle
  <1> QED BY <1>2, <1>3, <1>4, IdleTrans, Zenon

\* write_chunk
LEMMA WriteChunkIdle ==
  ASSUME NEW b \in Behaviour, NEW o \in b.ongoing_recv, NEW content \in Seq(Chunk)
  PROVE  Idle(b, write_chunk(b, o, content))
  <1> DEFINE n == [o EXCEPT !.data = @ \o content]
             a == write_chunk(b, o, content)
  <1>1. o \in OngoingRecv
    BY DEF Behaviour
  <1>2. /\ n \in OngoingRecv /\ n.local_recv_id = o.local_recv_id
        /\ n.remote = o.remote /\ n.remote_send_id = o.remote_send_id
    <2>1. o.data \o content \in Seq(Chunk)
      BY <1>1 DEF OngoingRecv
    <2> QED BY <1>1, <2>1 DEF OngoingRecv
  <1>3. a = [b EXCEPT !.ongoing_recv = (@ \ {o}) \cup {n}]
    BY DEF write_chunk
  <1> HIDE DEF n, a
  <1>4. /\ a \in Behaviour
        /\ a.pending_send = b.pending_send /\ a.ongoing_send = b.ongoing_send
        /\ a.pending_recv = b.pending_recv
        /\ a.ongoing_recv = (b.ongoing_recv \ {o}) \cup {n}
        /\ a.pending_handler_event = b.pending_handler_event
        /\ a.send_counter = b.send_counter /\ a.send_counter \in Nat
    BY <1>2, <1>3 DEF Behaviour
  <1>5. Tame(b, a)
    BY <1>2, <1>4 DEF Tame
  <1>6. Hushed(b, a)
    BY <1>4 DEF Hushed
  <1> QED BY <1>4, <1>5, <1>6 DEF Idle, a

\* progress_ongoing_send
LEMMA ProgressIdle ==
  ASSUME NEW b \in Behaviour, NEW s \in b.ongoing_send
  PROVE  Idle(b, progress_ongoing_send(b, s))
  <1>1. s \in OngoingSend /\ s.local_send_id \in Nat /\ s.remote \in Peers
    BY DEF Behaviour, OngoingSend
  <1>2. CASE s.bytes_sent < FileData[s.file]
    <2> DEFINE n == [s EXCEPT !.bytes_sent = @ + 1]
               a == [b EXCEPT !.ongoing_send = (@ \ {s}) \cup {n}]
               m == Message("FileChunk", s.local_send_id,
                            <<<<s.file, s.bytes_sent + 1>>>>)
    <2>1. /\ n \in OngoingSend /\ n.local_send_id = s.local_send_id
          /\ n.remote = s.remote /\ n.file = s.file
      BY <1>1 DEF OngoingSend
    <2>2. m \in Msg /\ m \notin Letter
      <3>1. s.file \in Files /\ s.bytes_sent + 1 \in Nat
        BY <1>1 DEF OngoingSend
      <3> QED BY <1>1, <3>1, Messages, NoLetters
    <2>3. progress_ongoing_send(b, s) = Notify(a, s.remote, m)
      BY <1>2 DEF progress_ongoing_send
    <2> HIDE DEF n, m
    <2>4. /\ a \in Behaviour
          /\ a.pending_send = b.pending_send
          /\ a.ongoing_send = (b.ongoing_send \ {s}) \cup {n}
          /\ a.pending_recv = b.pending_recv /\ a.ongoing_recv = b.ongoing_recv
          /\ a.pending_handler_event = b.pending_handler_event
          /\ a.send_counter = b.send_counter /\ a.send_counter \in Nat
      BY <2>1 DEF Behaviour
    <2> HIDE DEF a
    <2>5. Tame(b, a)
      BY <2>1, <2>4 DEF Tame
    <2>6. Hushed(b, a)
      BY <2>4 DEF Hushed
    <2>7. Idle(b, a)
      BY <2>4, <2>5, <2>6 DEF Idle
    <2>8. Idle(a, Notify(a, s.remote, m))
      BY <1>1, <2>2, <2>4, NotifyIdle
    <2> QED BY <2>3, <2>7, <2>8, IdleTrans, Zenon
  <1>3. CASE ~(s.bytes_sent < FileData[s.file])
    <2> DEFINE a == [b EXCEPT !.ongoing_send = @ \ {s}]
               m == Message("FileChunk", s.local_send_id, <<>>)
    <2>1. progress_ongoing_send(b, s) = Notify(a, s.remote, m)
      BY <1>3 DEF progress_ongoing_send
    <2>2. m \in Msg /\ m \notin Letter
      BY <1>1, EmptyMessages, NoLetters
    <2>3. Idle(b, a)
      BY RemoveIdle, Zenon
    <2> HIDE DEF a, m
    <2>4. Idle(a, Notify(a, s.remote, m))
      BY <1>1, <2>2, <2>3, NotifyIdle DEF Idle
    <2> QED BY <2>1, <2>3, <2>4, IdleTrans, Zenon
  <1> QED BY <1>2, <1>3

\* on_disconnect
LEMMA OnDisconnectIdle ==
  ASSUME NEW b \in Behaviour, NEW q \in Peers
  PROVE  Idle(b, on_disconnect(b, q))
  <1>1. on_disconnect(b, q).pending_handler_event = b.pending_handler_event
    BY DEF on_disconnect, Behaviour
  <1> QED BY <1>1, OnDisconnectShrinks, SilentIdle

\* OutboundNegotiated
LEMMA NegotiatedIdle ==
  ASSUME NEW b \in Behaviour, NEW q \in Peers
  PROVE  Idle(b, [b EXCEPT !.connected_peers = @ \cup {q}])
  <1> DEFINE a == [b EXCEPT !.connected_peers = @ \cup {q}]
  <1>1. /\ a \in Behaviour
        /\ a.pending_send = b.pending_send /\ a.ongoing_send = b.ongoing_send
        /\ a.pending_recv = b.pending_recv /\ a.ongoing_recv = b.ongoing_recv
        /\ a.pending_handler_event = b.pending_handler_event
        /\ a.send_counter = b.send_counter /\ a.send_counter \in Nat
    BY DEF Behaviour
  <1> HIDE DEF a
  <1>2. Idle(b, a)
    BY <1>1 DEF Idle, Tame, Hushed
  <1> QED BY <1>2 DEF a

\* The messages that check_expiry queues are no letters.
LEMMA CancelsHushed ==
  ASSUME NEW z \in Seq(Notification), NEW y \in Seq(Notification),
         \A i \in DOMAIN y : y[i].msg \notin Letter
  PROVE  /\ z \o y \in Seq(Notification)
         /\ \A i \in DOMAIN (z \o y) : (z \o y)[i].msg \in Letter =>
              i \in DOMAIN z /\ (z \o y)[i] = z[i]
  <1>1. \A i \in DOMAIN (z \o y) :
          \/ i \in DOMAIN z /\ (z \o y)[i] = z[i]
          \/ i - Len(z) \in DOMAIN y /\ (z \o y)[i] = y[i - Len(z)]
    OBVIOUS
  <1> QED BY <1>1

\* check_expiry
LEMMA CheckExpiryIdle ==
  ASSUME NEW b \in Behaviour, NEW x \in Expiries(b) \cup {NotThrottled}
  PROVE  Idle(b, check_expiry(b, x))
  <1> DEFINE z == b.pending_handler_event
             y1 == CancelSends(x.ps)
             y2 == CancelRecvs(x.pr)
             y3 == CancelSends(x.os)
             y4 == CancelRecvs(x.or)
             a == check_expiry(b, x)
             K(u) == \A i \in DOMAIN u : u[i].msg \in Letter =>
                       i \in DOMAIN z /\ u[i] = z[i]
  <1>1. /\ x.ps \in Seq(b.pending_send) /\ x.pr \in Seq(b.pending_recv)
        /\ x.os \in Seq(b.ongoing_send) /\ x.or \in Seq(ongoing_recv_hits(b))
    BY ExpiriesSeq, Zenon
  <1>2. /\ \A s \in b.pending_send : s.remote \in Peers /\ s.local_send_id \in Nat
        /\ \A s \in b.ongoing_send : s.remote \in Peers /\ s.local_send_id \in Nat
        /\ \A r \in b.pending_recv : r.remote \in Peers /\ r.remote_send_id \in Nat
        /\ \A r \in ongoing_recv_hits(b) : r.remote \in Peers
                                           /\ r.remote_send_id \in Nat
    BY DEF Behaviour, PendingSend, OngoingSend, PendingRecv, OngoingRecv,
           ongoing_recv_hits
  <1>3. /\ y1 \in Seq(Notification) /\ y2 \in Seq(Notification)
        /\ y3 \in Seq(Notification) /\ y4 \in Seq(Notification)
    BY <1>1, <1>2, CancelSendsType, CancelRecvsType, Zenon
  <1>4. \A s : \A i \in DOMAIN CancelSends(s) : CancelSends(s)[i].msg \notin Letter
    BY NoLetters DEF CancelSends
  <1>5. \A s : \A i \in DOMAIN CancelRecvs(s) : CancelRecvs(s)[i].msg \notin Letter
    BY NoLetters DEF CancelRecvs
  <1>6. /\ \A i \in DOMAIN y1 : y1[i].msg \notin Letter
        /\ \A i \in DOMAIN y2 : y2[i].msg \notin Letter
        /\ \A i \in DOMAIN y3 : y3[i].msg \notin Letter
        /\ \A i \in DOMAIN y4 : y4[i].msg \notin Letter
    BY <1>4, <1>5
  <1>7. a.pending_handler_event = z \o y1 \o y2 \o y3 \o y4
    BY DEF check_expiry, Behaviour
  <1>8. Shrinks(b, a)
    BY CheckExpiryShrinks
  <1>9. z \in Seq(Notification)
    BY DEF Behaviour
  <1> HIDE DEF z, y1, y2, y3, y4, a
  <1>10. z \o y1 \in Seq(Notification) /\ K(z \o y1)
    BY <1>3, <1>6, <1>9, CancelsHushed, Zenon
  <1>11. z \o y1 \o y2 \in Seq(Notification) /\ K(z \o y1 \o y2)
    <2> DEFINE u == z \o y1
    <2>1. u \in Seq(Notification) /\ K(u)
      BY <1>10
    <2> HIDE DEF u
    <2>2. /\ u \o y2 \in Seq(Notification)
          /\ \A i \in DOMAIN (u \o y2) : (u \o y2)[i].msg \in Letter =>
               i \in DOMAIN u /\ (u \o y2)[i] = u[i]
      BY <1>3, <1>6, <2>1, CancelsHushed, Zenon
    <2>3. K(u \o y2)
      BY <2>1, <2>2
    <2> QED BY <2>2, <2>3 DEF u
  <1>12. z \o y1 \o y2 \o y3 \in Seq(Notification) /\ K(z \o y1 \o y2 \o y3)
    <2> DEFINE u == z \o y1 \o y2
    <2>1. u \in Seq(Notification) /\ K(u)
      BY <1>11
    <2> HIDE DEF u
    <2>2. /\ u \o y3 \in Seq(Notification)
          /\ \A i \in DOMAIN (u \o y3) : (u \o y3)[i].msg \in Letter =>
               i \in DOMAIN u /\ (u \o y3)[i] = u[i]
      BY <1>3, <1>6, <2>1, CancelsHushed, Zenon
    <2>3. K(u \o y3)
      BY <2>1, <2>2
    <2> QED BY <2>2, <2>3 DEF u
  <1>13. K(z \o y1 \o y2 \o y3 \o y4)
    <2> DEFINE u == z \o y1 \o y2 \o y3
    <2>1. u \in Seq(Notification) /\ K(u)
      BY <1>12
    <2> HIDE DEF u
    <2>2. \A i \in DOMAIN (u \o y4) : (u \o y4)[i].msg \in Letter =>
               i \in DOMAIN u /\ (u \o y4)[i] = u[i]
      BY <1>3, <1>6, <2>1, CancelsHushed, Zenon
    <2>3. K(u \o y4)
      BY <2>1, <2>2
    <2> QED BY <2>3 DEF u
  <1>14. Hushed(b, a)
    BY <1>7, <1>13 DEF Hushed, z
  <1>15. Idle(b, a)
    BY <1>8, <1>14, ShrinksIdle
  <1> QED BY <1>15 DEF a

-----------------------------------------------------------------------------
(* Every step keeps the invariant. *)

FlowInv == restarts = 0 => Flow(node, link, wire, panic, accepted)

\* Where the letters and records after a step come from: no request and no
\* pending send with an id that was given out before, no pending recv without
\* a request that was read, no ongoing send that was not requested.
Heir(N, L, W, P, N2, L2, W2, P2) ==
  /\ \A p, q \in Peers : \A m \in Letter :
       m.type = "IncomingFile" /\ Aloft(N2, L2, W2, m, p, q) =>
         \/ Aloft(N, L, W, m, p, q)
         \/ /\ P[p] = "none" /\ m.id = N[p].send_counter
            /\ m.body[1][2] = FileLen[m.body[1][1]]
  /\ \A p \in Peers : \A s \in N2[p].pending_send :
       \/ s \in N[p].pending_send
       \/ P[p] = "none" /\ s.local_send_id = N[p].send_counter
  /\ \A p \in Peers : \A s \in N2[p].ongoing_send : \E t \in Sends(N[p]) :
       /\ t.local_send_id = s.local_send_id
       /\ t.remote = s.remote /\ t.file = s.file
  /\ \A q \in Peers : \A r \in N2[q].pending_recv :
       \/ r \in N[q].pending_recv
       \/ \E m \in Letter :
            /\ m.type = "IncomingFile" /\ Aloft(N, L, W, m, r.remote, q)
            /\ r.remote_send_id = m.id
            /\ r.file = m.body[1][1] /\ r.bytes_total = m.body[1][2]
  /\ \A p \in Peers : P2[p] = "none" =>
       P[p] = "none" /\ N[p].send_counter <= N2[p].send_counter

\* What every step is shown to do.
FlowNext ==
  /\ FlowInv'
  /\ restarts' = 0 =>
       Heir(node, link, wire, panic, node', link', wire', panic')

\* Both parts at once.
LEMMA FlowNextBy ==
  ASSUME restarts' = 0 =>
           /\ Flow(node', link', wire', panic', accepted')
           /\ Heir(node, link, wire, panic, node', link', wire', panic')
  PROVE  FlowNext
  BY DEF FlowNext, FlowInv

\* A step that only moves or loses letters and starts nothing.
LEMMA TameHeir ==
  ASSUME NEW N, NEW L, NEW W, NEW P, NEW N2, NEW L2, NEW W2, NEW P2,
         \A p \in Peers : Tame(N[p], N2[p]),
         \A p \in Peers : P2[p] = "none" =>
           P[p] = "none" /\ N[p].send_counter <= N2[p].send_counter,
         \A p, q \in Peers : \A m \in Letter :
           Aloft(N2, L2, W2, m, p, q) => Aloft(N, L, W, m, p, q)
  PROVE  Heir(N, L, W, P, N2, L2, W2, P2)
  <1>1. ASSUME NEW p \in Peers
        PROVE  /\ N2[p].pending_send \subseteq N[p].pending_send
               /\ N2[p].pending_recv \subseteq N[p].pending_recv
               /\ \A s \in N2[p].ongoing_send : \E t \in Sends(N[p]) :
                    /\ t.local_send_id = s.local_send_id
                    /\ t.remote = s.remote /\ t.file = s.file
    <2>1. Tame(N[p], N2[p])
      OBVIOUS
    <2> QED BY <2>1 DEF Tame, Sends
  <1> QED BY <1>1, Zenon DEF Heir

\* What Inv says that the lemmas above need.
LEMMA InvTypes ==
  ASSUME Inv
  PROVE  /\ node \in [Peers -> Behaviour]
         /\ link \in [Links -> Handler]
         /\ wire \in [Links -> Slot]
         /\ restarts \in Nat
         /\ \A p \in Peers : node[p] \in Behaviour /\ Ids(node[p])
  BY DEF Inv, NodeInv, NetType, GhostType, Good

\* A calm step.
LEMMA CalmStep ==
  ASSUME Inv, Inv', FlowInv, UNCHANGED restarts,
         Carried(node, link, wire, node', link', wire'),
         \A p \in Peers :
           Calm(node, panic, accepted, node', panic', accepted', p)
  PROVE  FlowNext
  <1> SUFFICES ASSUME restarts' = 0
               PROVE  /\ Flow(node', link', wire', panic', accepted')
                      /\ Heir(node, link, wire, panic, node', link', wire', panic')
    BY FlowNextBy
  <1>1. Flow(node, link, wire, panic, accepted)
    BY DEF FlowInv
  <1>2. node \in [Peers -> Behaviour] /\ \A p \in Peers : Ids(node[p])
    BY InvTypes
  <1>3. node' \in [Peers -> Behaviour] /\ \A p \in Peers : Ids(node'[p])
    BY DEF Inv, NodeInv, Good
  <1>4. Flow(node', link', wire', panic', accepted')
    BY <1>1, <1>2, <1>3, CalmFlow
  <1>5. \A p \in Peers : Tame(node[p], node'[p])
    BY DEF Calm
  <1>6. \A p \in Peers : panic'[p] = "none" =>
          panic[p] = "none" /\ node[p].send_counter <= node'[p].send_counter
    BY DEF Calm
  <1>7. \A p, q \in Peers : \A m \in Letter :
          Aloft(node', link', wire', m, p, q) => Aloft(node, link, wire, m, p, q)
    BY DEF Carried
  <1>8. Heir(node, link, wire, panic, node', link', wire', panic')
    BY <1>5, <1>6, <1>7, TameHeir
  <1> QED BY <1>4, <1>8

\* Setting one Behaviour.
LEMMA SetAt ==
  ASSUME Inv, NEW p \in Peers, NEW b, Set(p, b)
  PROVE  node'[p] = b /\ \A x \in Peers : x # p => node'[x] = node[x]
  BY InvTypes DEF Set

\* An idle method runs at p while letters move.
LEMMA IdleStep ==
  ASSUME Inv, Inv', FlowInv, UNCHANGED lifeVars, accepted \subseteq accepted',
         NEW p \in Peers, NEW b, Set(p, b), Idle(node[p], b),
         Carried(node, link, wire, node, link', wire')
  PROVE  FlowNext
  <1>1. node'[p] = b /\ \A x \in Peers : x # p => node'[x] = node[x]
    BY SetAt
  <1>2. \A x \in Peers : Idle(node[x], node'[x])
    BY <1>1, InvTypes, SameIdle
  <1>3. \A x \in Peers : Hushed(node[x], node'[x])
    BY <1>2 DEF Idle
  <1>4. Carried(node, link', wire', node', link', wire')
    BY <1>3, CarryHushed
  <1>5. Carried(node, link, wire, node', link', wire')
    BY <1>4, CarriedTrans
  <1>6. \A x \in Peers : Calm(node, panic, accepted, node', panic', accepted', x)
    BY <1>2 DEF Idle, Calm, lifeVars
  <1> QED BY <1>5, <1>6, CalmStep DEF lifeVars

\* Nothing moves.
LEMMA CarriedSame ==
  ASSUME NEW N, NEW L, NEW W
  PROVE  Carried(N, L, W, N, L, W)
  BY DEF Carried

\* An idle method runs at p, and that is all.
LEMMA UserStep ==
  ASSUME Inv, Inv', FlowInv, UNCHANGED <<connVars, accepted, lifeVars>>,
         NEW p \in Peers, NEW b, Set(p, b), Idle(node[p], b)
  PROVE  FlowNext
  <1>1. Carried(node, link, wire, node, link', wire')
    BY CarriedSame DEF connVars
  <1> QED BY <1>1, IdleStep

\* Handlers and wires alone.
LEMMA NetStep ==
  ASSUME Inv, Inv', FlowInv, UNCHANGED <<node, ghostVars, lifeVars>>,
         Carried(node, link, wire, node, link', wire')
  PROVE  FlowNext
  <1>1. \A x \in Peers : Idle(node[x], node'[x])
    BY InvTypes, SameIdle
  <1>2. \A x \in Peers : Calm(node, panic, accepted, node', panic', accepted', x)
    BY <1>1 DEF Idle, Calm, lifeVars, ghostVars
  <1> QED BY <1>2, CalmStep DEF lifeVars

\* Taking an event.
LEMMA TakeEventTakes ==
  ASSUME Inv, NEW p \in Peers, NEW q \in Peers, NEW c \in Conns, NEW t,
         HasEvent(p, q, c, t), TakeEvent(p, q, c)
  PROVE  /\ Takes(link, link', p, q, c)
         /\ Carried(node, link, wire, node, link', wire')
  <1> DEFINE l == <<p, q, c>>
             e == Tail(link[l].ev)
  <1>1. l \in Links /\ link \in [Links -> Handler]
    BY InvTypes DEF Links
  <1>2. link' = [link EXCEPT ![l].ev = e] /\ UNCHANGED wire /\ link[l].ev # <<>>
    BY DEF TakeEvent, HasEvent
  <1> HIDE DEF e
  <1>3. /\ link'[l].ev = e
        /\ \A j \in Links : link'[j].inq = link[j].inq
        /\ \A j \in Links : j # l => link'[j].ev = link[j].ev
    <2> HIDE DEF l
    <2> QED BY <1>1, <1>2 DEF Handler
  <1>4. Takes(link, link', p, q, c)
    BY <1>2, <1>3 DEF Takes, e
  <1> HIDE DEF l
  <1>5. Carried(node, link, wire, node, link', wire)
    BY <1>1, <1>4, CarryTake
  <1> QED BY <1>2, <1>4, <1>5

\* An event makes p run an idle method.
LEMMA EventStep ==
  ASSUME Inv, Inv', FlowInv, NEW p \in Peers, NEW q \in Peers, NEW c \in Conns,
         NEW t, HasEvent(p, q, c, t), TakeEvent(p, q, c),
         UNCHANGED <<ghostVars, lifeVars>>,
         NEW b, Set(p, b), Idle(node[p], b)
  PROVE  FlowNext
  <1>1. Carried(node, link, wire, node, link', wire')
    BY TakeEventTakes
  <1> QED BY <1>1, IdleStep DEF ghostVars

\* An event that is ignored.
LEMMA EventIgnoredStep ==
  ASSUME Inv, Inv', FlowInv, NEW p \in Peers, NEW q \in Peers, NEW c \in Conns,
         NEW t, HasEvent(p, q, c, t), TakeEvent(p, q, c),
         UNCHANGED <<ghostVars, lifeVars>>, UNCHANGED node
  PROVE  FlowNext
  <1>1. Carried(node, link, wire, node, link', wire')
    BY TakeEventTakes
  <1> QED BY <1>1, NetStep

\* OnRecvProgressed
LEMMA OnRecvProgressedFlow ==
  ASSUME Inv, Inv', FlowInv, NEW p \in Peers, NEW q \in Peers, NEW c \in Conns,
         OnRecvProgressed(p, q, c)
  PROVE  FlowNext
  <1> DEFINE e == NextEvent(p, q, c)
  <1>1. /\ HasEvent(p, q, c, "RecvProgressed")
        /\ TakeEvent(p, q, c) /\ UNCHANGED <<ghostVars, lifeVars>>
    BY DEF OnRecvProgressed
  <1>2. e.body \in Seq(Chunk)
    BY <1>1, NextEventType DEF Inv
  <1>3. \/ UNCHANGED node
        \/ \E o \in node[p].ongoing_recv :
             \/ Set(p, end_recv(node[p], o, "UnexpectedEOF", 0))
             \/ Set(p, end_recv(node[p], o, "RecvProgressed", o.bytes_total))
             \/ Set(p, write_chunk(node[p], o, e.body))
             \/ Set(p, end_recv(node[p], o, "OngoingRecvError", 0))
    BY Zenon DEF OnRecvProgressed
  <1> HIDE DEF e
  <1>4. CASE UNCHANGED node
    BY <1>1, <1>4, EventIgnoredStep, Zenon
  <1>5. ASSUME NEW o \in node[p].ongoing_recv
        PROVE  /\ Idle(node[p], end_recv(node[p], o, "UnexpectedEOF", 0))
               /\ Idle(node[p], end_recv(node[p], o, "RecvProgressed", o.bytes_total))
               /\ Idle(node[p], write_chunk(node[p], o, e.body))
               /\ Idle(node[p], end_recv(node[p], o, "OngoingRecvError", 0))
    <2>1. /\ "UnexpectedEOF" \in OutType /\ "RecvProgressed" \in OutType
          /\ "OngoingRecvError" \in OutType
      BY DEF OutType
    <2>2. o.bytes_total \in Nat /\ 0 \in Nat /\ node[p] \in Behaviour
      BY GoodNode DEF Behaviour, OngoingRecv
    <2> QED BY <1>2, <2>1, <2>2, EndRecvIdle, WriteChunkIdle, Zenon
  <1>6. ASSUME NEW b, Set(p, b), Idle(node[p], b)
        PROVE  FlowNext
    BY <1>1, <1>6, EventStep, Zenon
  <1> QED BY <1>3, <1>4, <1>5, <1>6, Zenon

\* OnSendProgressed
LEMMA OnSendProgressedFlow ==
  ASSUME Inv, Inv', FlowInv, NEW p \in Peers, NEW q \in Peers, NEW c \in Conns,
         OnSendProgressed(p, q, c)
  PROVE  FlowNext
  <1> DEFINE id == NextEvent(p, q, c).id
             a(s) == Emit(node[p], "SendProgressed", id, s.bytes_sent)
  <1>1. /\ HasEvent(p, q, c, "SendProgressed")
        /\ TakeEvent(p, q, c) /\ UNCHANGED <<ghostVars, lifeVars>>
    BY DEF OnSendProgressed
  <1>2. id \in Nat
    BY <1>1, NextEventType DEF Inv
  <1>3. \/ UNCHANGED node
        \/ \E s \in node[p].ongoing_send :
             \/ Set(p, progress_ongoing_send(a(s), s))
             \/ Set(p, fail_ongoing_send(a(s), s))
    BY Zenon DEF OnSendProgressed
  <1> HIDE DEF id
  <1>4. CASE UNCHANGED node
    BY <1>1, <1>4, EventIgnoredStep, Zenon
  <1>5. ASSUME NEW s \in node[p].ongoing_send
        PROVE  /\ Idle(node[p], progress_ongoing_send(a(s), s))
               /\ Idle(node[p], fail_ongoing_send(a(s), s))
    <2>1. /\ "SendProgressed" \in OutType /\ s.bytes_sent \in Nat
          /\ node[p] \in Behaviour
      BY GoodNode DEF OutType, Behaviour, OngoingSend
    <2>2. Idle(node[p], a(s)) /\ a(s) \in Behaviour
      BY <1>2, <2>1, EmitIdle DEF Idle
    <2>3. s \in a(s).ongoing_send
      BY GoodNode DEF Emit, Behaviour
    <2> HIDE DEF a
    <2>4. Idle(a(s), progress_ongoing_send(a(s), s))
      BY <2>2, <2>3, ProgressIdle
    <2>5. Idle(a(s), fail_ongoing_send(a(s), s))
      BY <2>2, RemoveIdle, Zenon DEF fail_ongoing_send
    <2> QED BY <2>1, <2>2, <2>4, <2>5, IdleTrans, Zenon
  <1> HIDE DEF a
  <1>6. ASSUME NEW b, Set(p, b), Idle(node[p], b)
        PROVE  FlowNext
    BY <1>1, <1>6, EventStep, Zenon
  <1> QED BY <1>3, <1>4, <1>5, <1>6, Zenon

\* OnRemoteCancelSend
LEMMA OnRemoteCancelSendFlow ==
  ASSUME Inv, Inv', FlowInv, NEW p \in Peers, NEW q \in Peers, NEW c \in Conns,
         OnRemoteCancelSend(p, q, c)
  PROVE  FlowNext
  <1> DEFINE id == NextEvent(p, q, c).id
             b  == Emit(node[p], "CancelledSend", id, 0)
             r  == send_record(b, id)
             d  == [b EXCEPT !.pending_send = @ \ r, !.ongoing_send = @ \ r]
  <1>1. /\ HasEvent(p, q, c, "RemoteCancelSend") /\ Set(p, d)
        /\ TakeEvent(p, q, c) /\ UNCHANGED <<ghostVars, lifeVars>>
    BY Zenon DEF OnRemoteCancelSend
  <1>2. id \in Nat /\ 0 \in Nat /\ "CancelledSend" \in OutType
    BY <1>1, NextEventType DEF Inv, OutType
  <1> HIDE DEF id
  <1>3. node[p] \in Behaviour /\ Idle(node[p], b) /\ b \in Behaviour
    BY <1>2, GoodNode, EmitIdle DEF Idle
  <1> HIDE DEF b, r
  <1>4. Idle(b, d)
    BY <1>3, RemoveIdle, Zenon
  <1> HIDE DEF d
  <1>5. Idle(node[p], d)
    BY <1>3, <1>4, IdleTrans, Zenon
  <1> QED BY <1>1, <1>5, EventStep, Zenon

\* OnRemoteCancelRecv
LEMMA OnRemoteCancelRecvFlow ==
  ASSUME Inv, Inv', FlowInv, NEW p \in Peers, NEW q \in Peers, NEW c \in Conns,
         OnRemoteCancelRecv(p, q, c)
  PROVE  FlowNext
  <1> DEFINE b == node[p]
             d(r) == [b EXCEPT !.pending_recv = @ \ {r}]
             drop(r) == Emit(d(r), "CancelledRecv", r.remote_send_id, 0)
  <1>1. /\ HasEvent(p, q, c, "RemoteCancelRecv")
        /\ TakeEvent(p, q, c) /\ UNCHANGED <<ghostVars, lifeVars>>
    BY DEF OnRemoteCancelRecv
  <1>2. \/ \E o \in b.ongoing_recv : Set(p, end_recv(b, o, "CancelledRecv", 0))
        \/ \E r \in b.pending_recv : Set(p, drop(r))
        \/ UNCHANGED node
    BY Zenon DEF OnRemoteCancelRecv
  <1>3. "CancelledRecv" \in OutType /\ 0 \in Nat /\ b \in Behaviour
    BY GoodNode DEF OutType
  <1>4. ASSUME NEW o \in b.ongoing_recv
        PROVE  Idle(b, end_recv(b, o, "CancelledRecv", 0))
    BY <1>3, EndRecvIdle, Zenon
  <1>5. ASSUME NEW r \in b.pending_recv
        PROVE  Idle(b, drop(r))
    <2>1. r.remote_send_id \in Nat
      BY GoodNode DEF Behaviour, PendingRecv
    <2>2. Idle(b, d(r))
      BY <1>3, RemoveIdle, Zenon
    <2> HIDE DEF d
    <2>3. Idle(d(r), drop(r))
      BY <1>3, <2>1, <2>2, EmitIdle DEF Idle
    <2> QED BY <1>3, <2>2, <2>3, IdleTrans, Zenon
  <1> HIDE DEF drop
  <1>6. ASSUME NEW x, Set(p, x), Idle(b, x)
        PROVE  FlowNext
    BY <1>1, <1>6, EventStep, Zenon
  <1>7. CASE UNCHANGED node
    BY <1>1, <1>7, EventIgnoredStep, Zenon
  <1> QED BY <1>2, <1>4, <1>5, <1>6, <1>7, Zenon

\* OnOutboundNegotiated
LEMMA OnOutboundNegotiatedFlow ==
  ASSUME Inv, Inv', FlowInv, NEW p \in Peers, NEW q \in Peers, NEW c \in Conns,
         OnOutboundNegotiated(p, q, c)
  PROVE  FlowNext
  <1> DEFINE a == [node[p] EXCEPT !.connected_peers = @ \cup {q}]
             b == Emit(a, "OutboundNegotiated", 0, 0)
  <1>1. /\ HasEvent(p, q, c, "OutboundNegotiated") /\ Set(p, b)
        /\ TakeEvent(p, q, c) /\ UNCHANGED <<ghostVars, lifeVars>>
    BY Zenon DEF OnOutboundNegotiated
  <1>2. 0 \in Nat /\ "OutboundNegotiated" \in OutType /\ node[p] \in Behaviour
    BY GoodNode DEF OutType
  <1>3. Idle(node[p], a)
    BY <1>2, NegotiatedIdle, Zenon
  <1> HIDE DEF a
  <1>4. Idle(a, b)
    BY <1>2, <1>3, EmitIdle DEF Idle
  <1> HIDE DEF b
  <1>5. Idle(node[p], b)
    BY <1>2, <1>3, <1>4, IdleTrans, Zenon
  <1> QED BY <1>1, <1>5, EventStep, Zenon

\* OnReport
LEMMA OnReportFlow ==
  ASSUME Inv, Inv', FlowInv, NEW p \in Peers, NEW q \in Peers, NEW c \in Conns,
         NEW t \in {"Error", "InboundNegotiated"}, OnReport(p, q, c, t)
  PROVE  FlowNext
  <1>1. /\ HasEvent(p, q, c, t) /\ Set(p, Emit(node[p], t, 0, 0))
        /\ TakeEvent(p, q, c) /\ UNCHANGED <<ghostVars, lifeVars>>
    BY Zenon DEF OnReport
  <1>2. 0 \in Nat /\ t \in OutType /\ node[p] \in Behaviour
    BY GoodNode DEF OutType
  <1>3. Idle(node[p], Emit(node[p], t, 0, 0))
    BY <1>2, EmitIdle, Zenon
  <1> QED BY <1>1, <1>3, EventStep, Zenon

\* The next event comes from a letter.
LEMMA EventLetter ==
  ASSUME NEW e \in Event, e.type \in {"IncomingFile", "FileSendAccepted"}
  PROVE  \E m \in Letter : on_message(m) = e
  <1> DEFINE k == IF e.type = "IncomingFile" THEN "IncomingFile" ELSE "AcceptFile"
             m == [type |-> k, id |-> e.id, body |-> e.body]
  <1>1. /\ e \in [type : EventType, id : Nat, body : Seq(Chunk)]
        /\ e.type = "IncomingFile" => e.body # <<>>
    BY DEF Event
  <1>2. m \in Letter
    BY <1>1 DEF Letter, Msg, MsgType
  <1>3. on_message(m) = e
    BY <1>1 DEF on_message
  <1> QED BY <1>2, <1>3

\* p takes the event of a letter: the letter is gone.
LEMMA LetterTaken ==
  ASSUME Inv, FlowInv, restarts = 0,
         NEW p \in Peers, NEW q \in Peers, NEW c \in Conns, NEW t,
         t \in {"IncomingFile", "FileSendAccepted"},
         HasEvent(p, q, c, t), TakeEvent(p, q, c),
         NEW b, Set(p, b), Hushed(node[p], b)
  PROVE  \E m \in Letter :
           /\ on_message(m) = NextEvent(p, q, c)
           /\ Aloft(node, link, wire, m, q, p)
           /\ Carried(node, link, wire, node', link', wire)
           /\ \A n \in Letter : n.type = m.type /\ n.id = m.id
                => ~Aloft(node', link', wire, n, q, p)
  <1>1. NextEvent(p, q, c) \in Event /\ NextEvent(p, q, c).type = t
    BY NextEventType DEF Inv
  <1>2. PICK m \in Letter : on_message(m) = NextEvent(p, q, c)
    BY <1>1, EventLetter
  <1>3. /\ Takes(link, link', p, q, c) /\ UNCHANGED wire
        /\ Carried(node, link, wire, node, link', wire)
    BY TakeEventTakes DEF TakeEvent
  <1>4. Lone(node, link, wire, q, p) /\ link \in [Links -> Handler]
    BY InvTypes DEF FlowInv, Flow
  <1>5. Head(link[<<p, q, c>>].ev) = on_message(m)
    BY <1>2 DEF NextEvent
  <1>6. /\ Aloft(node, link, wire, m, q, p)
        /\ \A n \in Letter : n.type = m.type /\ n.id = m.id
             => ~Aloft(node, link', wire, n, q, p)
    BY <1>3, <1>4, <1>5, ReadLetter
  <1>7. node'[p] = b /\ \A x \in Peers : x # p => node'[x] = node[x]
    BY SetAt
  <1>8. \A x \in Peers : Hushed(node[x], node'[x])
    BY <1>7 DEF Hushed
  <1>9. Carried(node, link', wire, node', link', wire)
    BY <1>8, CarryHushed
  <1>10. Carried(node, link, wire, node', link', wire)
    BY <1>3, <1>9, CarriedTrans
  <1>11. \A n \in Letter : n.type = m.type /\ n.id = m.id
           => ~Aloft(node', link', wire, n, q, p)
    BY <1>6, <1>9 DEF Carried
  <1> QED BY <1>2, <1>6, <1>10, <1>11

\* OnIncomingFile
LEMMA OnIncomingFileFlow ==
  ASSUME Inv, Inv', FlowInv, NEW p \in Peers, NEW q \in Peers, NEW c \in Conns,
         OnIncomingFile(p, q, c)
  PROVE  FlowNext
  <1> DEFINE e == NextEvent(p, q, c)
             b == on_new_pending_recv(node[p], q, e.id, e.body[1][1], e.body[1][2])
             r == [local_recv_id |-> node[p].recv_counter, remote_send_id |-> e.id,
                   remote |-> q, file |-> e.body[1][1],
                   bytes_total |-> e.body[1][2]]
  <1>1. /\ HasEvent(p, q, c, "IncomingFile") /\ Set(p, b)
        /\ TakeEvent(p, q, c) /\ UNCHANGED <<ghostVars, lifeVars>>
    BY Zenon DEF OnIncomingFile
  <1> SUFFICES ASSUME restarts' = 0
               PROVE  /\ Flow(node', link', wire', panic', accepted')
                      /\ Heir(node, link, wire, panic, node', link', wire', panic')
    BY FlowNextBy
  <1>2. restarts = 0 /\ UNCHANGED <<panic, accepted, wire>>
    BY <1>1 DEF lifeVars, ghostVars, TakeEvent
  <1>3. Flow(node, link, wire, panic, accepted)
    BY <1>2 DEF FlowInv
  <1>4. /\ b.pending_handler_event = node[p].pending_handler_event
        /\ b.pending_recv = node[p].pending_recv \cup {r}
        /\ b.ongoing_recv = node[p].ongoing_recv
        /\ b.pending_send = node[p].pending_send
        /\ b.ongoing_send = node[p].ongoing_send
        /\ b.send_counter = node[p].send_counter
    BY GoodNode DEF on_new_pending_recv, Emit, Behaviour
  <1>5. /\ r.remote = q /\ r.remote_send_id = e.id /\ r.file = e.body[1][1]
        /\ r.bytes_total = e.body[1][2]
    OBVIOUS
  <1>6. node'[p] = b /\ \A x \in Peers : x # p => node'[x] = node[x]
    BY <1>1, SetAt
  <1> HIDE DEF b, r
  <1>7. Hushed(node[p], b)
    BY <1>4 DEF Hushed
  <1>8. PICK m \in Letter :
           /\ on_message(m) = e
           /\ Aloft(node, link, wire, m, q, p)
           /\ Carried(node, link, wire, node', link', wire)
           /\ \A n \in Letter : n.type = m.type /\ n.id = m.id
                => ~Aloft(node', link', wire, n, q, p)
    BY <1>1, <1>2, <1>7, LetterTaken
  <1>9. e.type = "IncomingFile"
    BY <1>1, NextEventType DEF Inv
  <1> HIDE DEF e
  <1>10. m.type = "IncomingFile" /\ m.id = e.id /\ m.body = e.body
    BY <1>8, <1>9, LetterEvent
  <1>11. Records(node, node', p, q, m)
    BY <1>4, <1>5, <1>6, <1>10 DEF Records
  <1>12. Flow(node', link', wire, panic, accepted)
    BY <1>3, <1>8, <1>10, <1>11, InvTypes, RecordFlow
  <1>13. \A x, y \in Peers : \A n \in Letter :
           Aloft(node', link', wire, n, x, y) => Aloft(node, link, wire, n, x, y)
    BY <1>8 DEF Carried
  <1>14. \A x \in Peers :
           /\ node'[x].pending_send = node[x].pending_send
           /\ node'[x].ongoing_send = node[x].ongoing_send
           /\ node'[x].send_counter = node[x].send_counter
           /\ node[x].send_counter \in Nat
    BY <1>4, <1>6, InvTypes DEF Behaviour
  <1>15. ASSUME NEW x \in Peers, NEW y \in node'[x].pending_recv
         PROVE  \/ y \in node[x].pending_recv
                \/ \E n \in Letter :
                     /\ n.type = "IncomingFile"
                     /\ Aloft(node, link, wire, n, y.remote, x)
                     /\ y.remote_send_id = n.id
                     /\ y.file = n.body[1][1] /\ y.bytes_total = n.body[1][2]
    BY <1>4, <1>5, <1>6, <1>8, <1>10
  <1>16. Heir(node, link, wire, panic, node', link', wire, panic)
    BY <1>13, <1>14, <1>15 DEF Heir, Sends
  <1> QED BY <1>2, <1>12, <1>16

\* An idle method that touches at most the ongoing sends.
Spares(b, a) ==
  /\ Idle(b, a)
  /\ a.pending_send = b.pending_send /\ a.pending_recv = b.pending_recv
  /\ a.ongoing_recv = b.ongoing_recv /\ a.send_counter = b.send_counter

\* progress_ongoing_send
LEMMA ProgressSpares ==
  ASSUME NEW b \in Behaviour, NEW s \in b.ongoing_send
  PROVE  Spares(b, progress_ongoing_send(b, s))
  <1> DEFINE a == progress_ongoing_send(b, s)
  <1>1. Idle(b, a)
    BY ProgressIdle
  <1>2. /\ a.pending_send = b.pending_send /\ a.pending_recv = b.pending_recv
        /\ a.ongoing_recv = b.ongoing_recv /\ a.send_counter = b.send_counter
    BY DEF progress_ongoing_send, Notify, Behaviour
  <1> QED BY <1>1, <1>2 DEF Spares

\* fail_ongoing_send
LEMMA FailSpares ==
  ASSUME NEW b \in Behaviour, NEW s
  PROVE  Spares(b, fail_ongoing_send(b, s))
  <1> DEFINE a == fail_ongoing_send(b, s)
  <1>1. Idle(b, a)
    BY RemoveIdle, Zenon DEF fail_ongoing_send
  <1>2. /\ a.pending_send = b.pending_send /\ a.pending_recv = b.pending_recv
        /\ a.ongoing_recv = b.ongoing_recv /\ a.send_counter = b.send_counter
    BY DEF fail_ongoing_send, Behaviour
  <1> QED BY <1>1, <1>2 DEF Spares

\* An event after such a method.
LEMMA EmitSpares ==
  ASSUME NEW b \in Behaviour, NEW a, Spares(b, a), NEW t \in OutType,
         NEW id \in Nat, NEW n \in Nat
  PROVE  Spares(b, Emit(a, t, id, n))
  <1> DEFINE d == Emit(a, t, id, n)
  <1>1. a \in Behaviour /\ Idle(b, a)
    BY DEF Spares, Idle
  <1>2. Idle(a, d)
    BY <1>1, EmitIdle
  <1>3. /\ d.pending_send = a.pending_send /\ d.pending_recv = a.pending_recv
        /\ d.ongoing_recv = a.ongoing_recv /\ d.send_counter = a.send_counter
    BY <1>1 DEF Emit, Behaviour
  <1> HIDE DEF d
  <1>4. Idle(b, d)
    BY <1>1, <1>2, IdleTrans, Zenon
  <1> QED BY <1>3, <1>4 DEF Spares, d

\* OnFileSendAccepted
LEMMA OnFileSendAcceptedFlow ==
  ASSUME Inv, Inv', FlowInv, NEW p \in Peers, NEW q \in Peers, NEW c \in Conns,
         OnFileSendAccepted(p, q, c)
  PROVE  FlowNext
  <1> DEFINE e == NextEvent(p, q, c)
             a(s) == pending_send_accepted(node[p], s)
             ok(s) == Emit(progress_ongoing_send(a(s), started(s)),
                           "SendProgressed", e.id, 0)
             bad(s) == Emit(fail_ongoing_send(a(s), started(s)),
                            "SendProgressed", e.id, 0)
  <1>1. /\ HasEvent(p, q, c, "FileSendAccepted")
        /\ TakeEvent(p, q, c) /\ UNCHANGED <<ghostVars, lifeVars>>
    BY DEF OnFileSendAccepted
  <1>2. e.id \in Nat /\ e.type = "FileSendAccepted"
    BY <1>1, NextEventType DEF Inv
  <1>3. \/ UNCHANGED node
        \/ \E s \in node[p].pending_send :
             s.local_send_id = e.id /\ (Set(p, ok(s)) \/ Set(p, bad(s)))
    BY Zenon DEF OnFileSendAccepted
  <1> HIDE DEF e
  <1>4. CASE UNCHANGED node
    BY <1>1, <1>4, EventIgnoredStep, Zenon
  <1>5. ASSUME NEW s \in node[p].pending_send, s.local_send_id = e.id,
               NEW b, Set(p, b), Spares(a(s), b)
        PROVE  FlowNext
    <2> SUFFICES ASSUME restarts' = 0
                 PROVE  /\ Flow(node', link', wire', panic', accepted')
                        /\ Heir(node, link, wire, panic, node', link', wire', panic')
      BY FlowNextBy
    <2>1. restarts = 0 /\ UNCHANGED <<panic, accepted, wire>>
      BY <1>1 DEF lifeVars, ghostVars, TakeEvent
    <2>2. Flow(node, link, wire, panic, accepted)
      BY <2>1 DEF FlowInv
    <2>3. /\ a(s).pending_handler_event = node[p].pending_handler_event
          /\ a(s).pending_send = node[p].pending_send \ {s}
          /\ a(s).ongoing_send = node[p].ongoing_send \cup {started(s)}
          /\ a(s).pending_recv = node[p].pending_recv
          /\ a(s).ongoing_recv = node[p].ongoing_recv
          /\ a(s).send_counter = node[p].send_counter
      BY GoodNode DEF pending_send_accepted, Behaviour
    <2>4. node'[p] = b /\ \A x \in Peers : x # p => node'[x] = node[x]
      BY <1>5, SetAt
    <2>5. /\ started(s).local_send_id = s.local_send_id
          /\ started(s).remote = s.remote /\ started(s).file = s.file
      BY DEF started
    <2> HIDE DEF a
    <2>6. /\ Idle(a(s), b) /\ b.pending_send = a(s).pending_send
          /\ b.pending_recv = a(s).pending_recv
          /\ b.ongoing_recv = a(s).ongoing_recv
          /\ b.send_counter = a(s).send_counter
      BY <1>5 DEF Spares
    <2>7. Hushed(node[p], b)
      BY <2>3, <2>6 DEF Idle, Hushed
    <2>8. PICK m \in Letter :
             /\ on_message(m) = e
             /\ Aloft(node, link, wire, m, q, p)
             /\ Carried(node, link, wire, node', link', wire)
             /\ \A n \in Letter : n.type = m.type /\ n.id = m.id
                  => ~Aloft(node', link', wire, n, q, p)
      BY <1>1, <1>5, <2>1, <2>7, LetterTaken DEF e
    <2>9. m.type = "AcceptFile" /\ m.id = e.id
      BY <1>2, <2>8, LetterEvent
    <2>10. ASSUME NEW x \in b.ongoing_send
          PROVE  \E y \in node[p].ongoing_send \cup {s} :
                   /\ y.local_send_id = x.local_send_id
                   /\ y.remote = x.remote /\ y.file = x.file
      <3>1. PICK y \in a(s).ongoing_send :
              /\ y.local_send_id = x.local_send_id
              /\ y.remote = x.remote /\ y.file = x.file
        BY <2>6 DEF Idle, Tame
      <3> QED BY <2>3, <2>5, <3>1
    <2>11. Starts(node, node', p, s)
      BY <2>3, <2>4, <2>6, <2>10 DEF Starts
    <2>12. Flow(node', link', wire, panic, accepted)
      BY <1>5, <2>2, <2>8, <2>9, <2>11, InvTypes, StartFlow
    <2>13. \A x, y \in Peers : \A n \in Letter :
             Aloft(node', link', wire, n, x, y) => Aloft(node, link, wire, n, x, y)
      BY <2>8 DEF Carried
    <2>14. \A x \in Peers :
             /\ node'[x].pending_send \subseteq node[x].pending_send
             /\ node'[x].pending_recv = node[x].pending_recv
             /\ node'[x].send_counter = node[x].send_counter
             /\ node[x].send_counter \in Nat
      BY <2>3, <2>4, <2>6, InvTypes DEF Behaviour
    <2>15. ASSUME NEW x \in Peers, NEW y \in node'[x].ongoing_send
           PROVE  \E t \in Sends(node[x]) :
                    /\ t.local_send_id = y.local_send_id
                    /\ t.remote = y.remote /\ t.file = y.file
      BY <2>4, <2>10 DEF Sends
    <2>16. Heir(node, link, wire, panic, node', link', wire, panic)
      BY <2>13, <2>14, <2>15 DEF Heir
    <2> QED BY <2>1, <2>12, <2>16
  <1>6. ASSUME NEW s \in node[p].pending_send
        PROVE  /\ a(s) \in Behaviour
               /\ Spares(a(s), ok(s)) /\ Spares(a(s), bad(s))
    <2>1. a(s) \in Behaviour /\ started(s) \in a(s).ongoing_send
      BY GoodNode, PendingSendAcceptedGood, Zenon DEF Good
    <2>2. "SendProgressed" \in OutType /\ 0 \in Nat
      BY DEF OutType
    <2> HIDE DEF a
    <2>3. Spares(a(s), progress_ongoing_send(a(s), started(s)))
      BY <2>1, ProgressSpares
    <2>4. Spares(a(s), fail_ongoing_send(a(s), started(s)))
      BY <2>1, FailSpares
    <2> QED BY <1>2, <2>1, <2>2, <2>3, <2>4, EmitSpares
  <1> HIDE DEF a, ok, bad
  <1> QED BY <1>3, <1>4, <1>5, <1>6, Zenon DEF Spares

\* AcceptedTwice cannot happen.
LEMMA AcceptedTwiceFlow ==
  ASSUME Inv, FlowInv, NEW p \in Peers, NEW q \in Peers, NEW c \in Conns,
         AcceptedTwice(p, q, c)
  PROVE  FlowNext
  <1>1. /\ HasEvent(p, q, c, "FileSendAccepted") /\ UNCHANGED restarts
        /\ \E s \in node[p].ongoing_send : s.local_send_id = NextEvent(p, q, c).id
    BY DEF AcceptedTwice
  <1> SUFFICES ASSUME restarts = 0
               PROVE  FALSE
    BY <1>1 DEF FlowNext, FlowInv
  <1>2. /\ NextEvent(p, q, c) \in Event
        /\ NextEvent(p, q, c).type = "FileSendAccepted"
    BY <1>1, NextEventType DEF Inv
  <1>3. PICK m \in Letter : on_message(m) = NextEvent(p, q, c)
    BY <1>2, EventLetter
  <1>4. m.type = "AcceptFile" /\ m.id = NextEvent(p, q, c).id
    BY <1>2, <1>3, LetterEvent
  <1>5. At(node, link, wire, m, q, p, "ev", c, 1)
    <2> DEFINE z == link[<<p, q, c>>].ev
    <2>1. z \in Seq(Event)
      BY InvTypes DEF Links, Handler
    <2>2. z # <<>> /\ Head(z) = on_message(m)
      BY <1>1, <1>3 DEF HasEvent, NextEvent
    <2> HIDE DEF z
    <2>3. 1 \in DOMAIN z /\ z[1] = on_message(m)
      BY <2>1, <2>2
    <2> QED BY <2>3 DEF At, z
  <1>6. Aloft(node, link, wire, m, q, p)
    BY <1>5 DEF Aloft
  <1>7. Flow(node, link, wire, panic, accepted)
    BY DEF FlowInv
  <1>8. \A s \in node[p].ongoing_send : s.local_send_id # m.id
    BY <1>4, <1>6, <1>7, NotStartedTwice
  <1> QED BY <1>1, <1>4, <1>8

\* SendFile
LEMMA SendFileFlow ==
  ASSUME Inv, Inv', FlowInv, NEW p \in Peers, NEW q \in Peers, NEW f \in Files,
         SendFile(p, q, f)
  PROVE  FlowNext
  <1> DEFINE b == queue_send(node[p], q, f)
  <1>1. /\ Set(p, b) /\ panic[p] = "none"
        /\ UNCHANGED <<connVars, ghostVars, lifeVars>>
    BY Zenon DEF SendFile, Running
  <1> SUFFICES ASSUME restarts' = 0
               PROVE  /\ Flow(node', link', wire', panic', accepted')
                      /\ Heir(node, link, wire, panic, node', link', wire', panic')
    BY FlowNextBy
  <1>2. restarts = 0 /\ UNCHANGED <<panic, accepted, wire, link>>
    BY <1>1 DEF lifeVars, ghostVars, connVars
  <1>3. Flow(node, link, wire, panic, accepted)
    BY <1>2 DEF FlowInv
  <1>4. /\ b.pending_handler_event = Append(node[p].pending_handler_event,
             [to |-> q, msg |-> Message("IncomingFile", node[p].send_counter,
                                        <<<<f, FileLen[f]>>>>)])
        /\ b.pending_send = node[p].pending_send \cup
             {[local_send_id |-> node[p].send_counter, remote |-> q, file |-> f]}
        /\ b.ongoing_send = node[p].ongoing_send
        /\ b.pending_recv = node[p].pending_recv
        /\ b.ongoing_recv = node[p].ongoing_recv
        /\ b.send_counter = node[p].send_counter + 1
    BY GoodNode DEF queue_send, next_send_id, Notify, Behaviour
  <1>5. node'[p] = b /\ \A x \in Peers : x # p => node'[x] = node[x]
    BY <1>1, SetAt
  <1> HIDE DEF b
  <1>6. Requests(node, node', p, q, f)
    BY <1>4, <1>5 DEF Requests, Writes
  <1>7. Flow(node', link, wire, panic, accepted)
    BY <1>1, <1>3, <1>6, InvTypes, RequestFlow
  <1> DEFINE m == Message("IncomingFile", node[p].send_counter,
                          <<<<f, FileLen[f]>>>>)
  <1>8. node[p].send_counter \in Nat /\ f \in Files /\ FileLen[f] \in Nat
    BY InvTypes, FilesAssumption DEF Behaviour
  <1>9. /\ m \in Letter /\ m.id = node[p].send_counter
        /\ m.body[1][1] = f /\ m.body[1][2] = FileLen[f]
    <2>1. <<<<f, FileLen[f]>>>> \in Seq(Chunk)
      BY <1>8 DEF Chunk
    <2>2. /\ m.type = "IncomingFile" /\ m.id = node[p].send_counter
          /\ m.body = <<<<f, FileLen[f]>>>>
      BY DEF Message
    <2>3. m \in Letter
      BY <1>8, <2>1 DEF Message, Letter, Msg, MsgType
    <2> QED BY <2>2, <2>3
  <1>10. Writes(node, node', p, q, m)
    BY <1>4, <1>5 DEF Writes
  <1> HIDE DEF m
  <1>11. \A x, y \in Peers : \A n \in Letter :
           Aloft(node', link, wire, n, x, y) =>
             Aloft(node, link, wire, n, x, y) \/ (x = p /\ y = q /\ n = m)
    BY <1>9, <1>10, InvTypes, WriteLetter
  <1>12. \A x, y \in Peers : \A n \in Letter :
           n.type = "IncomingFile" /\ Aloft(node', link, wire, n, x, y) =>
             \/ Aloft(node, link, wire, n, x, y)
             \/ /\ panic[x] = "none" /\ n.id = node[x].send_counter
                /\ n.body[1][2] = FileLen[n.body[1][1]]
    BY <1>1, <1>9, <1>11
  <1>13. \A x \in Peers :
           /\ node'[x].ongoing_send = node[x].ongoing_send
           /\ node'[x].pending_recv = node[x].pending_recv
           /\ node[x].send_counter <= node'[x].send_counter
    <2>1. \A x \in Peers : node[x].send_counter \in Nat
      BY InvTypes DEF Behaviour
    <2> QED BY <1>4, <1>5, <2>1
  <1>14. ASSUME NEW x \in Peers, NEW s \in node'[x].pending_send
         PROVE  \/ s \in node[x].pending_send
                \/ panic[x] = "none" /\ s.local_send_id = node[x].send_counter
    BY <1>1, <1>4, <1>5
  <1>15. Heir(node, link, wire, panic, node', link, wire, panic)
    BY <1>12, <1>13, <1>14 DEF Heir, Sends
  <1> QED BY <1>2, <1>7, <1>15

\* SendFile, when only an id is spent.
LEMMA SendFileNothingFlow ==
  ASSUME Inv, Inv', FlowInv, NEW p \in Peers, NEW q \in Peers,
         SendFileNotFound(p, q) \/ SendFileNoMetadata(p, q)
  PROVE  FlowNext
  <1>1. /\ Set(p, next_send_id(node[p]))
        /\ UNCHANGED <<connVars, accepted, lifeVars>>
    BY DEF SendFileNotFound, SendFileNoMetadata, ghostVars
  <1>2. Idle(node[p], next_send_id(node[p]))
    BY GoodNode, NextSendIdIdle
  <1> QED BY <1>1, <1>2, UserStep, Zenon

\* AcceptFile
LEMMA AcceptFileFlow ==
  ASSUME Inv, Inv', FlowInv, NEW p \in Peers, AcceptFile(p)
  PROVE  FlowNext
  <1>1. PICK r \in node[p].pending_recv :
          /\ Set(p, accept_pending_recv(node[p], r))
          /\ accepted' = accepted \cup {<<r.remote, r.remote_send_id, r.file>>}
    BY DEF AcceptFile
  <1> DEFINE b == accept_pending_recv(node[p], r)
             o == [local_recv_id |-> r.local_recv_id,
                   remote_send_id |-> r.remote_send_id, remote |-> r.remote,
                   file |-> r.file, bytes_total |-> r.bytes_total,
                   data |-> <<>>]
             K == {y \in node[p].ongoing_recv :
                     y.remote_send_id # r.remote_send_id}
  <1> SUFFICES ASSUME restarts' = 0
               PROVE  /\ Flow(node', link', wire', panic', accepted')
                      /\ Heir(node, link, wire, panic, node', link', wire', panic')
    BY FlowNextBy
  <1>2. restarts = 0 /\ UNCHANGED <<panic, wire, link>>
    BY DEF AcceptFile, lifeVars, connVars
  <1>3. Flow(node, link, wire, panic, accepted)
    BY <1>2 DEF FlowInv
  <1>4. /\ b.pending_handler_event = Append(node[p].pending_handler_event,
             [to |-> r.remote,
              msg |-> Message("AcceptFile", r.remote_send_id, <<>>)])
        /\ b.pending_recv = node[p].pending_recv \ {r}
        /\ b.ongoing_recv = K \cup {o}
        /\ b.pending_send = node[p].pending_send
        /\ b.ongoing_send = node[p].ongoing_send
        /\ b.send_counter = node[p].send_counter
    BY GoodNode DEF accept_pending_recv, Notify, Behaviour
  <1>5. node'[p] = b /\ \A x \in Peers : x # p => node'[x] = node[x]
    BY <1>1, SetAt
  <1>6. /\ o.local_recv_id = r.local_recv_id /\ o.remote = r.remote
        /\ o.remote_send_id = r.remote_send_id
        /\ K \subseteq node[p].ongoing_recv
    OBVIOUS
  <1> HIDE DEF b, o, K
  <1>7. Descend(node[p], b)
    BY <1>4, <1>6 DEF Descend, Recvs
  <1>8. Accepts(node, node', accepted, accepted', p, r)
    BY <1>1, <1>4, <1>5, <1>7 DEF Accepts, Writes
  <1>9. Ids(node'[p]) /\ Ids(node[p])
    BY InvTypes DEF Inv, NodeInv, Good
  <1>10. Flow(node', link, wire, panic, accepted')
    BY <1>3, <1>8, <1>9, InvTypes, AcceptFlow
  <1> DEFINE m == Message("AcceptFile", r.remote_send_id, <<>>)
  <1>11. r.remote \in Peers /\ r.remote_send_id \in Nat
    BY InvTypes DEF Behaviour, PendingRecv
  <1>12. m \in Letter /\ m.type # "IncomingFile"
    BY <1>11 DEF Message, Letter, Msg, MsgType
  <1>13. Writes(node, node', p, r.remote, m)
    BY <1>4, <1>5 DEF Writes
  <1> HIDE DEF m
  <1>14. \A x, y \in Peers : \A n \in Letter :
           Aloft(node', link, wire, n, x, y) =>
             Aloft(node, link, wire, n, x, y) \/ (x = p /\ y = r.remote /\ n = m)
    BY <1>11, <1>12, <1>13, InvTypes, WriteLetter
  <1>15. \A x, y \in Peers : \A n \in Letter :
           n.type = "IncomingFile" /\ Aloft(node', link, wire, n, x, y) =>
             Aloft(node, link, wire, n, x, y)
    BY <1>12, <1>14
  <1>16. \A x \in Peers :
           /\ node'[x].pending_send = node[x].pending_send
           /\ node'[x].ongoing_send = node[x].ongoing_send
           /\ node'[x].pending_recv \subseteq node[x].pending_recv
           /\ node[x].send_counter <= node'[x].send_counter
    <2>1. \A x \in Peers : node[x].send_counter \in Nat
      BY InvTypes DEF Behaviour
    <2> QED BY <1>4, <1>5, <2>1
  <1>17. Heir(node, link, wire, panic, node', link, wire, panic)
    BY <1>15, <1>16 DEF Heir, Sends
  <1> QED BY <1>2, <1>10, <1>17

\* CancelRecv
LEMMA CancelRecvFlow ==
  ASSUME Inv, Inv', FlowInv, NEW p \in Peers, NEW id \in Nat, CancelRecv(p, id)
  PROVE  FlowNext
  <1>1. PICK r \in recv_record(node[p], id) :
          Set(p, cancel_recv_by_local_recv_id(node[p], id, r))
    BY DEF CancelRecv
  <1>2. UNCHANGED <<connVars, accepted, lifeVars>>
    BY DEF CancelRecv
  <1>3. r \in Recvs(node[p])
    BY DEF recv_record, Recvs
  <1>4. Idle(node[p], cancel_recv_by_local_recv_id(node[p], id, r))
    BY <1>3, GoodNode, CancelRecvIdle
  <1> QED BY <1>1, <1>2, <1>4, UserStep, Zenon

\* CancelSend
LEMMA CancelSendFlow ==
  ASSUME Inv, Inv', FlowInv, NEW p \in Peers, NEW id \in Nat, CancelSend(p, id)
  PROVE  FlowNext
  <1>1. PICK s \in send_record(node[p], id) :
          Set(p, cancel_send_by_local_send_id(node[p], s))
    BY DEF CancelSend
  <1>2. UNCHANGED <<connVars, accepted, lifeVars>>
    BY DEF CancelSend
  <1>3. s \in Sends(node[p])
    BY DEF send_record, Sends
  <1>4. Idle(node[p], cancel_send_by_local_send_id(node[p], s))
    BY <1>3, GoodNode, CancelSendIdle
  <1> QED BY <1>1, <1>2, <1>4, UserStep, Zenon

\* SendFileLate: the swarm of p is gone.
LEMMA SendFileLateFlow ==
  ASSUME Inv, Inv', FlowInv, NEW p \in Peers, NEW q \in Peers,
         SendFileLate(p, q)
  PROVE  FlowNext
  <1>1. Drop(p) /\ UNCHANGED restarts
        /\ panic' = [panic EXCEPT ![p] = "callback to succeed"]
    BY DEF SendFileLate
  <1>2. /\ node'[p] = NewBehaviour
        /\ \A x \in Peers : x # p => node'[x] = node[x]
    BY <1>1, SetAt DEF Drop
  <1>3. /\ NewBehaviour.pending_handler_event = <<>>
        /\ NewBehaviour.pending_send = {} /\ NewBehaviour.ongoing_send = {}
        /\ NewBehaviour.pending_recv = {} /\ NewBehaviour.ongoing_recv = {}
    BY DEF NewBehaviour
  <1>4. \A x \in Peers : Hushed(node[x], node'[x])
    BY <1>2, <1>3 DEF Hushed
  <1>5. \A l \in Links : Quieter(link[l], link'[l])
    <2>1. NewHandler.inq = <<>> /\ NewHandler.ev = <<>>
      BY DEF NewHandler
    <2>2. \A l \in Links : link'[l] = NewHandler \/ link'[l] = link[l]
      BY <1>1 DEF Drop
    <2> QED BY <2>1, <2>2 DEF Quieter
  <1>6. Carried(node, link, wire, node', link', wire')
    <2>1. Carried(node, link, wire, node', link, wire)
      BY <1>4, CarryHushed
    <2>2. Carried(node', link, wire, node', link', wire)
      BY <1>5, CarryQuieter
    <2> QED BY <1>1, <2>1, <2>2, CarriedTrans DEF Drop
  <1>7. /\ panic'[p] = "callback to succeed"
        /\ \A x \in Peers : x # p => panic'[x] = panic[x]
    BY <1>1 DEF Inv, GhostType
  <1>8. ASSUME NEW x \in Peers
        PROVE  Calm(node, panic, accepted, node', panic', accepted', x)
    <2>1. CASE x = p
      BY <1>2, <1>3, <1>7, <2>1 DEF Calm, Tame, Sends
    <2>2. CASE x # p
      <3>1. Idle(node[x], node'[x])
        BY <1>2, <2>2, InvTypes, SameIdle
      <3>2. \A s \in Sends(node'[x]) :
              <<x, s.local_send_id, s.file>> \in accepted
                => <<x, s.local_send_id, s.file>> \in accepted'
        BY <1>1, <2>2 DEF Drop
      <3> QED BY <1>7, <2>2, <3>1, <3>2 DEF Calm, Idle
    <2> QED BY <2>1, <2>2
  <1> QED BY <1>1, <1>6, <1>8, CalmStep

\* poll, whatever has expired.
LEMMA PollFlow ==
  ASSUME Inv, Inv', FlowInv, NEW p \in Peers,
         NEW x \in Expiries(node[p]) \cup {NotThrottled}, PollWith(p, x)
  PROVE  FlowNext
  <1> DEFINE b == check_expiry(node[p], x)
             h == Head(b.pending_handler_event)
             o1 == [b EXCEPT !.out_events = Tail(@)]
             q1 == [b EXCEPT !.pending_handler_event = Tail(@)]
  <1>1. UNCHANGED <<conn, wire, ghostVars, lifeVars>>
    BY DEF PollWith
  <1>2. \/ b.out_events # <<>> /\ Set(p, o1) /\ UNCHANGED link
        \/ /\ b.pending_handler_event # <<>> /\ Set(p, q1)
           /\ \/ UNCHANGED link
              \/ \E c \in conn[p][h.to] :
                   link' = [link EXCEPT ![<<p, h.to, c>>].inq = Append(@, h.msg)]
    BY Zenon DEF PollWith, PollOutEvent, PollHandlerEvent
  <1>3. node[p] \in Behaviour /\ Idle(node[p], b) /\ b \in Behaviour
    BY GoodNode, CheckExpiryIdle DEF Idle
  <1> HIDE DEF b
  <1>4. CASE b.out_events # <<>> /\ Set(p, o1) /\ UNCHANGED link
    <2>1. Shrinks(b, o1)
      BY <1>3, <1>4, PopShrinks
    <2>2. o1.pending_handler_event = b.pending_handler_event
      BY <1>3 DEF Behaviour
    <2> HIDE DEF o1
    <2>3. Idle(b, o1)
      BY <1>3, <2>1, <2>2, SilentIdle
    <2>4. Idle(node[p], o1)
      BY <1>3, <2>3, IdleTrans, Zenon
    <2>5. UNCHANGED <<connVars, accepted, lifeVars>>
      BY <1>1, <1>4 DEF connVars, ghostVars
    <2> QED BY <1>4, <2>4, <2>5, UserStep, Zenon
  <1>5. ASSUME b.pending_handler_event # <<>>, Set(p, q1),
               \/ UNCHANGED link
               \/ \E c \in conn[p][h.to] :
                    link' = [link EXCEPT ![<<p, h.to, c>>].inq = Append(@, h.msg)]
        PROVE  FlowNext
    <2> DEFINE N1 == [node EXCEPT ![p] = b]
    <2>1. Shrinks(b, q1) /\ h \in Notification
      BY <1>3, <1>5, PopShrinks
    <2>2. h.to \in Peers /\ h.msg \in Msg
      BY <2>1 DEF Notification
    <2>3. q1.pending_handler_event = Tail(b.pending_handler_event)
      BY <1>3 DEF Behaviour
    <2>4. node'[p] = q1 /\ \A y \in Peers : y # p => node'[y] = node[y]
      BY <1>5, SetAt
    <2>5. /\ N1 \in [Peers -> Behaviour] /\ N1[p] = b
          /\ \A y \in Peers : y # p => N1[y] = node[y]
      BY <1>3, InvTypes
    <2> HIDE DEF q1, N1
    <2>6. Carried(node, link, wire, N1, link, wire)
      <3>1. \A y \in Peers : Hushed(node[y], N1[y])
        BY <1>3, <2>5 DEF Hushed, Idle
      <3> QED BY <3>1, CarryHushed
    <2>7. Pops(N1, node', p)
      BY <1>5, <2>3, <2>4, <2>5 DEF Pops
    <2>8. Carried(N1, link, wire, node', link', wire)
      <3>1. CASE UNCHANGED link
        BY <2>5, <2>7, <3>1, CarryPop
      <3>2. ASSUME NEW c \in conn[p][h.to],
                   link' = [link EXCEPT ![<<p, h.to, c>>].inq = Append(@, h.msg)]
            PROVE  Carried(N1, link, wire, node', link', wire)
        <4> DEFINE l == <<p, h.to, c>>
        <4>1. c \in Conns /\ l \in Links
          BY <2>2 DEF Inv, NetType, Links
        <4>2. Posts(link, link', p, h.to, c, h.msg)
          <5> DEFINE s == Append(link[l].inq, h.msg)
          <5>1. link' = [link EXCEPT ![l].inq = s]
            BY <3>2
          <5> HIDE DEF s, l
          <5>2. /\ link'[l].inq = s
                /\ \A j \in Links : j # l => link'[j].inq = link[j].inq
                /\ \A j \in Links : link'[j].ev = link[j].ev
            BY <4>1, <5>1, InvTypes DEF Handler
          <5> QED BY <5>2 DEF Posts, s, l
        <4>3. h = Head(N1[p].pending_handler_event)
          BY <2>5
        <4>4. link \in [Links -> Handler]
          BY InvTypes
        <4> HIDE DEF h, l
        <4> QED BY <2>5, <2>7, <4>1, <4>2, <4>3, <4>4, CarryPost
      <3> QED BY <1>5, <3>1, <3>2
    <2>9. Carried(node, link, wire, node', link', wire')
      BY <1>1, <2>6, <2>8, CarriedTrans
    <2>10. Tame(node[p], q1) /\ node[p].send_counter <= q1.send_counter
      <3>1. Tame(node[p], b) /\ node[p].send_counter <= b.send_counter
        BY <1>3 DEF Idle
      <3>2. Tame(b, q1)
        BY <2>1 DEF Shrinks, Tame
      <3>3. Tame(node[p], q1)
        BY <3>1, <3>2 DEF Tame
      <3>4. b.send_counter <= q1.send_counter /\ q1 \in Behaviour
        BY <2>1 DEF Shrinks
      <3>5. /\ node[p].send_counter \in Nat /\ b.send_counter \in Nat
            /\ q1.send_counter \in Nat
        BY <1>3, <3>4 DEF Behaviour
      <3> QED BY <3>1, <3>3, <3>4, <3>5
    <2>11. ASSUME NEW y \in Peers
           PROVE  Calm(node, panic, accepted, node', panic', accepted', y)
      <3>1. Tame(node[y], node'[y])
            /\ node[y].send_counter <= node'[y].send_counter
        <4>1. CASE y = p
          BY <2>4, <2>10, <4>1
        <4>2. CASE y # p
          <5>1. Idle(node[y], node'[y])
            BY <2>4, <4>2, InvTypes, SameIdle
          <5> QED BY <5>1 DEF Idle
        <4> QED BY <4>1, <4>2
      <3> QED BY <1>1, <3>1 DEF Calm, ghostVars, lifeVars
    <2> QED BY <1>1, <2>9, <2>11, CalmStep DEF lifeVars
  <1> QED BY <1>2, <1>4, <1>5, Zenon

\* Quieter is a preorder.
LEMMA QuieterTrans ==
  ASSUME NEW h, NEW h1, NEW h2, Quieter(h, h1), Quieter(h1, h2)
  PROVE  Quieter(h, h2)
  BY DEF Quieter

\* A handler reports what is no letter.
LEMMA TellQuieter ==
  ASSUME NEW L \in [Links -> Handler], NEW l \in Links, NEW e \in Event,
         e.type \notin {"IncomingFile", "FileSendAccepted"}
  PROVE  \A j \in Links : Quieter(L[j], Tell(L, l, e)[j])
  <1> DEFINE z == L[l].ev
             s == Append(z, e)
             L2 == Tell(L, l, e)
  <1>1. z \in Seq(Event)
    BY DEF Handler
  <1>2. \A i \in DOMAIN s : \/ i \in DOMAIN z /\ i # Len(z) + 1 /\ s[i] = z[i]
                            \/ i = Len(z) + 1 /\ s[i] = e
    BY <1>1, AppendAt, Zenon
  <1>3. L2 = [L EXCEPT ![l].ev = s]
    BY DEF Tell
  <1> HIDE DEF s, L2
  <1>4. /\ L2[l].ev = s
        /\ \A j \in Links : j # l => L2[j].ev = L[j].ev
        /\ \A j \in Links : L2[j].inq = L[j].inq
    BY <1>3 DEF Handler
  <1>5. \A j \in Links : Quieter(L[j], L2[j])
    BY <1>2, <1>4 DEF Quieter
  <1> QED BY <1>5 DEF L2

\* What a handler reports without a message is no letter.
LEMMA ReportQuiet ==
  ASSUME NEW t \in {"OutboundNegotiated", "InboundNegotiated", "Error"}
  PROVE  /\ Report(t) \in Event
         /\ Report(t).type \notin {"IncomingFile", "FileSendAccepted"}
  BY ReportEvents DEF Report

\* Connections that are reset or quieter.
LEMMA QuietStep ==
  ASSUME Inv, Inv', FlowInv, UNCHANGED <<node, ghostVars, lifeVars>>,
         \A l \in Links : Quieter(link[l], link'[l]),
         \A l \in Links : wire'[l] # <<>> => wire'[l] = wire[l]
  PROVE  FlowNext
  <1>1. Carried(node, link, wire, node, link', wire')
    BY CarryQuieter
  <1> QED BY <1>1, NetStep

\* OpenStream
LEMMA OpenStreamFlow ==
  ASSUME Inv, Inv', FlowInv, NEW p \in Peers, NEW q \in Peers, NEW c \in Conns,
         OpenStream(p, q, c)
  PROVE  FlowNext
  <1> DEFINE l == <<p, q, c>>
             k == <<q, p, c>>
             o == Report("OutboundNegotiated")
             i == Report("InboundNegotiated")
             L0 == [link EXCEPT ![l].open = TRUE]
             L1 == Tell(L0, l, o)
             L2 == Tell(L1, k, i)
  <1>1. l \in Links /\ k \in Links
    BY DEF Links
  <1>2. /\ link' = L2
        /\ wire' = [wire EXCEPT ![l] = <<>>]
        /\ UNCHANGED <<node, ghostVars, lifeVars>>
    BY DEF OpenStream
  <1>3. /\ o \in Event /\ o.type \notin {"IncomingFile", "FileSendAccepted"}
        /\ i \in Event /\ i.type \notin {"IncomingFile", "FileSendAccepted"}
    BY ReportQuiet
  <1> HIDE DEF l, k, o, i
  <1>4. L0 \in [Links -> Handler] /\ \A j \in Links : Quieter(link[j], L0[j])
    <2>1. [link[l] EXCEPT !.open = TRUE] \in Handler
      BY <1>1 DEF Inv, NetType, Handler
    <2>2. L0 \in [Links -> Handler]
      BY <1>1, <2>1 DEF Inv, NetType
    <2>3. \A j \in Links : L0[j].inq = link[j].inq /\ L0[j].ev = link[j].ev
      BY <1>1, InvTypes DEF Handler
    <2> HIDE DEF L0
    <2> QED BY <2>2, <2>3 DEF Quieter
  <1> HIDE DEF L0
  <1>5. L1 \in [Links -> Handler] /\ \A j \in Links : Quieter(L0[j], L1[j])
    BY <1>1, <1>3, <1>4, LinkReportType, TellQuieter
  <1> HIDE DEF L1
  <1>6. \A j \in Links : Quieter(L1[j], L2[j])
    BY <1>1, <1>3, <1>5, TellQuieter
  <1> HIDE DEF L2
  <1>7. \A j \in Links : Quieter(link[j], link'[j])
    BY <1>2, <1>4, <1>5, <1>6, QuieterTrans
  <1>8. \A j \in Links : wire'[j] # <<>> => wire'[j] = wire[j]
    BY <1>1, <1>2, InvTypes
  <1> QED BY <1>2, <1>7, <1>8, QuietStep

\* Complete
LEMMA CompleteFlow ==
  ASSUME Inv, Inv', FlowInv, NEW p \in Peers, NEW q \in Peers, NEW c \in Conns,
         Complete(p, q, c)
  PROVE  FlowNext
  <1> DEFINE l == <<p, q, c>>
             h == link[l]
             d == [type |-> "SendProgressed", id |-> h.busy[1].id, body |-> <<>>]
             s == IF h.busy[1].type = "FileChunk" THEN Append(h.ev, d) ELSE h.ev
  <1>1. l \in Links
    BY DEF Links
  <1>2. /\ link' = [link EXCEPT ![l].busy = <<>>, ![l].ev = s]
        /\ UNCHANGED <<node, wire, ghostVars, lifeVars>>
    BY DEF Complete
  <1>3. h.ev \in Seq(Event) /\ d.type = "SendProgressed"
    BY <1>1, InvTypes DEF Handler
  <1>4. \A i \in DOMAIN s :
          \/ i \in DOMAIN h.ev /\ s[i] = h.ev[i]
          \/ s[i].type = "SendProgressed"
    <2>1. \A i \in DOMAIN Append(h.ev, d) :
             \/ i \in DOMAIN h.ev /\ i # Len(h.ev) + 1 /\ Append(h.ev, d)[i] = h.ev[i]
             \/ i = Len(h.ev) + 1 /\ Append(h.ev, d)[i] = d
      BY <1>3, AppendAt, Zenon
    <2> HIDE DEF h, d
    <2> QED BY <1>3, <2>1
  <1> HIDE DEF l, s, d
  <1>5. /\ link'[l].ev = s
        /\ \A j \in Links : j # l => link'[j].ev = link[j].ev
        /\ \A j \in Links : link'[j].inq = link[j].inq
    BY <1>1, <1>2, InvTypes DEF Handler
  <1>6. \A j \in Links : Quieter(link[j], link'[j])
    BY <1>4, <1>5 DEF Quieter
  <1> QED BY <1>2, <1>6, QuietStep

\* Fail
LEMMA FailFlow ==
  ASSUME Inv, Inv', FlowInv, NEW p \in Peers, NEW q \in Peers, NEW c \in Conns,
         Fail(p, q, c)
  PROVE  FlowNext
  <1> DEFINE l == <<p, q, c>>
             k == <<q, p, c>>
             e == Report("Error")
             L0 == [link EXCEPT ![l].open = FALSE, ![l].busy = <<>>]
             L1 == Tell(L0, l, e)
             L2 == Tell(L1, k, e)
  <1>1. l \in Links /\ k \in Links
    BY DEF Links
  <1>2. /\ link' = L1 \/ link' = L2
        /\ UNCHANGED wire \/ wire' = [wire EXCEPT ![l] = <<>>]
        /\ UNCHANGED <<node, ghostVars, lifeVars>>
    BY DEF Fail
  <1>3. e \in Event /\ e.type \notin {"IncomingFile", "FileSendAccepted"}
    BY ReportQuiet
  <1> HIDE DEF l, k, e
  <1>4. L0 \in [Links -> Handler] /\ \A j \in Links : Quieter(link[j], L0[j])
    <2>1. [link[l] EXCEPT !.open = FALSE, !.busy = <<>>] \in Handler
      BY <1>1, SlotType DEF Inv, NetType, Handler
    <2>2. L0 \in [Links -> Handler]
      BY <1>1, <2>1 DEF Inv, NetType
    <2>3. \A j \in Links : L0[j].inq = link[j].inq /\ L0[j].ev = link[j].ev
      BY <1>1, InvTypes DEF Handler
    <2> HIDE DEF L0
    <2> QED BY <2>2, <2>3 DEF Quieter
  <1> HIDE DEF L0
  <1>5. L1 \in [Links -> Handler] /\ \A j \in Links : Quieter(L0[j], L1[j])
    BY <1>1, <1>3, <1>4, LinkReportType, TellQuieter
  <1> HIDE DEF L1
  <1>6. \A j \in Links : Quieter(L1[j], L2[j])
    BY <1>1, <1>3, <1>5, TellQuieter
  <1> HIDE DEF L2
  <1>7. \A j \in Links : Quieter(link[j], L1[j]) /\ Quieter(link[j], L2[j])
    BY <1>4, <1>5, <1>6, QuieterTrans
  <1>8. \A j \in Links : wire'[j] # <<>> => wire'[j] = wire[j]
    BY <1>1, <1>2, InvTypes
  <1> QED BY <1>2, <1>7, <1>8, QuietStep

\* A handler that has just been made has no letters.
LEMMA NewHandlerQuieter ==
  ASSUME NEW h
  PROVE  Quieter(h, NewHandler) /\ Quieter(h, h)
  <1>1. NewHandler.inq = <<>> /\ NewHandler.ev = <<>>
    BY DEF NewHandler
  <1> QED BY <1>1 DEF Quieter

\* Connect
LEMMA ConnectFlow ==
  ASSUME Inv, Inv', FlowInv, NEW p \in Peers, NEW q \in Peers, NEW c \in Conns,
         Connect(p, q, c)
  PROVE  FlowNext
  <1> DEFINE l == <<p, q, c>>
             k == <<q, p, c>>
  <1>1. l \in Links /\ k \in Links
    BY DEF Links
  <1>2. /\ link' = [link EXCEPT ![l] = NewHandler, ![k] = NewHandler]
        /\ wire' = [wire EXCEPT ![l] = <<>>, ![k] = <<>>]
        /\ UNCHANGED <<node, ghostVars, lifeVars>>
    BY DEF Connect
  <1> HIDE DEF l, k
  <1>3. \A j \in Links : link'[j] = NewHandler \/ link'[j] = link[j]
    BY <1>1, <1>2, InvTypes
  <1>4. \A j \in Links : Quieter(link[j], link'[j])
    BY <1>3, NewHandlerQuieter
  <1>5. \A j \in Links : wire'[j] # <<>> => wire'[j] = wire[j]
    BY <1>1, <1>2, InvTypes
  <1> QED BY <1>2, <1>4, <1>5, QuietStep

\* Close
LEMMA CloseFlow ==
  ASSUME Inv, Inv', FlowInv, NEW p \in Peers, NEW q \in Peers, NEW c \in Conns,
         Close(p, q, c)
  PROVE  FlowNext
  <1> DEFINE l == <<p, q, c>>
  <1>1. l \in Links
    BY DEF Links
  <1>2. /\ link' = [link EXCEPT ![l] = NewHandler]
        /\ UNCHANGED <<wire, ghostVars, lifeVars>>
        /\ Set(p, on_disconnect(node[p], q)) \/ UNCHANGED node
    BY Zenon DEF Close
  <1> HIDE DEF l
  <1>3. \A j \in Links : link'[j] = NewHandler \/ link'[j] = link[j]
    BY <1>1, <1>2, InvTypes
  <1>4. \A j \in Links : Quieter(link[j], link'[j])
    BY <1>3, NewHandlerQuieter
  <1>5. Carried(node, link, wire, node, link', wire')
    BY <1>2, <1>4, CarryQuieter
  <1>6. CASE UNCHANGED node
    BY <1>2, <1>5, <1>6, NetStep
  <1>7. CASE Set(p, on_disconnect(node[p], q))
    <2>1. Idle(node[p], on_disconnect(node[p], q))
      BY GoodNode, OnDisconnectIdle
    <2>2. UNCHANGED lifeVars /\ accepted \subseteq accepted'
      BY <1>2 DEF ghostVars
    <2> QED BY <1>5, <1>7, <2>1, <2>2, IdleStep, Zenon
  <1> QED BY <1>2, <1>6, <1>7

\* Transmit
LEMMA TransmitFlow ==
  ASSUME Inv, Inv', FlowInv, NEW p \in Peers, NEW q \in Peers, NEW c \in Conns,
         Transmit(p, q, c)
  PROVE  FlowNext
  <1> DEFINE l == <<p, q, c>>
             i == Tail(link[l].inq)
             m == <<Head(link[l].inq)>>
  <1>1. l \in Links
    BY DEF Links
  <1>2. /\ link[l].inq # <<>>
        /\ link' = [link EXCEPT ![l].inq = i, ![l].busy = m]
        /\ wire' = [wire EXCEPT ![l] = m]
        /\ UNCHANGED <<node, ghostVars, lifeVars>>
    BY DEF Transmit
  <1> HIDE DEF i, m
  <1>3. /\ link'[l].inq = i /\ wire'[l] = m
        /\ \A j \in Links : j # l => link'[j].inq = link[j].inq /\ wire'[j] = wire[j]
        /\ \A j \in Links : link'[j].ev = link[j].ev
    <2> HIDE DEF l
    <2> QED BY <1>1, <1>2, InvTypes DEF Handler
  <1>4. Sent(link, link', wire, wire', l)
    BY <1>2, <1>3 DEF Sent, i, m
  <1>5. link \in [Links -> Handler]
    BY InvTypes
  <1>6. Carried(node, link, wire, node, link', wire')
    BY <1>4, <1>5, CarrySent
  <1> QED BY <1>2, <1>6, NetStep

\* Arrive
LEMMA ArriveFlow ==
  ASSUME Inv, Inv', FlowInv, NEW p \in Peers, NEW q \in Peers, NEW c \in Conns,
         Arrive(p, q, c)
  PROVE  FlowNext
  <1> DEFINE l == <<p, q, c>>
             k == <<q, p, c>>
             e == Append(link[k].ev, on_message(wire[l][1]))
  <1>1. l \in Links /\ k \in Links
    BY DEF Links
  <1>2. /\ wire[l] # <<>>
        /\ link' = [link EXCEPT ![k].ev = e]
        /\ wire' = [wire EXCEPT ![l] = <<>>]
        /\ UNCHANGED <<node, ghostVars, lifeVars>>
    BY DEF Arrive, Tell
  <1> HIDE DEF e
  <1>3. /\ wire'[l] = <<>> /\ link'[k].ev = e
        /\ \A j \in Links : j # l => wire'[j] = wire[j]
        /\ \A j \in Links : j # k => link'[j].ev = link[j].ev
        /\ \A j \in Links : link'[j].inq = link[j].inq
    <2> HIDE DEF l, k
    <2> QED BY <1>1, <1>2, InvTypes DEF Handler
  <1>4. Reads(link, link', wire, wire', p, q, c)
    BY <1>2, <1>3 DEF Reads, e
  <1>5. link \in [Links -> Handler] /\ wire \in [Links -> Slot]
    BY InvTypes
  <1>6. Carried(node, link, wire, node, link', wire')
    BY <1>4, <1>5, CarryRead
  <1> QED BY <1>2, <1>6, NetStep

\* Restart: from here on ids may come back.
LEMMA RestartFlow ==
  ASSUME Inv, NEW p \in Peers, Restart(p)
  PROVE  FlowNext
  <1>1. restarts \in Nat /\ restarts' = restarts + 1
    BY InvTypes DEF Restart
  <1> QED BY <1>1 DEF FlowNext, FlowInv

-----------------------------------------------------------------------------
(* Theorems. *)

\* The program starts without letters and without records.
LEMMA InitFlow == Init => FlowInv
  <1> SUFFICES ASSUME Init
               PROVE  Flow(node, link, wire, panic, accepted)
    BY DEF FlowInv
  <1>1. ASSUME NEW p \in Peers
        PROVE  /\ node[p].pending_handler_event = <<>>
               /\ node[p].pending_send = {} /\ node[p].ongoing_send = {}
               /\ node[p].pending_recv = {} /\ node[p].ongoing_recv = {}
    BY DEF Init, InitBehaviour, NewBehaviour
  <1>2. \A l \in Links : /\ link[l].inq = <<>> /\ link[l].ev = <<>>
                         /\ wire[l] = <<>>
    BY DEF Init, NewHandler
  <1>3. ASSUME NEW p \in Peers, NEW q \in Peers, NEW m, NEW k, NEW c, NEW i,
               At(node, link, wire, m, p, q, k, c, i)
        PROVE  FALSE
    <2>1. ASSUME c \in Conns
          PROVE  <<p, q, c>> \in Links /\ <<q, p, c>> \in Links
      BY <2>1 DEF Links
    <2> QED BY <1>1, <1>2, <1>3, <2>1 DEF At
  <1>4. \A p, q \in Peers : \A m : ~Aloft(node, link, wire, m, p, q)
    BY <1>3 DEF Aloft
  <1>5. \A p, q \in Peers : Lone(node, link, wire, p, q)
    BY <1>3 DEF Lone
  <1>6. \A p \in Peers : Recvs(node[p]) = {}
    BY <1>1 DEF Recvs
  <1>7. ASSUME NEW p \in Peers, NEW q \in Peers
        PROVE  /\ Announced(node, link, wire, panic, p, q)
               /\ Waiting(node, panic, p, q)
               /\ Answered(node, link, wire, panic, accepted, p, q)
    <2>1. Announced(node, link, wire, panic, p, q)
      BY <1>4 DEF Announced
    <2>2. Waiting(node, panic, p, q)
      BY <1>1, <1>6 DEF Waiting
    <2>3. Answered(node, link, wire, panic, accepted, p, q)
      BY <1>4 DEF Answered
    <2> QED BY <2>1, <2>2, <2>3
  <1>8. ASSUME NEW p \in Peers
        PROVE  /\ Single(node[p]) /\ Started(node, accepted, p)
               /\ panic[p] # "Already handled"
    BY <1>1, <1>6 DEF Single, Started, Init
  <1> QED BY <1>5, <1>7, <1>8 DEF Flow

\* Every step keeps the invariant.
LEMMA NextFlow == Inv /\ Inv' /\ FlowInv /\ [Next]_vars => FlowNext
  <1> SUFFICES ASSUME Inv, Inv', FlowInv, [Next]_vars
               PROVE  FlowNext
    OBVIOUS
  <1>1. ASSUME NEW p \in Peers, User(p)
        PROVE  FlowNext
    <2>1. ASSUME NEW q \in Peers, NEW f \in Files, SendFile(p, q, f)
          PROVE  FlowNext
      BY <2>1, SendFileFlow
    <2>2. ASSUME NEW q \in Peers, SendFileNotFound(p, q) \/ SendFileNoMetadata(p, q)
          PROVE  FlowNext
      BY <2>2, SendFileNothingFlow
    <2>3. ASSUME NEW q \in Peers, SendFileLate(p, q)
          PROVE  FlowNext
      BY <2>3, SendFileLateFlow
    <2>4. CASE AcceptFile(p)
      BY <2>4, AcceptFileFlow
    <2>5. ASSUME NEW id \in 0..(node[p].recv_counter - 1), CancelRecv(p, id)
          PROVE  FlowNext
      BY <2>5, CancelRecvFlow
    <2>6. ASSUME NEW id \in 0..(node[p].send_counter - 1), CancelSend(p, id)
          PROVE  FlowNext
      BY <2>6, CancelSendFlow
    <2> QED BY <1>1, <2>1, <2>2, <2>3, <2>4, <2>5, <2>6, Zenon DEF User
  <1>2. ASSUME NEW p \in Peers, Poll(p) \/ PollExpiry(p)
        PROVE  FlowNext
    BY <1>2, PollFlow DEF Poll, PollExpiry
  <1>3. ASSUME NEW p \in Peers, Restart(p)
        PROVE  FlowNext
    BY <1>3, RestartFlow
  <1>4. ASSUME NEW p \in Peers, NEW q \in Peers, NEW c \in Conns,
               HandlerEvent(p, q, c)
        PROVE  FlowNext
    BY <1>4, OnIncomingFileFlow, OnRecvProgressedFlow, OnFileSendAcceptedFlow,
       AcceptedTwiceFlow, OnSendProgressedFlow, OnRemoteCancelSendFlow,
       OnRemoteCancelRecvFlow, OnOutboundNegotiatedFlow, OnReportFlow, Zenon
    DEF HandlerEvent
  <1>5. ASSUME NEW p \in Peers, NEW q \in Peers, NEW c \in Conns,
               Transport(p, q, c) \/ Failure(p, q, c) \/ Connect(p, q, c)
        PROVE  FlowNext
    BY <1>5, OpenStreamFlow, TransmitFlow, ArriveFlow, CompleteFlow, CloseFlow,
       FailFlow, ConnectFlow, Zenon
    DEF Transport, Failure, ConnectionNoticed, ConnectionLost
  <1>6. CASE UNCHANGED vars
    <2>1. UNCHANGED <<node, ghostVars, lifeVars, link, wire>>
      BY <1>6 DEF vars, ghostVars, lifeVars
    <2>2. Carried(node, link, wire, node, link', wire')
      BY <2>1, CarriedSame
    <2> QED BY <2>1, <2>2, NetStep
  <1> QED BY <1>1, <1>2, <1>3, <1>4, <1>5, <1>6, Zenon DEF Next

\* The invariant holds in every reachable state.
LEMMA FlowHolds == Spec => []FlowInv
  <1>1. Spec => []Inv
    BY InvHolds
  <1>2. Init => FlowInv
    BY InitFlow
  <1>3. Inv /\ Inv' /\ FlowInv /\ [Next]_vars => FlowInv'
    BY NextFlow DEF FlowNext
  <1> QED BY <1>1, <1>2, <1>3, PTL DEF Spec

\* Until a peer restarts, no FileSendAccepted finds the send it is about
\* started already, in any state and with any number of peers, connections
\* and requests: the `.expect("Already handled")' of
\* on_connection_handler_event does not fire.
THEOREM AcceptNeverHandledTwice ==
  Spec => [](restarts = 0 => AcceptHandledOnce)
  <1>1. FlowInv => (restarts = 0 => AcceptHandledOnce)
    BY DEF FlowInv, Flow, AcceptHandledOnce
  <1> QED BY <1>1, FlowHolds, PTL

\* Until a peer restarts, a request of a remote is at most one record of
\* pending_recv and ongoing_recv together: on_new_pending_recv does not see
\* it twice, and accept_pending_recv moves it.
THEOREM RequestReceivedOnce ==
  Spec => [](restarts = 0 => OneRecvPerSend)
  <1>1. FlowInv => (restarts = 0 => OneRecvPerSend)
    BY DEF FlowInv, Flow, Single, About, OneRecvPerSend
  <1> QED BY <1>1, FlowHolds, PTL

\* Until a peer restarts, progress_ongoing_send reads a file for a remote
\* only if the user there has accepted this very request.
THEOREM NothingSentUnasked ==
  Spec => [](restarts = 0 => AcceptedBeforeSent)
  <1>1. FlowInv => (restarts = 0 => AcceptedBeforeSent)
    BY DEF FlowInv, Flow, Started, AcceptedBeforeSent
  <1> QED BY <1>1, FlowHolds, PTL
=============================================================================
