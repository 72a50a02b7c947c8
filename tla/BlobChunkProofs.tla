-------------------------- MODULE BlobChunkProofs --------------------------
(***************************************************************************)
(* Proof of OneChunkInFlight, for every value of the constants of Blob.    *)
(*                                                                         *)
(* A chunk of a send, from the moment progress_ongoing_send queues it until*)
(* the Behaviour has seen its acknowledgement, is at exactly one place: in *)
(* pending_handler_event, in the inbox of a handler, outstanding at a      *)
(* handler, or among the events the handler reports.  Every action moves   *)
(* chunks from place to place (Shift), takes some away (Fewer), or queues  *)
(* one for a send that has none (Feeds).  The invariant adds what makes    *)
(* that last step sound: a pending send has no chunk anywhere, because its *)
(* id was never started, and the acknowledgement that starts the next read *)
(* was the only trace of the last chunk.  That no ongoing send is without a*)
(* chunk until something fails needs that chunks are addressed to the      *)
(* remote of their send and that both ends agree on their connections.     *)
(***************************************************************************)
EXTENDS BlobFlowProofs

-----------------------------------------------------------------------------
(* Chunks and the places where they are. *)

\* A chunk of send id of p, or the report that it is acknowledged, is at place
\* <<k, l, i>>.
Chunky(m, id) == m.type = "FileChunk" /\ m.id = id
Acked(e, id)  == e.type = "SendProgressed" /\ e.id = id

Tok(N, L, p, id, k, l, i) ==
  \/ /\ k = "queue" /\ l = p
     /\ i \in DOMAIN N[p].pending_handler_event
     /\ Chunky(N[p].pending_handler_event[i].msg, id)
  \/ /\ k = "inq" /\ l \in Links /\ l[1] = p
     /\ i \in DOMAIN L[l].inq /\ Chunky(L[l].inq[i], id)
  \/ /\ k = "busy" /\ l \in Links /\ l[1] = p
     /\ i = 1 /\ L[l].busy # <<>> /\ Chunky(L[l].busy[1], id)
  \/ /\ k = "ev" /\ l \in Links /\ l[1] = p
     /\ i \in DOMAIN L[l].ev /\ Acked(L[l].ev[i], id)

\* Send id of p has a chunk on its way.
On(N, L, p, id) == \E k, l, i : Tok(N, L, p, id, k, l, i)

\* No send of p has two.
Sole(N, L, p) ==
  \A id, k, l, i, k2, l2, i2 :
    Tok(N, L, p, id, k, l, i) /\ Tok(N, L, p, id, k2, l2, i2)
      => k = k2 /\ l = l2 /\ i = i2

\* These are the places of Outstanding.
LEMMA OutstandingTok ==
  ASSUME NEW p \in Peers, NEW id, NEW x
  PROVE  x \in Outstanding(p, id) <=>
           \E k, l, i : x = <<k, l, i>> /\ Tok(node, link, p, id, k, l, i)
  <1> DEFINE z == node[p].pending_handler_event
             mine == {l \in Links : l[1] = p}
             Q == {i \in DOMAIN z : Chunky(z[i].msg, id)}
             I(l) == {i \in DOMAIN link[l].inq : Chunky(link[l].inq[i], id)}
             B == {l \in mine : link[l].busy # <<>> /\ Chunky(link[l].busy[1], id)}
             E(l) == {i \in DOMAIN link[l].ev : Acked(link[l].ev[i], id)}
             S1 == {<<"queue", p, i>> : i \in Q}
             S2 == UNION {{<<"inq", l, i>> : i \in I(l)} : l \in mine}
             S3 == {<<"busy", l, 1>> : l \in B}
             S4 == UNION {{<<"ev", l, i>> : i \in E(l)} : l \in mine}
             S == S1 \cup S2 \cup S3 \cup S4
             T(k, l, i) == \/ k = "queue" /\ l = p /\ i \in Q
                           \/ k = "inq" /\ l \in mine /\ i \in I(l)
                           \/ k = "busy" /\ l \in B /\ i = 1
                           \/ k = "ev" /\ l \in mine /\ i \in E(l)
  <1>1. Outstanding(p, id) = S
    BY DEF Outstanding, Chunky, Acked
  <1>2. \A k, l, i : Tok(node, link, p, id, k, l, i) <=> T(k, l, i)
    BY DEF Tok
  <1> HIDE DEF Q, I, B, E, mine
  <1>3. ASSUME x \in S
        PROVE  \E k, l, i : x = <<k, l, i>> /\ T(k, l, i)
    <2>1. \/ \E i \in Q : x = <<"queue", p, i>>
          \/ \E l \in mine : \E i \in I(l) : x = <<"inq", l, i>>
          \/ \E l \in B : x = <<"busy", l, 1>>
          \/ \E l \in mine : \E i \in E(l) : x = <<"ev", l, i>>
      <3>1. CASE x \in S1
        BY <3>1
      <3>2. CASE x \in S2
        BY <3>2
      <3>3. CASE x \in S3
        BY <3>3
      <3>4. CASE x \in S4
        BY <3>4
      <3> HIDE DEF S1, S2, S3, S4
      <3> QED BY <1>3, <3>1, <3>2, <3>3, <3>4
    <2> QED BY <2>1, Zenon
  <1>4. ASSUME NEW k, NEW l, NEW i, x = <<k, l, i>>, T(k, l, i)
        PROVE  x \in S
    <2>1. CASE k = "queue" /\ l = p /\ i \in Q
      <3>1. x \in S1
        BY <1>4, <2>1
      <3> HIDE DEF S1, S2, S3, S4
      <3> QED BY <3>1
    <2>2. CASE k = "inq" /\ l \in mine /\ i \in I(l)
      <3>1. x \in {<<"inq", l, j>> : j \in I(l)}
        BY <1>4, <2>2
      <3>2. x \in S2
        BY <2>2, <3>1, Zenon
      <3> HIDE DEF S1, S2, S3, S4
      <3> QED BY <3>2
    <2>3. CASE k = "busy" /\ l \in B /\ i = 1
      <3>1. x \in S3
        BY <1>4, <2>3
      <3> HIDE DEF S1, S2, S3, S4
      <3> QED BY <3>1
    <2>4. CASE k = "ev" /\ l \in mine /\ i \in E(l)
      <3>1. x \in {<<"ev", l, j>> : j \in E(l)}
        BY <1>4, <2>4
      <3>2. x \in S4
        BY <2>4, <3>1, Zenon
      <3> HIDE DEF S1, S2, S3, S4
      <3> QED BY <3>2
    <2> QED BY <1>4, <2>1, <2>2, <2>3, <2>4, Zenon
  <1> HIDE DEF S, T
  <1> QED BY <1>1, <1>2, <1>3, <1>4, Zenon

\* A step only moves or loses chunks of p.
Fewer(N, L, N2, L2, p) ==
  /\ Sole(N, L, p) => Sole(N2, L2, p)
  /\ \A id : On(N2, L2, p, id) => On(N, L, p, id)

\* The chunk of send id of p is not lost.
Lasts(N, L, N2, L2, p, id) == On(N, L, p, id) => On(N2, L2, p, id)

\* A queue (k0, l0) of p may lose its head, which may go to one new place
\* (k1, l1, i1); everything else stays where it is or is lost.
Shift(N, L, N2, L2, p, k0, l0, k1, l1, i1) ==
  \A id, k, l, i :
    Tok(N2, L2, p, id, k, l, i) =>
      \/ /\ k # k0 \/ l # l0
         /\ ~(k = k1 /\ l = l1 /\ i = i1)
         /\ Tok(N, L, p, id, k, l, i)
      \/ /\ k = k0 /\ l = l0 /\ i \in Nat /\ i >= 1
         /\ Tok(N, L, p, id, k, l, i + 1)
      \/ /\ k = k1 /\ l = l1 /\ i = i1
         /\ Tok(N, L, p, id, k0, l0, 1)

\* Such a move keeps the chunks apart.
LEMMA ShiftFewer ==
  ASSUME NEW N, NEW L, NEW N2, NEW L2, NEW p,
         NEW k0, NEW l0, NEW k1, NEW l1, NEW i1,
         Shift(N, L, N2, L2, p, k0, l0, k1, l1, i1)
  PROVE  Fewer(N, L, N2, L2, p)
  <1>1. \A id : On(N2, L2, p, id) => On(N, L, p, id)
    BY DEF On, Shift
  <1>2. ASSUME Sole(N, L, p),
               NEW id, NEW k, NEW l, NEW i, NEW k2, NEW l2, NEW i2,
               Tok(N2, L2, p, id, k, l, i), Tok(N2, L2, p, id, k2, l2, i2)
        PROVE  k = k2 /\ l = l2 /\ i = i2
    <2> DEFINE A(a, b, j) == Tok(N, L, p, id, a, b, j)
    <2>1. \A a, b, j, a2, b2, j2 :
            A(a, b, j) /\ A(a2, b2, j2) => a = a2 /\ b = b2 /\ j = j2
      BY <1>2 DEF Sole
    <2>2. \/ (k # k0 \/ l # l0) /\ ~(k = k1 /\ l = l1 /\ i = i1) /\ A(k, l, i)
          \/ k = k0 /\ l = l0 /\ i \in Nat /\ i >= 1 /\ A(k, l, i + 1)
          \/ k = k1 /\ l = l1 /\ i = i1 /\ A(k0, l0, 1)
      BY <1>2 DEF Shift
    <2>3. \/ /\ k2 # k0 \/ l2 # l0
             /\ ~(k2 = k1 /\ l2 = l1 /\ i2 = i1) /\ A(k2, l2, i2)
          \/ k2 = k0 /\ l2 = l0 /\ i2 \in Nat /\ i2 >= 1 /\ A(k2, l2, i2 + 1)
          \/ k2 = k1 /\ l2 = l1 /\ i2 = i1 /\ A(k0, l0, 1)
      BY <1>2 DEF Shift
    <2> HIDE DEF A
    <2>4. CASE A(k, l, i) /\ (k # k0 \/ l # l0) /\ ~(k = k1 /\ l = l1 /\ i = i1)
      BY <2>1, <2>3, <2>4
    <2>5. CASE k = k0 /\ l = l0 /\ i \in Nat /\ i >= 1 /\ A(k, l, i + 1)
      BY <2>1, <2>3, <2>5
    <2>6. CASE k = k1 /\ l = l1 /\ i = i1 /\ A(k0, l0, 1)
      BY <2>1, <2>3, <2>6
    <2> QED BY <2>2, <2>4, <2>5, <2>6
  <1>3. Sole(N, L, p) => Sole(N2, L2, p)
    BY <1>2, Zenon DEF Sole
  <1> QED BY <1>1, <1>3 DEF Fewer

\* Everything stays where it is or is lost.
LEMMA StayFewer ==
  ASSUME NEW N, NEW L, NEW N2, NEW L2, NEW p,
         \A id, k, l, i :
           Tok(N2, L2, p, id, k, l, i) => Tok(N, L, p, id, k, l, i)
  PROVE  Fewer(N, L, N2, L2, p)
  <1>1. \A id : On(N2, L2, p, id) => On(N, L, p, id)
    BY DEF On
  <1>2. Sole(N, L, p) => Sole(N2, L2, p)
    BY DEF Sole
  <1> QED BY <1>1, <1>2 DEF Fewer

\* Two such steps make one.
LEMMA FewerTrans ==
  ASSUME NEW N, NEW L, NEW N1, NEW L1, NEW N2, NEW L2, NEW p,
         Fewer(N, L, N1, L1, p), Fewer(N1, L1, N2, L2, p)
  PROVE  Fewer(N, L, N2, L2, p)
  BY Zenon DEF Fewer

\* Queue y has no chunk that z does not have, at the same place.
Fainter(z, y) ==
  \A i \in DOMAIN y : y[i].msg.type = "FileChunk" =>
    i \in DOMAIN z /\ z[i] = y[i]

\* Queues get no chunks.
LEMMA FainterFewer ==
  ASSUME NEW N, NEW L, NEW N2, NEW p,
         Fainter(N[p].pending_handler_event, N2[p].pending_handler_event)
  PROVE  Fewer(N, L, N2, L, p)
  <1>1. ASSUME NEW id, NEW k, NEW l, NEW i, Tok(N2, L, p, id, k, l, i)
        PROVE  Tok(N, L, p, id, k, l, i)
    BY <1>1 DEF Tok, Fainter, Chunky
  <1> QED BY <1>1, StayFewer

\* Handler h2 has no chunk that h does not have, at the same place.
Softer(h, h2) ==
  /\ \A i \in DOMAIN h2.inq :
       h2.inq[i].type = "FileChunk" => i \in DOMAIN h.inq /\ h.inq[i] = h2.inq[i]
  /\ h2.busy # <<>> => h.busy = h2.busy
  /\ \A i \in DOMAIN h2.ev :
       h2.ev[i].type = "SendProgressed" => i \in DOMAIN h.ev /\ h.ev[i] = h2.ev[i]

\* Handlers get no chunks.
LEMMA SofterFewer ==
  ASSUME NEW N, NEW L, NEW L2, NEW p,
         \A l \in Links : l[1] = p => Softer(L[l], L2[l])
  PROVE  Fewer(N, L, N, L2, p)
  <1>1. ASSUME NEW id, NEW k, NEW l, NEW i, Tok(N, L2, p, id, k, l, i)
        PROVE  Tok(N, L, p, id, k, l, i)
    <2>1. CASE k = "queue"
      BY <1>1, <2>1 DEF Tok
    <2>2. CASE k # "queue"
      <3>1. l \in Links /\ l[1] = p
        BY <1>1, <2>2 DEF Tok
      <3>2. Softer(L[l], L2[l])
        BY <3>1
      <3> QED BY <1>1, <2>2, <3>1, <3>2 DEF Tok, Softer, Chunky, Acked
    <2> QED BY <2>1, <2>2
  <1> QED BY <1>1, StayFewer

\* Steps that follow one another.
LEMMA SofterTrans ==
  ASSUME NEW h, NEW h1, NEW h2, Softer(h, h1), Softer(h1, h2)
  PROVE  Softer(h, h2)
  BY DEF Softer

\* A handler has its own chunks, and a new one has none.
LEMMA SofterSame ==
  ASSUME NEW h
  PROVE  Softer(h, h) /\ Softer(h, NewHandler)
  <1>1. NewHandler.inq = <<>> /\ NewHandler.ev = <<>> /\ NewHandler.busy = <<>>
    BY DEF NewHandler
  <1> QED BY <1>1 DEF Softer

\* The next event of handler l0 is taken.
Draws(L, L2, l0) ==
  /\ L[l0].ev # <<>>
  /\ L2[l0].ev = Tail(L[l0].ev)
  /\ \A l \in Links : L2[l].inq = L[l].inq /\ L2[l].busy = L[l].busy
  /\ \A l \in Links : l # l0 => L2[l].ev = L[l].ev

\* A chunk leaves with the report of its acknowledgement, no other does.
LEMMA DrawFewer ==
  ASSUME NEW N, NEW L \in [Links -> Handler], NEW L2, NEW l0 \in Links, NEW p,
         Draws(L, L2, l0)
  PROVE  /\ Fewer(N, L, N, L2, p)
         /\ \A id : ~(l0[1] = p /\ Acked(Head(L[l0].ev), id))
              => Lasts(N, L, N, L2, p, id)
         /\ \A id : l0[1] = p /\ Sole(N, L, p) /\ Acked(Head(L[l0].ev), id)
              => ~On(N, L2, p, id)
  <1> DEFINE z == L[l0].ev
             y == Tail(z)
  <1>1. z \in Seq(Event) /\ z # <<>>
    BY DEF Handler, Draws
  <1>2. \A i \in DOMAIN y : i \in Nat /\ i >= 1 /\ i + 1 \in DOMAIN z /\ y[i] = z[i + 1]
    BY <1>1, TailAt, Zenon
  <1>3. 1 \in DOMAIN z /\ Head(z) = z[1]
    BY <1>1, TailAt, Zenon
  <1>4. \A i \in DOMAIN z : i = 1 \/ (i - 1 \in DOMAIN y /\ y[i - 1] = z[i])
    BY <1>1
  <1>5. ASSUME NEW id, NEW k, NEW l, NEW i, Tok(N, L2, p, id, k, l, i)
        PROVE  \/ /\ k # "ev" \/ l # l0
                  /\ Tok(N, L, p, id, k, l, i)
               \/ /\ k = "ev" /\ l = l0 /\ i \in Nat /\ i >= 1
                  /\ Tok(N, L, p, id, k, l, i + 1)
    <2>1. CASE k = "ev" /\ l = l0
      <3>1. i \in DOMAIN y /\ Acked(y[i], id) /\ l0[1] = p
        BY <1>5, <2>1 DEF Tok, Draws
      <3> QED BY <1>2, <2>1, <3>1 DEF Tok
    <2>2. CASE ~(k = "ev" /\ l = l0)
      BY <1>5, <2>2 DEF Tok, Draws
    <2> QED BY <2>1, <2>2
  <1>7. \A id, i : ~Tok(N, L2, p, id, "none", l0, i)
    BY DEF Tok
  <1>8. Shift(N, L, N, L2, p, "ev", l0, "none", l0, 1)
    BY <1>5, <1>7 DEF Shift
  <1>9. Fewer(N, L, N, L2, p)
    BY <1>8, ShiftFewer
  <1>10. ASSUME NEW id, ~(l0[1] = p /\ Acked(Head(z), id)),
                NEW k, NEW l, NEW i, Tok(N, L, p, id, k, l, i)
         PROVE  \E j : Tok(N, L2, p, id, k, l, j)
    <2>1. CASE k = "ev" /\ l = l0
      <3>1. i \in DOMAIN z /\ Acked(z[i], id) /\ l0[1] = p
        BY <1>10, <2>1 DEF Tok
      <3>2. i - 1 \in DOMAIN y /\ y[i - 1] = z[i]
        BY <1>3, <1>4, <1>10, <3>1
      <3>3. Tok(N, L2, p, id, k, l, i - 1)
        BY <2>1, <3>1, <3>2 DEF Tok, Draws
      <3> QED BY <3>3
    <2>2. CASE ~(k = "ev" /\ l = l0)
      BY <1>10, <2>2 DEF Tok, Draws
    <2> QED BY <2>1, <2>2
  <1>11. ASSUME NEW id, l0[1] = p, Sole(N, L, p), Acked(Head(z), id),
                NEW k, NEW l, NEW i, Tok(N, L2, p, id, k, l, i)
         PROVE  FALSE
    <2>1. Tok(N, L, p, id, "ev", l0, 1)
      BY <1>3, <1>11 DEF Tok
    <2>2. \A k2, l2, i2 : Tok(N, L, p, id, k2, l2, i2)
            => k2 = "ev" /\ l2 = l0 /\ i2 = 1
      BY <1>11, <2>1 DEF Sole
    <2> QED BY <1>5, <1>11, <2>2
  <1> HIDE DEF z, y
  <1> QED BY <1>9, <1>10, <1>11 DEF Lasts, On, z

\* poll takes a message and no handler gets it.
LEMMA PopFewer ==
  ASSUME NEW N \in [Peers -> Behaviour], NEW L, NEW N2, NEW a \in Peers,
         NEW p \in Peers, Pops(N, N2, a)
  PROVE  /\ Fewer(N, L, N2, L, p)
         /\ \A id : ~(/\ p = a
                      /\ Chunky(Head(N[a].pending_handler_event).msg, id))
              => Lasts(N, L, N2, L, p, id)
  <1> DEFINE z == N[a].pending_handler_event
             y == Tail(z)
  <1>1. z \in Seq(Notification) /\ z # <<>>
    BY DEF Behaviour, Pops
  <1>2. \A i \in DOMAIN y : i \in Nat /\ i >= 1 /\ i + 1 \in DOMAIN z /\ y[i] = z[i + 1]
    BY <1>1, TailAt, Zenon
  <1>3. 1 \in DOMAIN z /\ Head(z) = z[1]
    BY <1>1, TailAt, Zenon
  <1>4. \A i \in DOMAIN z : i = 1 \/ (i - 1 \in DOMAIN y /\ y[i - 1] = z[i])
    BY <1>1
  <1>5. CASE p # a
    <2>1. /\ Fainter(N[p].pending_handler_event, N2[p].pending_handler_event)
          /\ Fainter(N2[p].pending_handler_event, N[p].pending_handler_event)
      BY <1>5 DEF Pops, Fainter
    <2>2. Fewer(N, L, N2, L, p) /\ Fewer(N2, L, N, L, p)
      BY <2>1, FainterFewer
    <2> QED BY <2>2 DEF Fewer, Lasts
  <1>6. CASE p = a
    <2>1. ASSUME NEW id, NEW k, NEW l, NEW i, Tok(N2, L, p, id, k, l, i)
          PROVE  \/ k # "queue" /\ Tok(N, L, p, id, k, l, i)
                 \/ /\ k = "queue" /\ l = p /\ i \in Nat /\ i >= 1
                    /\ Tok(N, L, p, id, k, l, i + 1)
      <3>1. CASE k = "queue"
        <4>1. i \in DOMAIN y /\ Chunky(y[i].msg, id) /\ l = p
          BY <1>6, <2>1, <3>1 DEF Tok, Pops
        <4> QED BY <1>2, <1>6, <3>1, <4>1 DEF Tok
      <3>2. CASE k # "queue"
        BY <2>1, <3>2 DEF Tok
      <3> QED BY <3>1, <3>2
    <2>2. \A id, i : ~Tok(N2, L, p, id, "none", p, i)
      BY DEF Tok
    <2>3. Shift(N, L, N2, L, p, "queue", p, "none", p, 1)
      BY <2>1, <2>2 DEF Shift
    <2>4. Fewer(N, L, N2, L, p)
      BY <2>3, ShiftFewer
    <2>5. ASSUME NEW id, ~Chunky(Head(z).msg, id),
                 NEW k, NEW l, NEW i, Tok(N, L, p, id, k, l, i)
          PROVE  \E j : Tok(N2, L, p, id, k, l, j)
      <3>1. CASE k = "queue"
        <4>1. i \in DOMAIN z /\ Chunky(z[i].msg, id) /\ l = p
          BY <1>6, <2>5, <3>1 DEF Tok
        <4>2. i - 1 \in DOMAIN y /\ y[i - 1] = z[i]
          BY <1>3, <1>4, <2>5, <4>1
        <4>3. Tok(N2, L, p, id, k, l, i - 1)
          BY <1>6, <3>1, <4>1, <4>2 DEF Tok, Pops
        <4> QED BY <4>3
      <3>2. CASE k # "queue"
        BY <2>5, <3>2 DEF Tok
      <3> QED BY <3>1, <3>2
    <2> HIDE DEF z, y
    <2> QED BY <1>6, <2>4, <2>5 DEF Lasts, On, z
  <1> QED BY <1>5, <1>6

\* Handler l0 gets message m.
Enters(L, L2, l0, m) ==
  /\ L2[l0].inq = Append(L[l0].inq, m)
  /\ \A l \in Links : l # l0 => L2[l].inq = L[l].inq
  /\ \A l \in Links : L2[l].busy = L[l].busy /\ L2[l].ev = L[l].ev

\* poll takes a message to a handler.
LEMMA PostFewer ==
  ASSUME NEW N \in [Peers -> Behaviour], NEW L \in [Links -> Handler],
         NEW N2, NEW L2, NEW a \in Peers, NEW l0 \in Links, l0[1] = a,
         NEW p \in Peers, Pops(N, N2, a),
         Enters(L, L2, l0, Head(N[a].pending_handler_event).msg)
  PROVE  /\ Fewer(N, L, N2, L2, p)
         /\ \A id : Lasts(N, L, N2, L2, p, id)
  <1> DEFINE z == N[a].pending_handler_event
             y == Tail(z)
             m == Head(z).msg
             u == L[l0].inq
             n == Len(u) + 1
             v == Append(u, m)
  <1>1. z \in Seq(Notification) /\ z # <<>> /\ u \in Seq(Msg)
    BY DEF Behaviour, Handler, Pops
  <1>2. \A i \in DOMAIN y : i \in Nat /\ i >= 1 /\ i + 1 \in DOMAIN z /\ y[i] = z[i + 1]
    BY <1>1, TailAt, Zenon
  <1>3. 1 \in DOMAIN z /\ Head(z) = z[1]
    BY <1>1, TailAt, Zenon
  <1>4. \A i \in DOMAIN z : i = 1 \/ (i - 1 \in DOMAIN y /\ y[i - 1] = z[i])
    BY <1>1
  <1>5. \A i \in DOMAIN v : \/ i \in DOMAIN u /\ i # n /\ v[i] = u[i]
                            \/ i = n /\ v[i] = m
    BY <1>1, AppendAt, Zenon
  <1>6. /\ n \in DOMAIN v /\ v[n] = m
        /\ \A i \in DOMAIN u : i \in DOMAIN v /\ v[i] = u[i]
    BY <1>1
  <1> HIDE DEF n
  <1>7. CASE p # a
    <2>1. \A l \in Links : l[1] = p => Softer(L[l], L2[l]) /\ Softer(L2[l], L[l])
      BY <1>7 DEF Enters, Softer
    <2>2. Fewer(N2, L, N2, L2, p) /\ Fewer(N2, L2, N2, L, p)
      BY <2>1, SofterFewer
    <2>3. Fewer(N, L, N2, L, p) /\ \A id : Lasts(N, L, N2, L, p, id)
      BY <1>7, PopFewer
    <2> QED BY <2>2, <2>3 DEF Fewer, Lasts
  <1>8. CASE p = a
    <2>1. ASSUME NEW id, NEW k, NEW l, NEW i, Tok(N2, L2, p, id, k, l, i)
          PROVE  \/ /\ k # "queue" /\ ~(k = "inq" /\ l = l0 /\ i = n)
                    /\ Tok(N, L, p, id, k, l, i)
                 \/ /\ k = "queue" /\ l = p /\ i \in Nat /\ i >= 1
                    /\ Tok(N, L, p, id, k, l, i + 1)
                 \/ /\ k = "inq" /\ l = l0 /\ i = n
                    /\ Tok(N, L, p, id, "queue", p, 1)
      <3>1. CASE k = "queue"
        <4>1. i \in DOMAIN y /\ Chunky(y[i].msg, id) /\ l = p
          BY <1>8, <2>1, <3>1 DEF Tok, Pops
        <4> QED BY <1>2, <1>8, <3>1, <4>1 DEF Tok
      <3>2. CASE k = "inq" /\ l = l0
        <4>1. i \in DOMAIN v /\ Chunky(v[i], id)
          BY <1>8, <2>1, <3>2 DEF Tok, Enters
        <4>2. CASE i \in DOMAIN u /\ i # n /\ v[i] = u[i]
          BY <1>8, <3>2, <4>1, <4>2 DEF Tok
        <4>3. CASE i = n /\ v[i] = m
          BY <1>3, <1>8, <3>2, <4>1, <4>3 DEF Tok
        <4> QED BY <1>5, <4>1, <4>2, <4>3
      <3>3. CASE k # "queue" /\ ~(k = "inq" /\ l = l0)
        BY <2>1, <3>3 DEF Tok, Enters
      <3> QED BY <3>1, <3>2, <3>3
    <2>2. Shift(N, L, N2, L2, p, "queue", p, "inq", l0, n)
      BY <2>1 DEF Shift
    <2>3. Fewer(N, L, N2, L2, p)
      BY <2>2, ShiftFewer
    <2>4. ASSUME NEW id, NEW k, NEW l, NEW i, Tok(N, L, p, id, k, l, i)
          PROVE  On(N2, L2, p, id)
      <3>1. CASE k = "queue" /\ i # 1
        <4>1. i \in DOMAIN z /\ Chunky(z[i].msg, id) /\ l = p
          BY <1>8, <2>4, <3>1 DEF Tok
        <4>2. i - 1 \in DOMAIN y /\ y[i - 1] = z[i]
          BY <1>4, <3>1, <4>1
        <4>3. Tok(N2, L2, p, id, k, l, i - 1)
          BY <1>8, <3>1, <4>1, <4>2 DEF Tok, Pops
        <4> QED BY <4>3 DEF On
      <3>2. CASE k = "queue" /\ i = 1
        <4>1. Chunky(m, id)
          BY <1>3, <1>8, <2>4, <3>2 DEF Tok
        <4>2. Tok(N2, L2, p, id, "inq", l0, n)
          BY <1>6, <1>8, <4>1 DEF Tok, Enters
        <4> QED BY <4>2 DEF On
      <3>3. CASE k # "queue"
        <4>1. Tok(N2, L2, p, id, k, l, i)
          BY <1>6, <2>4, <3>3 DEF Tok, Enters
        <4> QED BY <4>1 DEF On
      <3> QED BY <3>1, <3>2, <3>3
    <2>5. \A id : On(N, L, p, id) => On(N2, L2, p, id)
      BY <2>4, Zenon DEF On
    <2> QED BY <2>3, <2>5 DEF Lasts
  <1> QED BY <1>7, <1>8

\* Handler l0 writes the next message to its stream.
Leaves(L, L2, l0) ==
  /\ L[l0].busy = <<>> /\ L[l0].inq # <<>>
  /\ L2[l0].inq = Tail(L[l0].inq) /\ L2[l0].busy = <<Head(L[l0].inq)>>
  /\ \A l \in Links : l # l0 => L2[l].inq = L[l].inq /\ L2[l].busy = L[l].busy
  /\ \A l \in Links : L2[l].ev = L[l].ev

\* The chunk, if it is one, goes from the inbox to the stream.
LEMMA LeaveFewer ==
  ASSUME NEW N, NEW L \in [Links -> Handler], NEW L2, NEW l0 \in Links,
         NEW p, Leaves(L, L2, l0)
  PROVE  Fewer(N, L, N, L2, p) /\ \A id : Lasts(N, L, N, L2, p, id)
  <1> DEFINE z == L[l0].inq
             y == Tail(z)
             h == <<Head(z)>>
  <1>1. z \in Seq(Msg) /\ z # <<>>
    BY DEF Handler, Leaves
  <1>2. \A i \in DOMAIN y : i \in Nat /\ i >= 1 /\ i + 1 \in DOMAIN z /\ y[i] = z[i + 1]
    BY <1>1, TailAt, Zenon
  <1>3. 1 \in DOMAIN z /\ Head(z) = z[1] /\ h # <<>> /\ h[1] = z[1]
    BY <1>1
  <1>4. \A i \in DOMAIN z : i = 1 \/ (i - 1 \in DOMAIN y /\ y[i - 1] = z[i])
    BY <1>1
  <1>5. L2[l0].inq = y /\ L2[l0].busy = h /\ L[l0].busy = <<>>
    BY DEF Leaves
  <1> HIDE DEF y, h
  <1>6. ASSUME NEW id, NEW k, NEW l, NEW i, Tok(N, L2, p, id, k, l, i)
        PROVE  \/ /\ k # "inq" \/ l # l0
                  /\ ~(k = "busy" /\ l = l0 /\ i = 1)
                  /\ Tok(N, L, p, id, k, l, i)
               \/ /\ k = "inq" /\ l = l0 /\ i \in Nat /\ i >= 1
                  /\ Tok(N, L, p, id, k, l, i + 1)
               \/ /\ k = "busy" /\ l = l0 /\ i = 1
                  /\ Tok(N, L, p, id, "inq", l0, 1)
    <2>1. CASE k = "inq" /\ l = l0
      <3>1. i \in DOMAIN y /\ Chunky(y[i], id) /\ l0[1] = p
        BY <1>5, <1>6, <2>1 DEF Tok
      <3> QED BY <1>2, <2>1, <3>1 DEF Tok
    <2>2. CASE k = "busy" /\ l = l0
      <3>1. i = 1 /\ Chunky(h[1], id) /\ l0[1] = p
        BY <1>5, <1>6, <2>2 DEF Tok
      <3> QED BY <1>3, <2>2, <3>1 DEF Tok
    <2>3. CASE ~(k \in {"inq", "busy"} /\ l = l0)
      BY <1>6, <2>3 DEF Tok, Leaves
    <2> QED BY <2>1, <2>2, <2>3
  <1>7. Shift(N, L, N, L2, p, "inq", l0, "busy", l0, 1)
    BY <1>6 DEF Shift
  <1>8. Fewer(N, L, N, L2, p)
    BY <1>7, ShiftFewer
  <1>9. ASSUME NEW id, NEW k, NEW l, NEW i, Tok(N, L, p, id, k, l, i)
        PROVE  On(N, L2, p, id)
    <2>1. CASE k = "inq" /\ l = l0 /\ i # 1
      <3>1. i \in DOMAIN z /\ Chunky(z[i], id) /\ l0[1] = p
        BY <1>9, <2>1 DEF Tok
      <3>2. i - 1 \in DOMAIN y /\ y[i - 1] = z[i]
        BY <1>4, <2>1, <3>1
      <3>3. Tok(N, L2, p, id, k, l, i - 1)
        BY <1>5, <2>1, <3>1, <3>2 DEF Tok
      <3> QED BY <3>3 DEF On
    <2>2. CASE k = "inq" /\ l = l0 /\ i = 1
      <3>1. Chunky(z[1], id) /\ l0[1] = p
        BY <1>9, <2>2 DEF Tok
      <3>2. Tok(N, L2, p, id, "busy", l0, 1)
        BY <1>3, <1>5, <3>1 DEF Tok
      <3> QED BY <3>2 DEF On
    <2>3. CASE ~(k = "inq" /\ l = l0)
      <3>1. Tok(N, L2, p, id, k, l, i)
        BY <1>5, <1>9, <2>3 DEF Tok, Leaves
      <3> QED BY <3>1 DEF On
    <2> QED BY <2>1, <2>2, <2>3
  <1>10. \A id : On(N, L, p, id) => On(N, L2, p, id)
    BY <1>9, Zenon DEF On
  <1> QED BY <1>8, <1>10 DEF Lasts

\* The message that handler l0 has sent is acknowledged.
Ends(L, L2, l0, e) ==
  /\ L[l0].busy # <<>> /\ L2[l0].busy = <<>>
  /\ IF L[l0].busy[1].type = "FileChunk"
       THEN L2[l0].ev = Append(L[l0].ev, e) ELSE L2[l0].ev = L[l0].ev
  /\ e.type = "SendProgressed" /\ e.id = L[l0].busy[1].id
  /\ \A l \in Links : l # l0 => L2[l].ev = L[l].ev /\ L2[l].busy = L[l].busy
  /\ \A l \in Links : L2[l].inq = L[l].inq

\* The chunk, if it is one, becomes the report of its acknowledgement.
LEMMA EndFewer ==
  ASSUME NEW N, NEW L \in [Links -> Handler], NEW L2, NEW l0 \in Links,
         NEW p, NEW e, Ends(L, L2, l0, e)
  PROVE  Fewer(N, L, N, L2, p) /\ \A id : Lasts(N, L, N, L2, p, id)
  <1> DEFINE m == L[l0].busy[1]
             u == L[l0].ev
             n == Len(u) + 1
             v == Append(u, e)
  <1>1. u \in Seq(Event)
    BY DEF Handler
  <1>2. \A i \in DOMAIN v : \/ i \in DOMAIN u /\ i # n /\ v[i] = u[i]
                            \/ i = n /\ v[i] = e
    BY <1>1, AppendAt, Zenon
  <1>3. /\ n \in DOMAIN v /\ v[n] = e
        /\ \A i \in DOMAIN u : i \in DOMAIN v /\ v[i] = u[i]
    BY <1>1
  <1>4. /\ L2[l0].busy = <<>> /\ L[l0].busy # <<>>
        /\ m.type = "FileChunk" => L2[l0].ev = v
        /\ m.type # "FileChunk" => L2[l0].ev = u
        /\ \A id : Acked(e, id) <=> e.id = id
        /\ e.id = m.id
    BY DEF Ends, Acked
  <1> HIDE DEF m, v, n
  <1>5. \A id, i : Tok(N, L, p, id, "busy", l0, i)
                     <=> (l0[1] = p /\ i = 1 /\ Chunky(m, id))
    BY <1>4 DEF Tok, m
  <1>6. \A id, i : ~Tok(N, L2, p, id, "busy", l0, i)
    BY <1>4 DEF Tok
  <1>7. \A id, k, l, i : ~(k \in {"ev", "busy"} /\ l = l0) =>
          (Tok(N, L, p, id, k, l, i) <=> Tok(N, L2, p, id, k, l, i))
    BY DEF Tok, Ends
  <1>8. CASE m.type = "FileChunk"
    <2>1. ASSUME NEW id, NEW k, NEW l, NEW i, Tok(N, L2, p, id, k, l, i)
          PROVE  \/ /\ k # "busy" \/ l # l0
                    /\ ~(k = "ev" /\ l = l0 /\ i = n)
                    /\ Tok(N, L, p, id, k, l, i)
                 \/ /\ k = "ev" /\ l = l0 /\ i = n
                    /\ Tok(N, L, p, id, "busy", l0, 1)
      <3>1. CASE k = "ev" /\ l = l0
        <4>1. i \in DOMAIN v /\ Acked(v[i], id) /\ l0[1] = p
          BY <1>4, <1>8, <2>1, <3>1 DEF Tok
        <4>2. CASE i \in DOMAIN u /\ i # n /\ v[i] = u[i]
          BY <3>1, <4>1, <4>2 DEF Tok
        <4>3. CASE i = n /\ v[i] = e
          <5>1. Chunky(m, id)
            BY <1>4, <1>8, <4>1, <4>3 DEF Chunky
          <5> QED BY <1>5, <3>1, <4>1, <4>3, <5>1
        <4> QED BY <1>2, <4>1, <4>2, <4>3
      <3>2. CASE ~(k = "ev" /\ l = l0)
        BY <1>6, <1>7, <2>1, <3>2
      <3> QED BY <3>1, <3>2
    <2>2. Shift(N, L, N, L2, p, "busy", l0, "ev", l0, n)
      BY <2>1 DEF Shift
    <2>3. Fewer(N, L, N, L2, p)
      BY <2>2, ShiftFewer
    <2>4. ASSUME NEW id, NEW k, NEW l, NEW i, Tok(N, L, p, id, k, l, i)
          PROVE  On(N, L2, p, id)
      <3>1. CASE k = "busy" /\ l = l0
        <4>1. Chunky(m, id) /\ l0[1] = p
          BY <1>5, <2>4, <3>1
        <4>2. Tok(N, L2, p, id, "ev", l0, n)
          BY <1>3, <1>4, <1>8, <4>1 DEF Tok, Chunky
        <4> QED BY <4>2 DEF On
      <3>2. CASE k = "ev" /\ l = l0
        <4>1. Tok(N, L2, p, id, "ev", l0, i)
          BY <1>3, <1>4, <1>8, <2>4, <3>2 DEF Tok
        <4> QED BY <4>1 DEF On
      <3>3. CASE ~(k \in {"ev", "busy"} /\ l = l0)
        BY <1>7, <2>4, <3>3 DEF On
      <3> QED BY <3>1, <3>2, <3>3
    <2>5. \A id : On(N, L, p, id) => On(N, L2, p, id)
      BY <2>4, Zenon DEF On
    <2> QED BY <2>3, <2>5 DEF Lasts
  <1>9. CASE m.type # "FileChunk"
    <2>1. \A id, k, l, i : Tok(N, L, p, id, k, l, i) <=> Tok(N, L2, p, id, k, l, i)
      <3>1. \A id, i : Tok(N, L, p, id, "ev", l0, i) <=> Tok(N, L2, p, id, "ev", l0, i)
        BY <1>4, <1>9 DEF Tok
      <3>2. \A id, i : ~Tok(N, L, p, id, "busy", l0, i)
        BY <1>5, <1>9 DEF Chunky
      <3> QED BY <1>6, <1>7, <3>1, <3>2
    <2>2. Fewer(N, L, N, L2, p) /\ Fewer(N, L2, N, L, p)
      BY <2>1, StayFewer
    <2> QED BY <2>2 DEF Fewer, Lasts
  <1> QED BY <1>8, <1>9

\* A chunk in the queue of b is for the remote of its send.
Addressed(b) ==
  \A i \in DOMAIN b.pending_handler_event : \A s \in b.ongoing_send :
    Chunky(b.pending_handler_event[i].msg, s.local_send_id)
      => b.pending_handler_event[i].to = s.remote

\* Chunks of p are apart, of sends that were requested and are not pending.
PacedAt(N, L, p) ==
  /\ Sole(N, L, p)
  /\ \A id : On(N, L, p, id) => id \in Nat /\ id < N[p].send_counter
  /\ \A s \in N[p].pending_send : ~On(N, L, p, s.local_send_id)
  /\ Addressed(N[p])

\* Every ongoing send of p has a chunk on its way.
FedAt(N, L, p) == \A s \in N[p].ongoing_send : On(N, L, p, s.local_send_id)

\* A method that starts no send and queues no chunk.
Docile(b, a) ==
  /\ {b.send_counter, a.send_counter} \subseteq Nat
  /\ b.send_counter <= a.send_counter
  /\ \A s \in a.pending_send :
       \/ s \in b.pending_send
       \/ s.local_send_id = b.send_counter
  /\ a.ongoing_send \subseteq b.ongoing_send
  /\ \A i \in DOMAIN a.pending_handler_event :
       a.pending_handler_event[i].msg.type = "FileChunk" =>
         \E j \in DOMAIN b.pending_handler_event :
           b.pending_handler_event[j] = a.pending_handler_event[i]

\* Such a method, while chunks move.
LEMMA DocilePaced ==
  ASSUME NEW N, NEW L, NEW N2, NEW L2, NEW p,
         PacedAt(N, L, p), Docile(N[p], N2[p]), Fewer(N, L, N2, L2, p)
  PROVE  PacedAt(N2, L2, p)
  <1>1. Sole(N2, L2, p)
    BY DEF PacedAt, Fewer
  <1>2. \A id : On(N2, L2, p, id) => id \in Nat /\ id < N[p].send_counter
    BY DEF PacedAt, Fewer
  <1>3. \A id : On(N2, L2, p, id) => id \in Nat /\ id < N2[p].send_counter
    BY <1>2 DEF Docile
  <1>4. ASSUME NEW s \in N2[p].pending_send, On(N2, L2, p, s.local_send_id)
        PROVE  FALSE
    <2>1. CASE s \in N[p].pending_send
      BY <1>4, <2>1 DEF PacedAt, Fewer
    <2>2. CASE s.local_send_id = N[p].send_counter
      BY <1>2, <1>4, <2>2
    <2> QED BY <2>1, <2>2 DEF Docile
  <1>5. Addressed(N2[p])
    BY DEF Addressed, PacedAt, Docile, Chunky
  <1> QED BY <1>1, <1>3, <1>4, <1>5 DEF PacedAt

\* A method that, besides, loses no chunk.
Mute(b, a) ==
  /\ Docile(b, a)
  /\ Fainter(b.pending_handler_event, a.pending_handler_event)
  /\ Fainter(a.pending_handler_event, b.pending_handler_event)

\* A mute method moves no chunk.
LEMMA MuteFewer ==
  ASSUME NEW N, NEW L, NEW N2, NEW p, Mute(N[p], N2[p])
  PROVE  Fewer(N, L, N2, L, p) /\ \A id : Lasts(N, L, N2, L, p, id)
  <1>1. Fewer(N, L, N2, L, p) /\ Fewer(N2, L, N, L, p)
    BY FainterFewer DEF Mute
  <1> QED BY <1>1 DEF Fewer, Lasts

\* A mute method runs at p after chunks have moved.
LEMMA MuteStep ==
  ASSUME NEW N, NEW L, NEW N2, NEW L2, NEW p,
         Mute(N[p], N2[p]), Fewer(N, L, N, L2, p)
  PROVE  /\ PacedAt(N, L, p) => PacedAt(N2, L2, p)
         /\ /\ FedAt(N, L, p)
            /\ \A s \in N2[p].ongoing_send :
                 Lasts(N, L, N, L2, p, s.local_send_id)
            => FedAt(N2, L2, p)
  <1>1. Fewer(N, L2, N2, L2, p) /\ \A id : Lasts(N, L2, N2, L2, p, id)
    BY MuteFewer
  <1>2. Fewer(N, L, N2, L2, p)
    BY <1>1, FewerTrans
  <1>3. Docile(N[p], N2[p])
    BY DEF Mute
  <1>4. PacedAt(N, L, p) => PacedAt(N2, L2, p)
    BY <1>2, <1>3, DocilePaced
  <1>5. ASSUME FedAt(N, L, p), NEW s \in N2[p].ongoing_send,
               Lasts(N, L, N, L2, p, s.local_send_id)
        PROVE  On(N2, L2, p, s.local_send_id)
    <2>1. s \in N[p].ongoing_send
      BY <1>3 DEF Docile
    <2> QED BY <1>1, <1>5, <2>1 DEF FedAt, Lasts
  <1> QED BY <1>4, <1>5 DEF FedAt

\* progress_ongoing_send: b becomes a with the next chunk of send id to q.
Feeds(b, a, id, q, m) ==
  /\ a.pending_handler_event =
       Append(b.pending_handler_event, [to |-> q, msg |-> m])
  /\ m.type = "FileChunk" /\ m.id = id
  /\ id \in Nat /\ id < b.send_counter /\ a.send_counter = b.send_counter
  /\ a.pending_send \subseteq b.pending_send
  /\ \A s \in a.pending_send : s.local_send_id # id
  /\ \A s \in a.ongoing_send :
       \/ s \in b.ongoing_send /\ s.local_send_id # id
       \/ s.local_send_id = id /\ s.remote = q

\* The next chunk of a send that has none on its way.
LEMMA FeedStep ==
  ASSUME NEW N, NEW L, NEW N2, NEW p, NEW id, NEW q, NEW m,
         N[p] \in Behaviour, Feeds(N[p], N2[p], id, q, m),
         PacedAt(N, L, p), ~On(N, L, p, id)
  PROVE  /\ PacedAt(N2, L, p)
         /\ (\A s \in N[p].ongoing_send :
               s.local_send_id # id => On(N, L, p, s.local_send_id))
            => FedAt(N2, L, p)
  <1> DEFINE z == N[p].pending_handler_event
             h == [to |-> q, msg |-> m]
             n == Len(z) + 1
             y == Append(z, h)
  <1>1. z \in Seq(Notification) /\ N2[p].pending_handler_event = y
    BY DEF Behaviour, Feeds
  <1>2. \A i \in DOMAIN y : \/ i \in DOMAIN z /\ i # n /\ y[i] = z[i]
                            \/ i = n /\ y[i] = h
    BY <1>1, AppendAt, Zenon
  <1>3. /\ n \in DOMAIN y /\ y[n] = h
        /\ \A i \in DOMAIN z : i \in DOMAIN y /\ y[i] = z[i]
    BY <1>1
  <1>4. h.to = q /\ h.msg = m /\ \A j : Chunky(h.msg, j) <=> j = id
    BY DEF Feeds, Chunky
  <1> HIDE DEF z, h, n, y
  <1>5. \A j, k, l, i : Tok(N, L, p, j, k, l, i) => Tok(N2, L, p, j, k, l, i)
    BY <1>1, <1>3 DEF Tok, z
  <1>6. ASSUME NEW j, NEW k, NEW l, NEW i, Tok(N2, L, p, j, k, l, i)
        PROVE  \/ Tok(N, L, p, j, k, l, i)
               \/ k = "queue" /\ l = p /\ i = n /\ j = id
    <2>1. CASE k = "queue"
      <3>1. i \in DOMAIN y /\ Chunky(y[i].msg, j) /\ l = p
        BY <1>1, <1>6, <2>1 DEF Tok
      <3>2. CASE i \in DOMAIN z /\ y[i] = z[i]
        BY <2>1, <3>1, <3>2 DEF Tok, z
      <3>3. CASE i = n /\ y[i] = h
        BY <1>4, <2>1, <3>1, <3>3
      <3> QED BY <1>2, <3>1, <3>2, <3>3
    <2>2. CASE k # "queue"
      BY <1>6, <2>2 DEF Tok
    <2> QED BY <2>1, <2>2
  <1>7. Tok(N2, L, p, id, "queue", p, n)
    BY <1>1, <1>3, <1>4 DEF Tok
  <1>8. \A j : On(N2, L, p, j) <=> (On(N, L, p, j) \/ j = id)
    BY <1>5, <1>6, <1>7 DEF On
  <1>9. Sole(N2, L, p)
    <2> SUFFICES ASSUME NEW j, NEW k, NEW l, NEW i, NEW k2, NEW l2, NEW i2,
                        Tok(N2, L, p, j, k, l, i), Tok(N2, L, p, j, k2, l2, i2)
                 PROVE  k = k2 /\ l = l2 /\ i = i2
      BY DEF Sole
    <2>1. CASE j = id
      <3>1. ~Tok(N, L, p, j, k, l, i) /\ ~Tok(N, L, p, j, k2, l2, i2)
        BY <2>1 DEF On
      <3> QED BY <1>6, <3>1
    <2>2. CASE j # id
      <3>1. Tok(N, L, p, j, k, l, i) /\ Tok(N, L, p, j, k2, l2, i2)
        BY <1>6, <2>2
      <3> QED BY <3>1 DEF PacedAt, Sole
    <2> QED BY <2>1, <2>2
  <1>10. \A j : On(N2, L, p, j) => j \in Nat /\ j < N2[p].send_counter
    BY <1>8 DEF PacedAt, Feeds
  <1>11. \A s \in N2[p].pending_send : ~On(N2, L, p, s.local_send_id)
    BY <1>8 DEF PacedAt, Feeds
  <1>12. ASSUME NEW i \in DOMAIN y, NEW s \in N2[p].ongoing_send,
                Chunky(y[i].msg, s.local_send_id)
         PROVE  y[i].to = s.remote
    <2>1. CASE i \in DOMAIN z /\ y[i] = z[i]
      <3>1. Tok(N, L, p, s.local_send_id, "queue", p, i)
        BY <1>12, <2>1 DEF Tok, z
      <3>2. s.local_send_id # id
        BY <3>1 DEF On
      <3>3. s \in N[p].ongoing_send
        BY <3>2 DEF Feeds
      <3> QED BY <1>12, <2>1, <3>3 DEF PacedAt, Addressed, z
    <2>2. CASE i = n /\ y[i] = h
      <3>1. s.local_send_id = id
        BY <1>4, <1>12, <2>2
      <3>2. \/ s.local_send_id # id
            \/ s.remote = q
        BY DEF Feeds
      <3> QED BY <1>4, <2>2, <3>1, <3>2
    <2> QED BY <1>2, <2>1, <2>2
  <1>13. Addressed(N2[p])
    BY <1>1, <1>12 DEF Addressed
  <1>14. ASSUME \A s \in N[p].ongoing_send :
                  s.local_send_id # id => On(N, L, p, s.local_send_id)
         PROVE  FedAt(N2, L, p)
    BY <1>8, <1>14 DEF FedAt, Feeds
  <1> QED BY <1>9, <1>10, <1>11, <1>13, <1>14 DEF PacedAt

-----------------------------------------------------------------------------
(* What the methods of Behaviour do to chunks. *)

\* What is queued is nothing, or one message that is no chunk.
Quietly(z, y) ==
  \/ y = z
  \/ \E q, m : m.type # "FileChunk" /\ y = Append(z, [to |-> q, msg |-> m])

\* A method that at most queues a message, or requests or ends sends, is mute.
LEMMA QuietlyMute ==
  ASSUME NEW b \in Behaviour, NEW a \in Behaviour,
         Quietly(b.pending_handler_event, a.pending_handler_event),
         b.send_counter <= a.send_counter,
         a.pending_send \subseteq b.pending_send \/
           \A s \in a.pending_send :
             s \in b.pending_send \/ s.local_send_id = b.send_counter,
         a.ongoing_send \subseteq b.ongoing_send
  PROVE  Mute(b, a)
  <1> DEFINE z == b.pending_handler_event
             y == a.pending_handler_event
  <1>1. z \in Seq(Notification) /\ b.send_counter \in Nat /\ a.send_counter \in Nat
    BY DEF Behaviour
  <1>2. ASSUME NEW q, NEW m, m.type # "FileChunk",
               y = Append(z, [to |-> q, msg |-> m])
        PROVE  Fainter(z, y) /\ Fainter(y, z)
    <2> DEFINE h == [to |-> q, msg |-> m]
    <2>1. \A i \in DOMAIN Append(z, h) :
             \/ i \in DOMAIN z /\ i # Len(z) + 1 /\ Append(z, h)[i] = z[i]
             \/ i = Len(z) + 1 /\ Append(z, h)[i] = h
      BY <1>1, AppendAt, Zenon
    <2>2. \A i \in DOMAIN z : i \in DOMAIN Append(z, h) /\ Append(z, h)[i] = z[i]
      BY <1>1
    <2>3. h.msg.type # "FileChunk"
      BY <1>2
    <2> HIDE DEF h, z, y
    <2> QED BY <1>2, <2>1, <2>2, <2>3 DEF Fainter, h
  <1>3. Fainter(z, y) /\ Fainter(y, z)
    BY <1>2 DEF Quietly, Fainter
  <1>4. Docile(b, a)
    BY <1>1, <1>3 DEF Docile, Fainter
  <1> QED BY <1>3, <1>4 DEF Mute

\* No method at all.
LEMMA MuteSame ==
  ASSUME NEW b \in Behaviour
  PROVE  Mute(b, b)
  BY DEF Mute, Docile, Fainter, Behaviour

\* Appending messages that are no chunks.
LEMMA FainterAppend ==
  ASSUME NEW z \in Seq(Notification), NEW y \in Seq(Notification),
         \A i \in DOMAIN y : y[i].msg.type # "FileChunk"
  PROVE  /\ z \o y \in Seq(Notification)
         /\ Fainter(z, z \o y) /\ Fainter(z \o y, z)
  <1>1. \A i \in DOMAIN (z \o y) :
          \/ i \in DOMAIN z /\ (z \o y)[i] = z[i]
          \/ i - Len(z) \in DOMAIN y /\ (z \o y)[i] = y[i - Len(z)]
    OBVIOUS
  <1>2. \A i \in DOMAIN z : i \in DOMAIN (z \o y) /\ (z \o y)[i] = z[i]
    OBVIOUS
  <1>3. z \o y \in Seq(Notification)
    OBVIOUS
  <1> QED BY <1>1, <1>2, <1>3 DEF Fainter

\* Methods that call one another.
LEMMA FainterTrans ==
  ASSUME NEW x, NEW y, NEW z, Fainter(x, y), Fainter(y, z)
  PROVE  Fainter(x, z)
  BY DEF Fainter

\* check_expiry
LEMMA CheckExpiryMute ==
  ASSUME NEW b \in Behaviour, NEW x \in Expiries(b) \cup {NotThrottled}
  PROVE  Mute(b, check_expiry(b, x)) /\ check_expiry(b, x) \in Behaviour
  <1> DEFINE z == b.pending_handler_event
             y1 == CancelSends(x.ps)
             y2 == CancelRecvs(x.pr)
             y3 == CancelSends(x.os)
             y4 == CancelRecvs(x.or)
             a == check_expiry(b, x)
  <1>1. /\ x.ps \in Seq(b.pending_send) /\ x.pr \in Seq(b.pending_recv)
        /\ x.os \in Seq(b.ongoing_send) /\ x.or \in Seq(ongoing_recv_hits(b))
    BY ExpiriesSeq, Zenon
  <1>2. /\ \A s \in b.pending_send : s.remote \in Peers /\ s.local_send_id \in Nat
        /\ \A s \in b.ongoing_send : s.remote \in Peers /\ s.local_send_id \in Nat
        /\ \A r \in b.pending_recv : r.remote \in Peers /\ r.remote_send_id \in Nat
        /\ \A r \in ongoing_recv_hits(b) : r.remote \in Peers
                                           /\ r.remote_send_id \in Nat
    BY DEF Behaviour, PendingSend, OngoingSend, PendingRecv, OngoingRecv,
           ongoing_recv_hits
  <1>3. /\ y1 \in Seq(Notification) /\ y2 \in Seq(Notification)
        /\ y3 \in Seq(Notification) /\ y4 \in Seq(Notification)
    BY <1>1, <1>2, CancelSendsType, CancelRecvsType, Zenon
  <1>4. \A s : \A i \in DOMAIN CancelSends(s) :
          CancelSends(s)[i].msg.type # "FileChunk"
    BY DEF CancelSends, Message
  <1>5. \A s : \A i \in DOMAIN CancelRecvs(s) :
          CancelRecvs(s)[i].msg.type # "FileChunk"
    BY DEF CancelRecvs, Message
  <1>6. /\ \A i \in DOMAIN y1 : y1[i].msg.type # "FileChunk"
        /\ \A i \in DOMAIN y2 : y2[i].msg.type # "FileChunk"
        /\ \A i \in DOMAIN y3 : y3[i].msg.type # "FileChunk"
        /\ \A i \in DOMAIN y4 : y4[i].msg.type # "FileChunk"
    BY <1>4, <1>5
  <1>7. a.pending_handler_event = z \o y1 \o y2 \o y3 \o y4
    BY DEF check_expiry, Behaviour
  <1>8. Shrinks(b, a)
    BY CheckExpiryShrinks
  <1>9. z \in Seq(Notification)
    BY DEF Behaviour
  <1> HIDE DEF z, y1, y2, y3, y4, a
  <1> DEFINE u1 == z \o y1
             u2 == u1 \o y2
             u3 == u2 \o y3
             u4 == u3 \o y4
  <1>10. u1 \in Seq(Notification) /\ Fainter(z, u1) /\ Fainter(u1, z)
    BY <1>3, <1>6, <1>9, FainterAppend
  <1> HIDE DEF u1
  <1>11. u2 \in Seq(Notification) /\ Fainter(u1, u2) /\ Fainter(u2, u1)
    BY <1>3, <1>6, <1>10, FainterAppend
  <1> HIDE DEF u2
  <1>12. u3 \in Seq(Notification) /\ Fainter(u2, u3) /\ Fainter(u3, u2)
    BY <1>3, <1>6, <1>11, FainterAppend
  <1> HIDE DEF u3
  <1>13. Fainter(u3, u4) /\ Fainter(u4, u3)
    BY <1>3, <1>6, <1>12, FainterAppend
  <1>14. a.pending_handler_event = u4
    BY <1>7 DEF u1, u2, u3
  <1> HIDE DEF u4
  <1>15. Fainter(z, u4) /\ Fainter(u4, z)
    <2>1. Fainter(z, u2) /\ Fainter(u2, z)
      BY <1>10, <1>11, FainterTrans
    <2>2. Fainter(u2, u4) /\ Fainter(u4, u2)
      BY <1>12, <1>13, FainterTrans
    <2> QED BY <2>1, <2>2, FainterTrans
  <1>16. b.send_counter \in Nat /\ a.send_counter \in Nat /\ a \in Behaviour
    BY <1>8 DEF Behaviour, Shrinks
  <1>17. Docile(b, a)
    BY <1>8, <1>14, <1>15, <1>16 DEF Docile, Fainter, Shrinks, z
  <1>18. Mute(b, a)
    BY <1>14, <1>15, <1>17 DEF Mute, z
  <1> QED BY <1>16, <1>18 DEF a

-----------------------------------------------------------------------------
(* Every step keeps the invariant. *)

Paced == \A p \in Peers : PacedAt(node, link, p)

\* Nothing has failed so far.
Sound == faults = 0 /\ restarts = 0

Fed == Sound => \A p \in Peers : FedAt(node, link, p)

\* Chunks move or stay while mute methods run.
LEMMA ChunkStep ==
  ASSUME Paced, Fed, Sound' => Sound,
         \A x \in Peers : Mute(node[x], node'[x]),
         \A x \in Peers : Fewer(node, link, node, link', x),
         Sound' => \A x \in Peers : \A s \in node'[x].ongoing_send :
                     Lasts(node, link, node, link', x, s.local_send_id)
  PROVE  Paced' /\ Fed'
  <1>1. ASSUME NEW x \in Peers
        PROVE  PacedAt(node', link', x)
    BY MuteStep DEF Paced
  <1>2. ASSUME Sound', NEW x \in Peers
        PROVE  FedAt(node', link', x)
    <2>1. FedAt(node, link, x)
      BY <1>2 DEF Fed
    <2>2. \A s \in node'[x].ongoing_send :
            Lasts(node, link, node, link', x, s.local_send_id)
      BY <1>2
    <2> QED BY <2>1, <2>2, MuteStep
  <1> QED BY <1>1, <1>2 DEF Paced, Fed

\* One Behaviour changes.
LEMMA SetMute ==
  ASSUME Inv, NEW p \in Peers, NEW b, Set(p, b), Mute(node[p], b)
  PROVE  \A x \in Peers : Mute(node[x], node'[x])
  BY SetAt, InvTypes, MuteSame

\* No Behaviour changes.
LEMMA SameMute ==
  ASSUME Inv, UNCHANGED node
  PROVE  \A x \in Peers : Mute(node[x], node'[x])
  BY InvTypes, MuteSame

\* Nothing moves.
LEMMA SameFewer ==
  ASSUME NEW N, NEW L, NEW p
  PROVE  Fewer(N, L, N, L, p) /\ \A id : Lasts(N, L, N, L, p, id)
  BY DEF Fewer, Lasts

\* Failures are counted and never forgotten.
LEMMA StillSound ==
  ASSUME Inv, UNCHANGED faults \/ Fault, UNCHANGED restarts
  PROVE  /\ Sound' => Sound
         /\ Fault => ~Sound'
  <1>1. faults \in Nat
    BY DEF Inv, GhostType
  <1>2. Fault => faults' # 0
    BY <1>1 DEF Fault
  <1> QED BY <1>2 DEF Sound

\* A mute method runs at p, and that is all.
LEMMA UserChunks ==
  ASSUME Inv, Paced, Fed, UNCHANGED <<connVars, lifeVars>>,
         UNCHANGED faults \/ Fault,
         NEW p \in Peers, NEW b, Set(p, b), Mute(node[p], b)
  PROVE  Paced' /\ Fed'
  <1>1. \A x \in Peers : Mute(node[x], node'[x])
    BY SetMute
  <1>2. UNCHANGED link /\ (Sound' => Sound)
    BY StillSound DEF connVars, lifeVars
  <1>3. \A x \in Peers : /\ Fewer(node, link, node, link', x)
                         /\ \A id : Lasts(node, link, node, link', x, id)
    BY <1>2, SameFewer
  <1> QED BY <1>1, <1>2, <1>3, ChunkStep

\* What one Behaviour has become is a Behaviour.
LEMMA SetType ==
  ASSUME Inv, Inv', NEW p \in Peers, NEW b, Set(p, b)
  PROVE  b \in Behaviour /\ node[p] \in Behaviour
  BY SetAt, GoodNode DEF Inv, NodeInv

\* SendFile
LEMMA SendFileChunks ==
  ASSUME Inv, Inv', Paced, Fed, NEW p \in Peers, NEW q \in Peers,
         NEW f \in Files, SendFile(p, q, f)
  PROVE  Paced' /\ Fed'
  <1> DEFINE b == node[p]
             a == queue_send(b, q, f)
             m == Message("IncomingFile", b.send_counter, <<<<f, FileLen[f]>>>>)
             s == [local_send_id |-> b.send_counter, remote |-> q, file |-> f]
  <1>1. Set(p, a) /\ UNCHANGED <<connVars, lifeVars, faults>>
    BY Zenon DEF SendFile
  <1>2. a \in Behaviour /\ b \in Behaviour
    BY <1>1, SetType, Zenon
  <1>3. /\ a.pending_handler_event =
             Append(b.pending_handler_event, [to |-> q, msg |-> m])
        /\ a.pending_send = b.pending_send \cup {s}
        /\ a.ongoing_send = b.ongoing_send
        /\ a.send_counter = b.send_counter + 1
    BY <1>2 DEF queue_send, next_send_id, Notify, Behaviour
  <1>4. m.type # "FileChunk" /\ s.local_send_id = b.send_counter
        /\ b.send_counter \in Nat
    BY <1>2 DEF Message, Behaviour
  <1> HIDE DEF a, b, m, s
  <1>5. Mute(b, a)
    <2>1. Quietly(b.pending_handler_event, a.pending_handler_event)
      BY <1>3, <1>4, Zenon DEF Quietly
    <2>2. b.send_counter <= a.send_counter
      BY <1>3, <1>4
    <2>3. \A x \in a.pending_send :
            x \in b.pending_send \/ x.local_send_id = b.send_counter
      BY <1>3, <1>4
    <2> QED BY <1>2, <1>3, <2>1, <2>2, <2>3, QuietlyMute
  <1> QED BY <1>1, <1>5, UserChunks DEF b

\* SendFile, when only an id is spent.
LEMMA SendFileNothingChunks ==
  ASSUME Inv, Inv', Paced, Fed, NEW p \in Peers, NEW q \in Peers,
         SendFileNotFound(p, q) \/ SendFileNoMetadata(p, q)
  PROVE  Paced' /\ Fed'
  <1> DEFINE b == node[p]
             a == next_send_id(b)
  <1>1. /\ Set(p, a) /\ UNCHANGED <<connVars, lifeVars>>
        /\ UNCHANGED faults \/ Fault
    BY DEF SendFileNotFound, SendFileNoMetadata
  <1>2. a \in Behaviour /\ b \in Behaviour
    BY <1>1, SetType, Zenon
  <1>3. /\ a.pending_handler_event = b.pending_handler_event
        /\ a.pending_send = b.pending_send
        /\ a.ongoing_send = b.ongoing_send
        /\ a.send_counter = b.send_counter + 1 /\ b.send_counter \in Nat
    BY <1>2 DEF next_send_id, Behaviour
  <1> HIDE DEF a, b
  <1>4. Mute(b, a)
    BY <1>2, <1>3, QuietlyMute DEF Quietly
  <1> QED BY <1>1, <1>4, UserChunks DEF b

\* AcceptFile
LEMMA AcceptFileChunks ==
  ASSUME Inv, Inv', Paced, Fed, NEW p \in Peers, AcceptFile(p)
  PROVE  Paced' /\ Fed'
  <1> DEFINE b == node[p]
             a(r) == accept_pending_recv(b, r)
             m(r) == Message("AcceptFile", r.remote_send_id, <<>>)
  <1>1. PICK r \in b.pending_recv : Set(p, a(r))
    BY DEF AcceptFile
  <1>2. UNCHANGED <<connVars, lifeVars, faults>>
    BY DEF AcceptFile
  <1>3. a(r) \in Behaviour /\ b \in Behaviour
    BY <1>1, SetType, Zenon
  <1>4. /\ a(r).pending_handler_event =
             Append(b.pending_handler_event, [to |-> r.remote, msg |-> m(r)])
        /\ a(r).pending_send = b.pending_send
        /\ a(r).ongoing_send = b.ongoing_send
        /\ a(r).send_counter = b.send_counter /\ b.send_counter \in Nat
    BY <1>3 DEF accept_pending_recv, Notify, Behaviour
  <1>5. m(r).type # "FileChunk"
    BY DEF Message
  <1> HIDE DEF a, b, m
  <1>6. Mute(b, a(r))
    <2>1. Quietly(b.pending_handler_event, a(r).pending_handler_event)
      BY <1>4, <1>5, Zenon DEF Quietly
    <2>2. b.send_counter <= a(r).send_counter
      BY <1>4
    <2> QED BY <1>3, <1>4, <2>1, <2>2, QuietlyMute
  <1> QED BY <1>1, <1>2, <1>6, UserChunks DEF b

\* CancelRecv
LEMMA CancelRecvChunks ==
  ASSUME Inv, Inv', Paced, Fed, NEW p \in Peers, NEW id \in Nat,
         CancelRecv(p, id)
  PROVE  Paced' /\ Fed'
  <1> DEFINE b == node[p]
             a(r) == cancel_recv_by_local_recv_id(b, id, r)
             m(r) == Message("CancelRecv", r.remote_send_id, <<>>)
  <1>1. PICK r \in recv_record(b, id) : Set(p, a(r))
    BY DEF CancelRecv
  <1>2. UNCHANGED <<connVars, lifeVars, faults>>
    BY DEF CancelRecv
  <1>3. a(r) \in Behaviour /\ b \in Behaviour
    BY <1>1, SetType, Zenon
  <1>4. /\ a(r).pending_handler_event =
             Append(b.pending_handler_event, [to |-> r.remote, msg |-> m(r)])
        /\ a(r).pending_send = b.pending_send
        /\ a(r).ongoing_send = b.ongoing_send
        /\ a(r).send_counter = b.send_counter /\ b.send_counter \in Nat
    BY <1>3 DEF cancel_recv_by_local_recv_id, Emit, Notify, Behaviour
  <1>5. m(r).type # "FileChunk"
    BY DEF Message
  <1> HIDE DEF a, b, m
  <1>6. Mute(b, a(r))
    <2>1. Quietly(b.pending_handler_event, a(r).pending_handler_event)
      BY <1>4, <1>5, Zenon DEF Quietly
    <2>2. b.send_counter <= a(r).send_counter
      BY <1>4
    <2> QED BY <1>3, <1>4, <2>1, <2>2, QuietlyMute
  <1> QED BY <1>1, <1>2, <1>6, UserChunks DEF b

\* CancelSend
LEMMA CancelSendChunks ==
  ASSUME Inv, Inv', Paced, Fed, NEW p \in Peers, NEW id \in Nat,
         CancelSend(p, id)
  PROVE  Paced' /\ Fed'
  <1> DEFINE b == node[p]
             a(s) == cancel_send_by_local_send_id(b, s)
             m(s) == Message("CancelSend", s.local_send_id, <<>>)
  <1>1. PICK s \in send_record(b, id) : Set(p, a(s))
    BY DEF CancelSend
  <1>2. UNCHANGED <<connVars, lifeVars, faults>>
    BY DEF CancelSend
  <1>3. a(s) \in Behaviour /\ b \in Behaviour
    BY <1>1, SetType, Zenon
  <1>4. /\ a(s).pending_handler_event =
             Append(b.pending_handler_event, [to |-> s.remote, msg |-> m(s)])
        /\ a(s).pending_send = b.pending_send \ {s}
        /\ a(s).ongoing_send = b.ongoing_send \ {s}
        /\ a(s).send_counter = b.send_counter /\ b.send_counter \in Nat
    BY <1>3 DEF cancel_send_by_local_send_id, Notify, Behaviour
  <1>5. m(s).type # "FileChunk"
    BY DEF Message
  <1> HIDE DEF a, b, m
  <1>6. Mute(b, a(s))
    <2>1. Quietly(b.pending_handler_event, a(s).pending_handler_event)
      BY <1>4, <1>5, Zenon DEF Quietly
    <2>2. b.send_counter <= a(s).send_counter
      BY <1>4
    <2> QED BY <1>3, <1>4, <2>1, <2>2, QuietlyMute
  <1> QED BY <1>1, <1>2, <1>6, UserChunks DEF b

\* Taking an event.
LEMMA TakeEventDraws ==
  ASSUME Inv, NEW p \in Peers, NEW q \in Peers, NEW c \in Conns, NEW t,
         HasEvent(p, q, c, t), TakeEvent(p, q, c)
  PROVE  /\ <<p, q, c>> \in Links
         /\ Draws(link, link', <<p, q, c>>)
         /\ NextEvent(p, q, c) = Head(link[<<p, q, c>>].ev)
         /\ NextEvent(p, q, c).type = t
  <1> DEFINE l == <<p, q, c>>
             e == Tail(link[l].ev)
  <1>1. l \in Links /\ link \in [Links -> Handler]
    BY InvTypes DEF Links
  <1>2. link' = [link EXCEPT ![l].ev = e] /\ link[l].ev # <<>>
    BY DEF TakeEvent, HasEvent
  <1> HIDE DEF e
  <1>3. /\ link'[l].ev = e
        /\ \A j \in Links : link'[j].inq = link[j].inq /\ link'[j].busy = link[j].busy
        /\ \A j \in Links : j # l => link'[j].ev = link[j].ev
    <2> HIDE DEF l
    <2> QED BY <1>1, <1>2 DEF Handler
  <1>4. Draws(link, link', l)
    BY <1>2, <1>3 DEF Draws, e
  <1> QED BY <1>1, <1>4 DEF NextEvent, HasEvent

\* An event that is no acknowledgement makes p run a mute method.
LEMMA EventChunks ==
  ASSUME Inv, Paced, Fed, NEW p \in Peers, NEW q \in Peers, NEW c \in Conns,
         NEW t, HasEvent(p, q, c, t), TakeEvent(p, q, c), t # "SendProgressed",
         UNCHANGED faults \/ Fault, UNCHANGED lifeVars,
         \A x \in Peers : Mute(node[x], node'[x])
  PROVE  Paced' /\ Fed'
  <1> DEFINE l == <<p, q, c>>
  <1>1. /\ l \in Links /\ Draws(link, link', l)
        /\ \A id : ~Acked(Head(link[l].ev), id)
    BY TakeEventDraws DEF Acked
  <1> HIDE DEF l
  <1>2. \A x \in Peers : /\ Fewer(node, link, node, link', x)
                         /\ \A id : Lasts(node, link, node, link', x, id)
    BY <1>1, InvTypes, DrawFewer
  <1>3. Sound' => Sound
    BY StillSound DEF lifeVars
  <1> QED BY <1>2, <1>3, ChunkStep

\* The same, from what the method assigns.
LEMMA QuietEvent ==
  ASSUME Inv, Inv', Paced, Fed, NEW p \in Peers, NEW q \in Peers,
         NEW c \in Conns,
         NEW t, HasEvent(p, q, c, t), TakeEvent(p, q, c), t # "SendProgressed",
         UNCHANGED faults \/ Fault, UNCHANGED lifeVars, NEW a, Set(p, a),
         a.pending_handler_event = node[p].pending_handler_event,
         a.pending_send \subseteq node[p].pending_send,
         a.ongoing_send \subseteq node[p].ongoing_send,
         a.send_counter = node[p].send_counter
  PROVE  Paced' /\ Fed'
  <1>1. a \in Behaviour /\ node[p] \in Behaviour
    BY SetType, Zenon
  <1>2. node[p].send_counter <= a.send_counter
    BY <1>1 DEF Behaviour
  <1>3. Mute(node[p], a)
    BY <1>1, <1>2, QuietlyMute DEF Quietly
  <1>4. \A x \in Peers : Mute(node[x], node'[x])
    BY <1>3, SetMute
  <1> QED BY <1>4, EventChunks

\* OnIncomingFile
LEMMA OnIncomingFileChunks ==
  ASSUME Inv, Inv', Paced, Fed, NEW p \in Peers, NEW q \in Peers,
         NEW c \in Conns, OnIncomingFile(p, q, c)
  PROVE  Paced' /\ Fed'
  <1> DEFINE e == NextEvent(p, q, c)
             a == on_new_pending_recv(node[p], q, e.id, e.body[1][1],
                                      e.body[1][2])
  <1>1. /\ HasEvent(p, q, c, "IncomingFile") /\ Set(p, a)
        /\ TakeEvent(p, q, c) /\ UNCHANGED <<lifeVars, faults>>
    BY Zenon DEF OnIncomingFile
  <1>2. /\ a.pending_handler_event = node[p].pending_handler_event
        /\ a.pending_send = node[p].pending_send
        /\ a.ongoing_send = node[p].ongoing_send
        /\ a.send_counter = node[p].send_counter
    BY GoodNode DEF on_new_pending_recv, Emit, Behaviour
  <1> HIDE DEF a
  <1> QED BY <1>1, <1>2, QuietEvent

\* OnRecvProgressed
LEMMA OnRecvProgressedChunks ==
  ASSUME Inv, Inv', Paced, Fed, NEW p \in Peers, NEW q \in Peers,
         NEW c \in Conns, OnRecvProgressed(p, q, c)
  PROVE  Paced' /\ Fed'
  <1> DEFINE b == node[p]
             e == NextEvent(p, q, c)
  <1>1. /\ HasEvent(p, q, c, "RecvProgressed")
        /\ TakeEvent(p, q, c) /\ UNCHANGED lifeVars
        /\ UNCHANGED faults \/ Fault
    BY DEF OnRecvProgressed
  <1>2. \/ UNCHANGED node
        \/ \E o \in b.ongoing_recv :
             \/ Set(p, end_recv(b, o, "UnexpectedEOF", 0))
             \/ Set(p, end_recv(b, o, "RecvProgressed", o.bytes_total))
             \/ Set(p, write_chunk(b, o, e.body))
             \/ Set(p, end_recv(b, o, "OngoingRecvError", 0))
    BY Zenon DEF OnRecvProgressed
  <1>3. CASE UNCHANGED node
    <2>1. \A x \in Peers : Mute(node[x], node'[x])
      BY <1>3, SameMute
    <2> QED BY <1>1, <2>1, EventChunks
  <1>4. ASSUME NEW o, NEW t, NEW n, NEW a,
               a = end_recv(b, o, t, n) \/ a = write_chunk(b, o, n), Set(p, a)
        PROVE  Paced' /\ Fed'
    <2>1. /\ a.pending_handler_event = b.pending_handler_event
          /\ a.pending_send = b.pending_send
          /\ a.ongoing_send = b.ongoing_send
          /\ a.send_counter = b.send_counter
      BY <1>4, GoodNode DEF end_recv, write_chunk, Emit, Behaviour
    <2> QED BY <1>1, <1>4, <2>1, QuietEvent
  <1> QED BY <1>2, <1>3, <1>4, Zenon

\* OnRemoteCancelSend
LEMMA OnRemoteCancelSendChunks ==
  ASSUME Inv, Inv', Paced, Fed, NEW p \in Peers, NEW q \in Peers,
         NEW c \in Conns, OnRemoteCancelSend(p, q, c)
  PROVE  Paced' /\ Fed'
  <1> DEFINE id == NextEvent(p, q, c).id
             b  == Emit(node[p], "CancelledSend", id, 0)
             r  == send_record(b, id)
             d  == [b EXCEPT !.pending_send = @ \ r, !.ongoing_send = @ \ r]
  <1>1. /\ HasEvent(p, q, c, "RemoteCancelSend") /\ Set(p, d)
        /\ TakeEvent(p, q, c) /\ UNCHANGED <<lifeVars, faults>>
    BY Zenon DEF OnRemoteCancelSend
  <1> HIDE DEF id, r
  <1>2. /\ d.pending_handler_event = node[p].pending_handler_event
        /\ d.pending_send = node[p].pending_send \ r
        /\ d.ongoing_send = node[p].ongoing_send \ r
        /\ d.send_counter = node[p].send_counter
    BY GoodNode DEF Emit, Behaviour
  <1> HIDE DEF d
  <1> QED BY <1>1, <1>2, QuietEvent

\* OnRemoteCancelRecv
LEMMA OnRemoteCancelRecvChunks ==
  ASSUME Inv, Inv', Paced, Fed, NEW p \in Peers, NEW q \in Peers,
         NEW c \in Conns, OnRemoteCancelRecv(p, q, c)
  PROVE  Paced' /\ Fed'
  <1> DEFINE b == node[p]
             drop(r) == Emit([b EXCEPT !.pending_recv = @ \ {r}],
                             "CancelledRecv", r.remote_send_id, 0)
  <1>1. /\ HasEvent(p, q, c, "RemoteCancelRecv")
        /\ TakeEvent(p, q, c) /\ UNCHANGED <<lifeVars, faults>>
    BY DEF OnRemoteCancelRecv
  <1>2. \/ \E o \in b.ongoing_recv : Set(p, end_recv(b, o, "CancelledRecv", 0))
        \/ \E r \in b.pending_recv : Set(p, drop(r))
        \/ UNCHANGED node
    BY Zenon DEF OnRemoteCancelRecv
  <1>3. CASE UNCHANGED node
    <2>1. \A x \in Peers : Mute(node[x], node'[x])
      BY <1>3, SameMute
    <2> QED BY <1>1, <2>1, EventChunks
  <1>4. ASSUME NEW r, NEW a,
               a = end_recv(b, r, "CancelledRecv", 0) \/ a = drop(r), Set(p, a)
        PROVE  Paced' /\ Fed'
    <2>1. /\ a.pending_handler_event = b.pending_handler_event
          /\ a.pending_send = b.pending_send
          /\ a.ongoing_send = b.ongoing_send
          /\ a.send_counter = b.send_counter
      BY <1>4, GoodNode DEF end_recv, Emit, Behaviour
    <2> QED BY <1>1, <1>4, <2>1, QuietEvent
  <1> HIDE DEF drop
  <1> QED BY <1>2, <1>3, <1>4, Zenon

\* OnOutboundNegotiated and OnReport
LEMMA OnReportChunks ==
  ASSUME Inv, Inv', Paced, Fed, NEW p \in Peers, NEW q \in Peers,
         NEW c \in Conns,
         \/ OnOutboundNegotiated(p, q, c)
         \/ \E t \in {"Error", "InboundNegotiated"} : OnReport(p, q, c, t)
  PROVE  Paced' /\ Fed'
  <1> DEFINE b == node[p]
             n == Emit([b EXCEPT !.connected_peers = @ \cup {q}],
                       "OutboundNegotiated", 0, 0)
  <1>1. \E t : /\ t # "SendProgressed" /\ HasEvent(p, q, c, t)
               /\ Set(p, n) \/ Set(p, Emit(b, t, 0, 0))
    <2>1. "OutboundNegotiated" # "SendProgressed" /\ "Error" # "SendProgressed"
          /\ "InboundNegotiated" # "SendProgressed"
      OBVIOUS
    <2> QED BY <2>1, Zenon DEF OnOutboundNegotiated, OnReport
  <1>2. TakeEvent(p, q, c) /\ UNCHANGED <<lifeVars, faults>>
    BY DEF OnOutboundNegotiated, OnReport
  <1>3. ASSUME NEW t, t # "SendProgressed", HasEvent(p, q, c, t),
               NEW a, a = n \/ a = Emit(b, t, 0, 0), Set(p, a)
        PROVE  Paced' /\ Fed'
    <2>1. /\ a.pending_handler_event = b.pending_handler_event
          /\ a.pending_send = b.pending_send
          /\ a.ongoing_send = b.ongoing_send
          /\ a.send_counter = b.send_counter
      BY <1>3, GoodNode DEF Emit, Behaviour
    <2> QED BY <1>2, <1>3, <2>1, QuietEvent
  <1> HIDE DEF n
  <1> QED BY <1>1, <1>3, Zenon

\* progress_ongoing_send, by what it assigns.
LEMMA ProgressFeeds ==
  ASSUME NEW b \in Behaviour, NEW a \in Behaviour, Ids(a), NEW s \in a.ongoing_send,
         a.pending_handler_event = b.pending_handler_event,
         a.send_counter = b.send_counter,
         a.pending_send \subseteq b.pending_send,
         \A x \in a.ongoing_send : x = s \/ x \in b.ongoing_send
  PROVE  LET d == progress_ongoing_send(a, s)
         IN  \E m : Feeds(b, d, s.local_send_id, s.remote, m)
  <1> DEFINE d == progress_ongoing_send(a, s)
             id == s.local_send_id
             n == [s EXCEPT !.bytes_sent = @ + 1]
             m1 == Message("FileChunk", id, <<<<s.file, s.bytes_sent + 1>>>>)
             m2 == Message("FileChunk", id, <<>>)
  <1>1. /\ s \in OngoingSend /\ n.local_send_id = id /\ n.remote = s.remote
        /\ id \in Nat
    BY DEF Behaviour, OngoingSend
  <1>2. /\ m1.type = "FileChunk" /\ m1.id = id
        /\ m2.type = "FileChunk" /\ m2.id = id
    BY DEF Message
  <1>3. /\ d.pending_send = a.pending_send /\ d.send_counter = a.send_counter
        /\ \/ /\ d.ongoing_send = (a.ongoing_send \ {s}) \cup {n}
              /\ d.pending_handler_event =
                   Append(a.pending_handler_event, [to |-> s.remote, msg |-> m1])
           \/ /\ d.ongoing_send = a.ongoing_send \ {s}
              /\ d.pending_handler_event =
                   Append(a.pending_handler_event, [to |-> s.remote, msg |-> m2])
    BY DEF progress_ongoing_send, Notify, Behaviour
  <1>4. /\ id < a.send_counter
        /\ \A x \in a.pending_send : x = s \/ x.local_send_id # id
        /\ \A x \in a.ongoing_send : x = s \/ x.local_send_id # id
    BY DEF Ids, Sends
  <1>5. s \notin a.pending_send
    BY Disjoint DEF Behaviour
  <1> HIDE DEF d, id, n, m1, m2
  <1>6. \A x \in d.ongoing_send :
          \/ x \in b.ongoing_send /\ x.local_send_id # id
          \/ x.local_send_id = id /\ x.remote = s.remote
    BY <1>1, <1>3, <1>4
  <1>7. \A x \in d.pending_send : x.local_send_id # id
    BY <1>3, <1>4, <1>5
  <1>8. \E m : /\ m.type = "FileChunk" /\ m.id = id
               /\ d.pending_handler_event =
                    Append(b.pending_handler_event, [to |-> s.remote, msg |-> m])
    BY <1>2, <1>3, Zenon
  <1>9. \E m : Feeds(b, d, id, s.remote, m)
    <2>1. PICK m : /\ m.type = "FileChunk" /\ m.id = id
                   /\ d.pending_handler_event =
                        Append(b.pending_handler_event, [to |-> s.remote, msg |-> m])
      BY <1>8
    <2>2. Feeds(b, d, id, s.remote, m)
      BY <1>1, <1>3, <1>4, <1>6, <1>7, <2>1 DEF Feeds
    <2> QED BY <2>2
  <1> QED BY <1>9 DEF d, id

\* An event makes p send the next chunk of send id.
LEMMA FeedEvent ==
  ASSUME Inv, Paced, Fed, NEW p \in Peers, NEW q \in Peers, NEW c \in Conns,
         NEW t, HasEvent(p, q, c, t), TakeEvent(p, q, c),
         UNCHANGED <<lifeVars, faults>>,
         NEW d, Set(p, d), NEW id, NEW r, NEW m, Feeds(node[p], d, id, r, m),
         \/ t # "SendProgressed" /\ ~On(node, link, p, id)
         \/ t = "SendProgressed" /\ NextEvent(p, q, c).id = id
  PROVE  Paced' /\ Fed'
  <1> DEFINE l == <<p, q, c>>
             e == Head(link[l].ev)
  <1>1. /\ l \in Links /\ l[1] = p /\ Draws(link, link', l)
        /\ NextEvent(p, q, c) = e /\ e.type = t
    BY TakeEventDraws
  <1> HIDE DEF l, e
  <1>2. link \in [Links -> Handler] /\ node[p] \in Behaviour
    BY InvTypes
  <1>3. node'[p] = d /\ \A x \in Peers : x # p => node'[x] = node[x]
    BY SetAt
  <1>4. Sound' => Sound
    BY DEF Sound, lifeVars
  <1>5. ASSUME NEW x \in Peers
        PROVE  /\ Fewer(node, link, node, link', x)
               /\ \A j : ~(x = p /\ Acked(e, j))
                    => Lasts(node, link, node, link', x, j)
               /\ \A j : x = p /\ Sole(node, link, x) /\ Acked(e, j)
                    => ~On(node, link', x, j)
    BY <1>1, <1>2, DrawFewer DEF e
  <1>6. PacedAt(node, link', p)
    <2>1. PacedAt(node, link, p) /\ Fewer(node, link, node, link', p)
      BY <1>5 DEF Paced
    <2>2. Mute(node[p], node[p])
      BY <1>2, MuteSame
    <2> QED BY <2>1, <2>2, MuteStep
  <1>7. ~On(node, link', p, id)
    <2>1. CASE t # "SendProgressed" /\ ~On(node, link, p, id)
      BY <1>5, <2>1 DEF Fewer
    <2>2. CASE t = "SendProgressed" /\ NextEvent(p, q, c).id = id
      <3>1. Acked(e, id)
        BY <1>1, <2>2 DEF Acked
      <3>2. Sole(node, link, p)
        BY DEF Paced, PacedAt
      <3> QED BY <1>5, <3>1, <3>2
    <2> QED BY <2>1, <2>2
  <1>8. /\ PacedAt(node', link', p)
        /\ (\A s \in node[p].ongoing_send :
               s.local_send_id # id => On(node, link', p, s.local_send_id))
            => FedAt(node', link', p)
    <2>1. Feeds(node[p], node'[p], id, r, m)
      BY <1>3
    <2> QED BY <1>2, <1>6, <1>7, <2>1, FeedStep
  <1>9. ASSUME NEW x \in Peers, x # p
        PROVE  /\ PacedAt(node', link', x)
               /\ FedAt(node, link, x) => FedAt(node', link', x)
    <2>1. Mute(node[x], node'[x])
      BY <1>3, <1>9, InvTypes, MuteSame
    <2>2. PacedAt(node, link, x)
      BY DEF Paced
    <2>3. \A j : Lasts(node, link, node, link', x, j)
      BY <1>5, <1>9
    <2> QED BY <1>5, <2>1, <2>2, <2>3, MuteStep
  <1>10. ASSUME FedAt(node, link, p), NEW s \in node[p].ongoing_send,
                s.local_send_id # id
         PROVE  On(node, link', p, s.local_send_id)
    <2>1. ~Acked(e, s.local_send_id)
      BY <1>1, <1>10 DEF Acked
    <2> QED BY <1>5, <1>10, <2>1 DEF FedAt, Lasts
  <1>11. Paced'
    BY <1>8, <1>9 DEF Paced
  <1>12. Fed'
    <2> SUFFICES ASSUME Sound', NEW x \in Peers
                 PROVE  FedAt(node', link', x)
      BY DEF Fed
    <2>1. FedAt(node, link, x)
      BY <1>4 DEF Fed
    <2> QED BY <1>8, <1>9, <1>10, <2>1
  <1> QED BY <1>11, <1>12

\* OnSendProgressed
LEMMA OnSendProgressedChunks ==
  ASSUME Inv, Inv', Paced, Fed, NEW p \in Peers, NEW q \in Peers,
         NEW c \in Conns, OnSendProgressed(p, q, c)
  PROVE  Paced' /\ Fed'
  <1> DEFINE b == node[p]
             l == <<p, q, c>>
             e == NextEvent(p, q, c)
             a(s) == Emit(b, "SendProgressed", e.id, s.bytes_sent)
  <1>1. /\ HasEvent(p, q, c, "SendProgressed")
        /\ TakeEvent(p, q, c) /\ UNCHANGED lifeVars
        /\ UNCHANGED faults \/ Fault
    BY DEF OnSendProgressed
  <1>2. \/ /\ {s \in b.ongoing_send : s.local_send_id = e.id} = {}
           /\ UNCHANGED <<node, faults>>
        \/ \E s \in {x \in b.ongoing_send : x.local_send_id = e.id} :
             \/ Set(p, progress_ongoing_send(a(s), s)) /\ UNCHANGED faults
             \/ Set(p, fail_ongoing_send(a(s), s)) /\ Fault
    BY Zenon DEF OnSendProgressed
  <1>3. /\ l \in Links /\ l[1] = p /\ Draws(link, link', l)
        /\ Head(link[l].ev) = e /\ e.type = "SendProgressed"
    BY <1>1, TakeEventDraws
  <1> HIDE DEF l
  <1>4. ASSUME NEW x \in Peers
        PROVE  /\ Fewer(node, link, node, link', x)
               /\ \A j : ~(x = p /\ Acked(e, j))
                    => Lasts(node, link, node, link', x, j)
    BY <1>3, InvTypes, DrawFewer
  <1>5. e.id \in Nat /\ b \in Behaviour /\ Ids(b)
    BY <1>1, NextEventType, InvTypes DEF Inv
  <1> HIDE DEF e
  <1>6. CASE /\ {s \in b.ongoing_send : s.local_send_id = e.id} = {}
             /\ UNCHANGED <<node, faults>>
    <2>1. \A x \in Peers : Mute(node[x], node'[x])
      BY <1>6, SameMute
    <2>2. ASSUME NEW x \in Peers, NEW s \in node'[x].ongoing_send
          PROVE  Lasts(node, link, node, link', x, s.local_send_id)
      <3>1. x = p => s.local_send_id # e.id
        BY <1>6, <2>2
      <3>2. ~(x = p /\ Acked(e, s.local_send_id))
        BY <3>1 DEF Acked
      <3> QED BY <1>4, <3>2
    <2>3. Sound' => Sound
      BY <1>1, <1>6 DEF Sound, lifeVars
    <2> QED BY <1>4, <2>1, <2>2, <2>3, ChunkStep
  <1>7. ASSUME NEW s \in b.ongoing_send, s.local_send_id = e.id
        PROVE  /\ a(s) \in Behaviour /\ Ids(a(s)) /\ s \in a(s).ongoing_send
               /\ a(s).pending_handler_event = b.pending_handler_event
               /\ a(s).send_counter = b.send_counter
               /\ a(s).pending_send = b.pending_send
               /\ a(s).ongoing_send = b.ongoing_send
    <2>1. /\ a(s).pending_handler_event = b.pending_handler_event
          /\ a(s).send_counter = b.send_counter
          /\ a(s).recv_counter = b.recv_counter
          /\ a(s).pending_send = b.pending_send
          /\ a(s).ongoing_send = b.ongoing_send
          /\ a(s).pending_recv = b.pending_recv
          /\ a(s).ongoing_recv = b.ongoing_recv
      BY <1>5 DEF Emit, Behaviour
    <2>2. "SendProgressed" \in OutType /\ s.bytes_sent \in Nat
      BY <1>5 DEF OutType, Behaviour, OngoingSend
    <2>3. a(s) \in Behaviour
      BY <1>5, <2>2, EmitShrinks DEF Shrinks
    <2> HIDE DEF a
    <2>4. Ids(a(s))
      BY <1>5, <2>1 DEF Ids, Sends, Recvs
    <2> QED BY <2>1, <2>3, <2>4
  <1> HIDE DEF a
  <1>8. ASSUME NEW s \in b.ongoing_send, s.local_send_id = e.id,
               Set(p, progress_ongoing_send(a(s), s)), UNCHANGED faults
        PROVE  Paced' /\ Fed'
    <2>1. PICK m : Feeds(b, progress_ongoing_send(a(s), s), s.local_send_id,
                         s.remote, m)
      BY <1>5, <1>7, <1>8, ProgressFeeds
    <2>2. NextEvent(p, q, c).id = s.local_send_id
      BY <1>8 DEF e
    <2> QED BY <1>1, <1>8, <2>1, <2>2, FeedEvent
  <1>9. ASSUME NEW s \in b.ongoing_send, s.local_send_id = e.id,
               Set(p, fail_ongoing_send(a(s), s)), Fault
        PROVE  Paced' /\ Fed'
    <2> DEFINE d == fail_ongoing_send(a(s), s)
    <2>1. d \in Behaviour
      BY <1>9, SetType, Zenon
    <2>2. /\ d.pending_handler_event = b.pending_handler_event
          /\ d.send_counter = b.send_counter /\ b.send_counter \in Nat
          /\ d.pending_send = b.pending_send
          /\ d.ongoing_send \subseteq b.ongoing_send
      BY <1>5, <1>7, <1>9 DEF fail_ongoing_send, Behaviour
    <2> HIDE DEF d
    <2>3. Mute(b, d)
      BY <1>5, <2>1, <2>2, QuietlyMute DEF Quietly
    <2>4. \A x \in Peers : Mute(node[x], node'[x])
      BY <1>9, <2>3, SetMute DEF d
    <2>5. ~Sound'
      BY <1>1, <1>9, StillSound DEF lifeVars
    <2> QED BY <1>4, <2>4, <2>5, ChunkStep
  <1> QED BY <1>2, <1>6, <1>8, <1>9, Zenon

\* Emit touches none of it.
LEMMA EmitFeeds ==
  ASSUME NEW b, NEW d \in Behaviour, NEW id, NEW q, NEW m, Feeds(b, d, id, q, m),
         NEW t, NEW j, NEW n
  PROVE  Feeds(b, Emit(d, t, j, n), id, q, m)
  <1> DEFINE a == Emit(d, t, j, n)
  <1>1. /\ a.pending_handler_event = d.pending_handler_event
        /\ a.send_counter = d.send_counter
        /\ a.pending_send = d.pending_send
        /\ a.ongoing_send = d.ongoing_send
    BY DEF Emit, Behaviour
  <1> HIDE DEF a
  <1>2. Feeds(b, a, id, q, m)
    BY <1>1 DEF Feeds
  <1> QED BY <1>2 DEF a

\* OnFileSendAccepted
LEMMA OnFileSendAcceptedChunks ==
  ASSUME Inv, Inv', Paced, Fed, NEW p \in Peers, NEW q \in Peers,
         NEW c \in Conns, OnFileSendAccepted(p, q, c)
  PROVE  Paced' /\ Fed'
  <1> DEFINE b == node[p]
             e == NextEvent(p, q, c)
             a(s) == pending_send_accepted(b, s)
             ok(s) == Emit(progress_ongoing_send(a(s), started(s)),
                           "SendProgressed", e.id, 0)
             bad(s) == Emit(fail_ongoing_send(a(s), started(s)),
                            "SendProgressed", e.id, 0)
  <1>1. /\ HasEvent(p, q, c, "FileSendAccepted")
        /\ TakeEvent(p, q, c) /\ UNCHANGED lifeVars
        /\ UNCHANGED faults \/ Fault
    BY DEF OnFileSendAccepted
  <1>2. \/ UNCHANGED node
        \/ \E s \in b.pending_send :
             \/ Set(p, ok(s)) /\ UNCHANGED faults
             \/ Set(p, bad(s))
    BY Zenon DEF OnFileSendAccepted
  <1>3. CASE UNCHANGED node
    <2>1. \A x \in Peers : Mute(node[x], node'[x])
      BY <1>3, SameMute
    <2> QED BY <1>1, <2>1, EventChunks
  <1>4. b \in Behaviour /\ Ids(b)
    BY InvTypes
  <1>5. ASSUME NEW s \in b.pending_send
        PROVE  /\ a(s) \in Behaviour /\ Ids(a(s))
               /\ started(s) \in a(s).ongoing_send
               /\ a(s).pending_handler_event = b.pending_handler_event
               /\ a(s).send_counter = b.send_counter
               /\ a(s).pending_send = b.pending_send \ {s}
               /\ a(s).ongoing_send = b.ongoing_send \cup {started(s)}
               /\ started(s).local_send_id = s.local_send_id
    <2>1. a(s) \in Behaviour /\ Ids(a(s)) /\ started(s) \in a(s).ongoing_send
      BY GoodNode, PendingSendAcceptedGood, Zenon DEF Good
    <2>2. /\ a(s).pending_handler_event = b.pending_handler_event
          /\ a(s).send_counter = b.send_counter
          /\ a(s).pending_send = b.pending_send \ {s}
          /\ a(s).ongoing_send = b.ongoing_send \cup {started(s)}
      BY <1>4 DEF pending_send_accepted, Behaviour
    <2> QED BY <2>1, <2>2 DEF started
  <1> HIDE DEF a, e
  <1>6. ASSUME NEW s \in b.pending_send, Set(p, ok(s)), UNCHANGED faults
        PROVE  Paced' /\ Fed'
    <2> DEFINE d == progress_ongoing_send(a(s), started(s))
    <2>1. PICK m : Feeds(b, d, started(s).local_send_id, started(s).remote, m)
      BY <1>4, <1>5, <1>6, ProgressFeeds
    <2>2. d \in Behaviour
      BY <1>5, <1>6, ProgressIdle DEF Idle
    <2> HIDE DEF d
    <2>3. Feeds(b, ok(s), started(s).local_send_id, started(s).remote, m)
      BY <2>1, <2>2, EmitFeeds DEF d
    <2>4. ~On(node, link, p, started(s).local_send_id)
      BY <1>5, <1>6 DEF Paced, PacedAt
    <2> HIDE DEF ok
    <2> QED BY <1>1, <1>6, <2>3, <2>4, FeedEvent
  <1>7. ASSUME NEW s \in b.pending_send, Set(p, bad(s))
        PROVE  Paced' /\ Fed'
    <2>1. /\ bad(s).pending_handler_event = b.pending_handler_event
          /\ bad(s).send_counter = b.send_counter
          /\ bad(s).pending_send \subseteq b.pending_send
          /\ bad(s).ongoing_send \subseteq b.ongoing_send
      BY <1>5, <1>7 DEF fail_ongoing_send, Emit, Behaviour
    <2> HIDE DEF bad
    <2> QED BY <1>1, <1>7, <2>1, QuietEvent
  <1> HIDE DEF ok, bad
  <1> QED BY <1>2, <1>3, <1>6, <1>7, Zenon

\* The swarm of p is gone.
LEMMA DropChunks ==
  ASSUME Inv, Paced, NEW p \in Peers, Drop(p)
  PROVE  Paced'
  <1>1. /\ node'[p] = NewBehaviour
        /\ \A x \in Peers : x # p => node'[x] = node[x]
    BY SetAt DEF Drop
  <1>2. \A l \in Links : link'[l] = IF l[1] = p THEN NewHandler ELSE link[l]
    BY DEF Drop
  <1>3. /\ NewBehaviour.pending_handler_event = <<>>
        /\ NewBehaviour.pending_send = {} /\ NewBehaviour.ongoing_send = {}
        /\ NewHandler.inq = <<>> /\ NewHandler.ev = <<>>
        /\ NewHandler.busy = <<>>
    BY DEF NewBehaviour, NewHandler
  <1>4. PacedAt(node', link', p)
    <2>1. \A id, k, l, i : ~Tok(node', link', p, id, k, l, i)
      BY <1>1, <1>2, <1>3 DEF Tok
    <2>2. Sole(node', link', p)
      BY <2>1 DEF Sole
    <2>3. \A id : ~On(node', link', p, id)
      BY <2>1 DEF On
    <2>4. Addressed(node'[p])
      BY <1>1, <1>3 DEF Addressed
    <2> QED BY <2>2, <2>3, <2>4 DEF PacedAt
  <1>5. ASSUME NEW x \in Peers, x # p
        PROVE  PacedAt(node', link', x)
    <2>1. Mute(node[x], node'[x])
      BY <1>1, <1>5, InvTypes, MuteSame
    <2>2. \A l \in Links : l[1] = x => Softer(link[l], link'[l])
      BY <1>2, <1>5, SofterSame
    <2>3. Fewer(node, link, node, link', x)
      BY <2>2, SofterFewer
    <2> QED BY <2>1, <2>3, MuteStep DEF Paced
  <1> QED BY <1>4, <1>5 DEF Paced

\* poll, whatever has expired.
LEMMA PollChunks ==
  ASSUME Inv, Inv', Paced, Fed, NEW p \in Peers,
         NEW x \in Expiries(node[p]) \cup {NotThrottled}, PollWith(p, x)
  PROVE  Paced' /\ Fed'
  <1> DEFINE b == check_expiry(node[p], x)
             h == Head(b.pending_handler_event)
             o1 == [b EXCEPT !.out_events = Tail(@)]
             q1 == [b EXCEPT !.pending_handler_event = Tail(@)]
  <1>1. UNCHANGED <<conn, wire, lifeVars, faults>>
    BY DEF PollWith
  <1>2. \/ b.out_events # <<>> /\ Set(p, o1) /\ UNCHANGED link
        \/ /\ b.pending_handler_event # <<>> /\ Set(p, q1)
           /\ \/ conn[p][h.to] = {} /\ UNCHANGED link
              \/ \E c \in conn[p][h.to] :
                   link' = [link EXCEPT ![<<p, h.to, c>>].inq = Append(@, h.msg)]
    BY Zenon DEF PollWith, PollOutEvent, PollHandlerEvent
  <1>3. b \in Behaviour /\ Mute(node[p], b) /\ node[p] \in Behaviour
    BY GoodNode, CheckExpiryMute
  <1>4. Sound' => Sound
    BY <1>1 DEF Sound, lifeVars
  <1> HIDE DEF b
  <1>5. CASE b.out_events # <<>> /\ Set(p, o1) /\ UNCHANGED link
    <2>1. /\ o1.pending_handler_event = b.pending_handler_event
          /\ o1.send_counter = b.send_counter
          /\ o1.pending_send = b.pending_send
          /\ o1.ongoing_send = b.ongoing_send
      BY <1>3 DEF Behaviour
    <2> HIDE DEF o1
    <2>2. Mute(node[p], o1)
      BY <1>3, <2>1 DEF Mute, Docile
    <2>3. UNCHANGED connVars
      BY <1>1, <1>5 DEF connVars
    <2> QED BY <1>1, <1>5, <2>2, <2>3, UserChunks
  <1>6. CASE /\ b.pending_handler_event # <<>> /\ Set(p, q1)
             /\ \/ conn[p][h.to] = {} /\ UNCHANGED link
                \/ \E c \in conn[p][h.to] :
                     link' = [link EXCEPT ![<<p, h.to, c>>].inq = Append(@, h.msg)]
    <2> DEFINE N1 == [node EXCEPT ![p] = b]
    <2>1. /\ N1 \in [Peers -> Behaviour] /\ N1[p] = b
          /\ \A y \in Peers : y # p => N1[y] = node[y]
      BY <1>3, InvTypes
    <2> HIDE DEF N1
    <2>2. ASSUME NEW y \in Peers
          PROVE  /\ PacedAt(N1, link, y)
                 /\ Sound => FedAt(N1, link, y)
      <3>1. Mute(node[y], N1[y])
        BY <1>3, <2>1, InvTypes, MuteSame
      <3>2. /\ Fewer(node, link, node, link, y)
            /\ \A id : Lasts(node, link, node, link, y, id)
        BY SameFewer
      <3>3. PacedAt(node, link, y) /\ (Sound => FedAt(node, link, y))
        BY DEF Paced, Fed
      <3> QED BY <3>1, <3>2, <3>3, MuteStep
    <2>3. /\ q1.pending_handler_event = Tail(b.pending_handler_event)
          /\ q1.send_counter = b.send_counter /\ b.send_counter \in Nat
          /\ q1.pending_send = b.pending_send
          /\ q1.ongoing_send = b.ongoing_send
          /\ b.pending_handler_event \in Seq(Notification)
      BY <1>3 DEF Behaviour
    <2>4. node'[p] = q1 /\ \A y \in Peers : y # p => node'[y] = node[y]
      BY <1>6, SetAt
    <2> HIDE DEF q1
    <2>5. Pops(N1, node', p)
      BY <1>6, <2>1, <2>3, <2>4 DEF Pops
    <2>6. ASSUME NEW y \in Peers
          PROVE  Docile(N1[y], node'[y])
      <3>1. CASE y = p
        <4> DEFINE z == b.pending_handler_event
        <4>1. \A i \in DOMAIN Tail(z) : /\ i \in Nat /\ i >= 1
                                        /\ i + 1 \in DOMAIN z
                                        /\ Tail(z)[i] = z[i + 1]
          BY <1>6, <2>3, TailAt, ZenonT(60)
        <4> HIDE DEF z
        <4>2. \A i \in DOMAIN Tail(z) : \E j \in DOMAIN z : z[j] = Tail(z)[i]
          BY <4>1
        <4>3. b.send_counter <= b.send_counter
          BY <2>3
        <4>4. b.pending_handler_event = z /\ q1.pending_handler_event = Tail(z)
          BY <2>3 DEF z
        <4>5. Docile(b, q1)
          BY <2>3, <4>2, <4>3, <4>4 DEF Docile
        <4> QED BY <2>1, <2>4, <3>1, <4>5
      <3>2. CASE y # p
        BY <2>1, <2>4, <3>2, InvTypes, MuteSame DEF Mute
      <3> QED BY <3>1, <3>2
    <2>7. ASSUME \A y \in Peers :
                   /\ Fewer(N1, link, node', link', y)
                   /\ \A s \in node'[y].ongoing_send :
                        Lasts(N1, link, node', link', y, s.local_send_id)
          PROVE  Paced' /\ Fed'
      <3>1. Paced'
        BY <2>2, <2>6, <2>7, DocilePaced DEF Paced
      <3>2. ASSUME Sound', NEW y \in Peers, NEW s \in node'[y].ongoing_send
            PROVE  On(node', link', y, s.local_send_id)
        <4>1. s \in N1[y].ongoing_send
          BY <2>6 DEF Docile
        <4>2. On(N1, link, y, s.local_send_id)
          BY <1>4, <2>2, <3>2, <4>1 DEF FedAt
        <4> QED BY <2>7, <4>2 DEF Lasts
      <3> QED BY <3>1, <3>2 DEF Fed, FedAt
    <2>8. CASE conn[p][h.to] = {} /\ UNCHANGED link
      <3>1. ASSUME NEW s \in b.ongoing_send
            PROVE  ~Chunky(h.msg, s.local_send_id)
        <4>1. s \in Sends(node'[p])
          BY <2>3, <2>4 DEF Sends
        <4>2. s.remote \in Linked(p)'
          BY <4>1 DEF Inv, NodeInv, Good, Held
        <4>3. conn[p][s.remote] # {}
          BY <1>1, <4>2 DEF Linked
        <4>4. 1 \in DOMAIN b.pending_handler_event /\ h = b.pending_handler_event[1]
          BY <1>6, <2>3, TailAt
        <4>5. Addressed(b)
          BY <2>1, <2>2 DEF PacedAt
        <4>6. Chunky(h.msg, s.local_send_id) => h.to = s.remote
          BY <4>4, <4>5 DEF Addressed
        <4> QED BY <2>8, <4>3, <4>6
      <3>2. ASSUME NEW y \in Peers
            PROVE  /\ Fewer(N1, link, node', link, y)
                   /\ \A id : ~(y = p /\ Chunky(h.msg, id))
                        => Lasts(N1, link, node', link, y, id)
        BY <2>1, <2>5, PopFewer
      <3>3. ASSUME NEW y \in Peers, NEW s \in node'[y].ongoing_send
            PROVE  Lasts(N1, link, node', link, y, s.local_send_id)
        BY <2>3, <2>4, <3>1, <3>2
      <3> QED BY <2>7, <2>8, <3>2, <3>3
    <2>9. ASSUME NEW c \in conn[p][h.to],
                 link' = [link EXCEPT ![<<p, h.to, c>>].inq = Append(@, h.msg)]
          PROVE  Paced' /\ Fed'
      <3> DEFINE l == <<p, h.to, c>>
                 i == Append(link[l].inq, h.msg)
      <3>1. h \in Notification
        <4> DEFINE z == b.pending_handler_event
        <4>1. z \in Seq(Notification) /\ z # <<>>
          BY <1>6, <2>3, Zenon
        <4> HIDE DEF z
        <4>2. Head(z) \in Notification
          BY <4>1
        <4> QED BY <4>2 DEF z
      <3>2. l \in Links /\ l[1] = p
        <4>1. h.to \in Peers
          BY <3>1 DEF Notification
        <4>2. c \in Conns
          BY <2>9, <4>1 DEF Inv, NetType
        <4> QED BY <4>1, <4>2 DEF Links
      <3>3. link' = [link EXCEPT ![l].inq = i]
        BY <2>9
      <3> HIDE DEF l, i
      <3>4. Enters(link, link', l, h.msg)
        <4>1. /\ link'[l].inq = i
              /\ \A j \in Links : j # l => link'[j].inq = link[j].inq
              /\ \A j \in Links : /\ link'[j].busy = link[j].busy
                                  /\ link'[j].ev = link[j].ev
          BY <3>2, <3>3, InvTypes DEF Handler
        <4> QED BY <4>1 DEF Enters, i
      <3>5. h = Head(N1[p].pending_handler_event)
        BY <2>1
      <3> HIDE DEF h
      <3>6. \A y \in Peers : /\ Fewer(N1, link, node', link', y)
                             /\ \A id : Lasts(N1, link, node', link', y, id)
        BY <2>1, <2>5, <3>2, <3>4, <3>5, InvTypes, PostFewer
      <3> QED BY <2>7, <3>6
    <2> QED BY <1>6, <2>8, <2>9
  <1> QED BY <1>2, <1>5, <1>6

\* A handler without a connection is as new.
Plugged ==
  \A l \in Links : l[3] \notin conn[l[1]][l[2]] => link[l] = NewHandler

\* Until something fails, both ends of a connection agree that it is there.
Paired == Sound => \A p, q \in Peers : conn[p][q] = conn[q][p]

\* A handler that reports something that is no acknowledgement.
LEMMA TellSofter ==
  ASSUME NEW L \in [Links -> Handler], NEW l \in Links, NEW e \in Event,
         e.type # "SendProgressed"
  PROVE  \A j \in Links : /\ Softer(L[j], Tell(L, l, e)[j])
                          /\ Softer(Tell(L, l, e)[j], L[j])
  <1> DEFINE L2 == Tell(L, l, e)
             z == L[l].ev
             s == Append(z, e)
  <1>1. z \in Seq(Event)
    BY DEF Handler
  <1>2. \A i \in DOMAIN s : \/ i \in DOMAIN z /\ i # Len(z) + 1 /\ s[i] = z[i]
                            \/ i = Len(z) + 1 /\ s[i] = e
    BY <1>1, AppendAt, Zenon
  <1>3. \A i \in DOMAIN z : i \in DOMAIN s /\ s[i] = z[i]
    BY <1>1
  <1>4. L2 = [L EXCEPT ![l].ev = s]
    BY DEF Tell
  <1> HIDE DEF s, L2
  <1>5. /\ L2[l].ev = s
        /\ \A j \in Links : j # l => L2[j].ev = L[j].ev
        /\ \A j \in Links : L2[j].inq = L[j].inq /\ L2[j].busy = L[j].busy
    BY <1>4 DEF Handler
  <1>6. \A j \in Links : Softer(L[j], L2[j]) /\ Softer(L2[j], L[j])
    BY <1>2, <1>3, <1>5 DEF Softer
  <1> QED BY <1>6 DEF L2

\* Handlers and wires alone.
LEMMA NetChunks ==
  ASSUME Inv, Paced, Fed, UNCHANGED <<node, lifeVars>>,
         UNCHANGED faults \/ Fault,
         \A x \in Peers : Fewer(node, link, node, link', x),
         Sound' => \A x \in Peers : \A id : Lasts(node, link, node, link', x, id)
  PROVE  Paced' /\ Fed'
  <1>1. \A x \in Peers : Mute(node[x], node'[x])
    BY SameMute
  <1>2. Sound' => Sound
    BY StillSound DEF lifeVars
  <1> QED BY <1>1, <1>2, ChunkStep

\* Handlers that have the same chunks.
LEMMA SofterChunks ==
  ASSUME Inv, Paced, Fed, UNCHANGED <<node, lifeVars>>,
         UNCHANGED faults \/ Fault,
         \A l \in Links : Softer(link[l], link'[l]),
         Sound' => \A l \in Links : Softer(link'[l], link[l])
  PROVE  Paced' /\ Fed'
  <1>1. \A x \in Peers : Fewer(node, link, node, link', x)
    BY SofterFewer
  <1>2. ASSUME Sound', NEW x \in Peers, NEW id
        PROVE  Lasts(node, link, node, link', x, id)
    <2>1. \A l \in Links : l[1] = x => Softer(link'[l], link[l])
      BY <1>2
    <2>2. Fewer(node, link', node, link, x)
      BY <2>1, SofterFewer
    <2> QED BY <2>2 DEF Fewer, Lasts
  <1> QED BY <1>1, <1>2, NetChunks

\* OpenStream
LEMMA OpenStreamChunks ==
  ASSUME Inv, Paced, Fed, NEW p \in Peers, NEW q \in Peers, NEW c \in Conns,
         OpenStream(p, q, c)
  PROVE  Paced' /\ Fed'
  <1> DEFINE l == <<p, q, c>>
             k == <<q, p, c>>
             o == Report("OutboundNegotiated")
             i == Report("InboundNegotiated")
             L0 == [link EXCEPT ![l].open = TRUE]
             L1 == Tell(L0, l, o)
             L2 == Tell(L1, k, i)
  <1>1. l \in Links /\ k \in Links
    BY DEF Links
  <1>2. link' = L2 /\ UNCHANGED <<node, lifeVars, faults>>
    BY DEF OpenStream
  <1>3. /\ o \in Event /\ o.type # "SendProgressed"
        /\ i \in Event /\ i.type # "SendProgressed"
    BY ReportEvents DEF Report
  <1> HIDE DEF l, k, o, i
  <1>4. /\ L0 \in [Links -> Handler]
        /\ \A j \in Links : Softer(link[j], L0[j]) /\ Softer(L0[j], link[j])
    <2>1. [link[l] EXCEPT !.open = TRUE] \in Handler
      BY <1>1, InvTypes DEF Handler
    <2>2. L0 \in [Links -> Handler]
      BY <1>1, <2>1, InvTypes
    <2>3. \A j \in Links : /\ L0[j].inq = link[j].inq /\ L0[j].ev = link[j].ev
                           /\ L0[j].busy = link[j].busy
      BY <1>1, InvTypes DEF Handler
    <2> HIDE DEF L0
    <2> QED BY <2>2, <2>3 DEF Softer
  <1> HIDE DEF L0
  <1>5. /\ L1 \in [Links -> Handler]
        /\ \A j \in Links : Softer(L0[j], L1[j]) /\ Softer(L1[j], L0[j])
    BY <1>1, <1>3, <1>4, LinkReportType, TellSofter
  <1> HIDE DEF L1
  <1>6. \A j \in Links : Softer(L1[j], L2[j]) /\ Softer(L2[j], L1[j])
    BY <1>1, <1>3, <1>5, TellSofter
  <1> HIDE DEF L2
  <1>7. \A j \in Links : Softer(link[j], L1[j]) /\ Softer(L1[j], link[j])
    BY <1>4, <1>5, SofterTrans
  <1>8. \A j \in Links : Softer(link[j], link'[j]) /\ Softer(link'[j], link[j])
    BY <1>2, <1>6, <1>7, SofterTrans
  <1> QED BY <1>2, <1>8, SofterChunks

\* Arrive
LEMMA ArriveChunks ==
  ASSUME Inv, Paced, Fed, NEW p \in Peers, NEW q \in Peers, NEW c \in Conns,
         Arrive(p, q, c)
  PROVE  Paced' /\ Fed'
  <1> DEFINE l == <<p, q, c>>
             k == <<q, p, c>>
             m == wire[l][1]
             e == on_message(m)
  <1>1. l \in Links /\ k \in Links
    BY DEF Links
  <1>2. /\ wire[l] # <<>> /\ link' = Tell(link, k, e)
        /\ UNCHANGED <<node, lifeVars, faults>>
    BY DEF Arrive
  <1>3. m \in Msg
    BY <1>1, <1>2, InvTypes DEF Slot
  <1> HIDE DEF m
  <1>4. e \in Event /\ e.type # "SendProgressed"
    <2>1. e \in Event
      BY <1>3, OnMessageType
    <2>2. m.type \in MsgType
      BY <1>3 DEF Msg
    <2>3. e.type # "SendProgressed"
      BY <2>2 DEF on_message, MsgType
    <2> QED BY <2>1, <2>3
  <1> HIDE DEF l, k, e
  <1>5. \A j \in Links : Softer(link[j], link'[j]) /\ Softer(link'[j], link[j])
    BY <1>1, <1>2, <1>4, InvTypes, TellSofter
  <1> QED BY <1>2, <1>5, SofterChunks

\* Fail
LEMMA FailChunks ==
  ASSUME Inv, Paced, Fed, NEW p \in Peers, NEW q \in Peers, NEW c \in Conns,
         Fail(p, q, c)
  PROVE  Paced' /\ Fed'
  <1> DEFINE l == <<p, q, c>>
             k == <<q, p, c>>
             e == Report("Error")
             L0 == [link EXCEPT ![l].open = FALSE, ![l].busy = <<>>]
             L1 == Tell(L0, l, e)
             L2 == Tell(L1, k, e)
  <1>1. l \in Links /\ k \in Links
    BY DEF Links
  <1>2. /\ link' = L1 \/ link' = L2
        /\ Fault /\ UNCHANGED <<node, lifeVars>>
    BY DEF Fail
  <1>3. e \in Event /\ e.type # "SendProgressed"
    BY ReportEvents DEF Report
  <1> HIDE DEF l, k, e
  <1>4. L0 \in [Links -> Handler] /\ \A j \in Links : Softer(link[j], L0[j])
    <2>1. [link[l] EXCEPT !.open = FALSE, !.busy = <<>>] \in Handler
      BY <1>1, InvTypes, SlotType DEF Handler
    <2>2. L0 \in [Links -> Handler]
      BY <1>1, <2>1, InvTypes
    <2>3. \A j \in Links : /\ L0[j].inq = link[j].inq /\ L0[j].ev = link[j].ev
                           /\ L0[j].busy = link[j].busy \/ L0[j].busy = <<>>
      BY <1>1, InvTypes DEF Handler
    <2> HIDE DEF L0
    <2> QED BY <2>2, <2>3 DEF Softer
  <1> HIDE DEF L0
  <1>5. L1 \in [Links -> Handler] /\ \A j \in Links : Softer(L0[j], L1[j])
    BY <1>1, <1>3, <1>4, LinkReportType, TellSofter
  <1> HIDE DEF L1
  <1>6. \A j \in Links : Softer(L1[j], L2[j])
    BY <1>1, <1>3, <1>5, TellSofter
  <1> HIDE DEF L2
  <1>7. \A j \in Links : Softer(link[j], L1[j])
    BY <1>4, <1>5, SofterTrans
  <1>8. \A j \in Links : Softer(link[j], link'[j])
    BY <1>2, <1>6, <1>7, SofterTrans
  <1>9. ~Sound'
    BY <1>2, StillSound DEF lifeVars
  <1> QED BY <1>2, <1>8, <1>9, SofterChunks

\* Transmit
LEMMA TransmitChunks ==
  ASSUME Inv, Paced, Fed, NEW p \in Peers, NEW q \in Peers, NEW c \in Conns,
         Transmit(p, q, c)
  PROVE  Paced' /\ Fed'
  <1> DEFINE l == <<p, q, c>>
             i == Tail(link[l].inq)
             m == <<Head(link[l].inq)>>
  <1>1. l \in Links
    BY DEF Links
  <1>2. /\ link[l].busy = <<>> /\ link[l].inq # <<>>
        /\ link' = [link EXCEPT ![l].inq = i, ![l].busy = m]
        /\ UNCHANGED <<node, lifeVars, faults>>
    BY DEF Transmit
  <1> HIDE DEF i, m
  <1>3. /\ link'[l].inq = i /\ link'[l].busy = m
        /\ \A j \in Links : j # l => /\ link'[j].inq = link[j].inq
                                     /\ link'[j].busy = link[j].busy
        /\ \A j \in Links : link'[j].ev = link[j].ev
    <2> HIDE DEF l
    <2> QED BY <1>1, <1>2, InvTypes DEF Handler
  <1>4. Leaves(link, link', l)
    BY <1>2, <1>3 DEF Leaves, i, m
  <1> HIDE DEF l
  <1>5. \A x \in Peers : /\ Fewer(node, link, node, link', x)
                         /\ \A id : Lasts(node, link, node, link', x, id)
    BY <1>1, <1>4, InvTypes, LeaveFewer
  <1> QED BY <1>2, <1>5, NetChunks

\* Complete
LEMMA CompleteChunks ==
  ASSUME Inv, Paced, Fed, NEW p \in Peers, NEW q \in Peers, NEW c \in Conns,
         Complete(p, q, c)
  PROVE  Paced' /\ Fed'
  <1> DEFINE l == <<p, q, c>>
             h == link[l]
             d == [type |-> "SendProgressed", id |-> h.busy[1].id, body |-> <<>>]
             s == IF h.busy[1].type = "FileChunk" THEN Append(h.ev, d) ELSE h.ev
  <1>1. l \in Links
    BY DEF Links
  <1>2. /\ h.busy # <<>>
        /\ link' = [link EXCEPT ![l].busy = <<>>, ![l].ev = s]
        /\ UNCHANGED <<node, lifeVars, faults>>
    BY DEF Complete
  <1>3. d.type = "SendProgressed" /\ d.id = h.busy[1].id
    OBVIOUS
  <1> HIDE DEF l, s, d
  <1>4. /\ link'[l].ev = s /\ link'[l].busy = <<>>
        /\ \A j \in Links : j # l => /\ link'[j].ev = link[j].ev
                                     /\ link'[j].busy = link[j].busy
        /\ \A j \in Links : link'[j].inq = link[j].inq
    BY <1>1, <1>2, InvTypes DEF Handler
  <1>5. Ends(link, link', l, d)
    BY <1>2, <1>3, <1>4 DEF Ends, s
  <1>6. \A x \in Peers : /\ Fewer(node, link, node, link', x)
                         /\ \A id : Lasts(node, link, node, link', x, id)
    BY <1>1, <1>5, InvTypes, EndFewer
  <1> QED BY <1>2, <1>6, NetChunks

\* Connect: the two handlers are as new before it, too.
LEMMA ConnectChunks ==
  ASSUME Inv, Paced, Fed, Plugged,
         NEW p \in Peers, NEW q \in Peers, NEW c \in Conns, Connect(p, q, c)
  PROVE  Paced' /\ Fed'
  <1> DEFINE l == <<p, q, c>>
             k == <<q, p, c>>
  <1>1. l \in Links /\ k \in Links
    BY DEF Links
  <1>2. /\ link' = [link EXCEPT ![l] = NewHandler, ![k] = NewHandler]
        /\ UNCHANGED <<node, lifeVars, faults>>
        /\ c \notin conn[p][q] /\ c \notin conn[q][p]
    BY DEF Connect
  <1>3. link[l] = NewHandler /\ link[k] = NewHandler
    BY <1>1, <1>2 DEF Plugged
  <1> HIDE DEF l, k
  <1>4. \A j \in Links : link'[j] = link[j]
    BY <1>1, <1>2, <1>3, InvTypes
  <1>5. \A j \in Links : Softer(link[j], link'[j]) /\ Softer(link'[j], link[j])
    BY <1>4, SofterSame
  <1> QED BY <1>2, <1>5, SofterChunks

\* ConnectionLost and ConnectionNoticed: chunks go with the handler, and that
\* is a failure or the trace of one.
LEMMA CloseChunks ==
  ASSUME Inv, Inv', Paced, Fed, Paired,
         NEW p \in Peers, NEW q \in Peers, NEW c \in Conns,
         ConnectionLost(p, q, c) \/ ConnectionNoticed(p, q, c)
  PROVE  Paced' /\ Fed'
  <1> DEFINE l == <<p, q, c>>
             b == on_disconnect(node[p], q)
  <1>1. l \in Links
    BY DEF Links
  <1>2. /\ link' = [link EXCEPT ![l] = NewHandler]
        /\ UNCHANGED lifeVars
        /\ Set(p, b) \/ UNCHANGED node
        /\ Fault \/ (UNCHANGED faults /\ c \in conn[p][q] /\ c \notin conn[q][p])
    BY Zenon DEF ConnectionLost, ConnectionNoticed, Close
  <1>3. ~Sound'
    <2>1. CASE Fault
      BY <1>2, <2>1, StillSound DEF lifeVars
    <2>2. CASE UNCHANGED faults /\ c \in conn[p][q] /\ c \notin conn[q][p]
      <3>1. ~Sound
        BY <2>2 DEF Paired
      <3> QED BY <1>2, <2>2, <3>1 DEF Sound, lifeVars
    <2> QED BY <1>2, <2>1, <2>2
  <1>4. \A x \in Peers : Mute(node[x], node'[x])
    <2>1. CASE UNCHANGED node
      BY <2>1, SameMute
    <2>2. CASE Set(p, b)
      <3>1. b \in Behaviour /\ node[p] \in Behaviour
        BY <2>2, SetType, InvTypes
      <3>2. /\ b.pending_handler_event = node[p].pending_handler_event
            /\ b.send_counter = node[p].send_counter
            /\ b.pending_send \subseteq node[p].pending_send
            /\ b.ongoing_send \subseteq node[p].ongoing_send
        BY <3>1 DEF on_disconnect, Behaviour
      <3> HIDE DEF b
      <3>3. b.send_counter \in Nat
        BY <3>1 DEF Behaviour
      <3>4. node[p].send_counter <= b.send_counter
        BY <3>2, <3>3
      <3>5. Quietly(node[p].pending_handler_event, b.pending_handler_event)
        BY <3>2 DEF Quietly
      <3>6. Mute(node[p], b)
        BY <3>1, <3>2, <3>4, <3>5, QuietlyMute
      <3> QED BY <2>2, <3>6, SetMute
    <2> QED BY <1>2, <2>1, <2>2
  <1> HIDE DEF l
  <1>5. \A j \in Links : link'[j] = NewHandler \/ link'[j] = link[j]
    BY <1>1, <1>2, InvTypes
  <1>6. \A j \in Links : Softer(link[j], link'[j])
    BY <1>5, SofterSame
  <1>7. \A x \in Peers : Fewer(node, link, node, link', x)
    BY <1>6, SofterFewer
  <1> QED BY <1>3, <1>4, <1>7, ChunkStep

\* SendFileLate, AcceptedTwice and Restart
LEMMA GoneChunks ==
  ASSUME Inv, Inv', FlowInv', Paced, NEW p \in Peers,
         \/ \E q \in Peers : SendFileLate(p, q)
         \/ \E q \in Peers, c \in Conns : AcceptedTwice(p, q, c)
         \/ Restart(p)
  PROVE  Drop(p) /\ ~Sound' /\ Paced' /\ Fed'
  <1>1. faults \in Nat /\ restarts \in Nat
    BY InvTypes DEF Inv, GhostType
  <1>2. ASSUME NEW q \in Peers, SendFileLate(p, q)
        PROVE  Drop(p) /\ ~Sound'
    <2>1. Drop(p) /\ faults' = faults + 1
      BY <1>2 DEF SendFileLate, Fault
    <2>2. faults' # 0
      BY <1>1, <2>1
    <2> QED BY <2>1, <2>2 DEF Sound
  <1>3. ASSUME NEW q \in Peers, NEW c \in Conns, AcceptedTwice(p, q, c)
        PROVE  Drop(p) /\ ~Sound'
    <2>1. Drop(p) /\ panic' = [panic EXCEPT ![p] = "Already handled"]
      BY <1>3 DEF AcceptedTwice
    <2>2. panic'[p] = "Already handled"
      BY <2>1 DEF Inv, NetType, GhostType
    <2>3. restarts' # 0
      BY <2>2 DEF FlowInv, Flow
    <2> QED BY <2>1, <2>3 DEF Sound
  <1>4. ASSUME Restart(p)
        PROVE  Drop(p) /\ ~Sound'
    <2>1. Drop(p) /\ restarts' = restarts + 1
      BY <1>4 DEF Restart
    <2>2. restarts' # 0
      BY <1>1, <2>1
    <2> QED BY <2>1, <2>2 DEF Sound
  <1>5. Drop(p) /\ ~Sound'
    BY <1>2, <1>3, <1>4
  <1>6. Paced'
    BY <1>5, DropChunks
  <1>7. Fed'
    BY <1>5 DEF Fed
  <1> QED BY <1>5, <1>6, <1>7

-----------------------------------------------------------------------------
(* Handlers and connections. *)

\* Only handlers that have a connection change.
LEMMA StayPlugged ==
  ASSUME Plugged, Paired, UNCHANGED conn, Sound' => Sound,
         \A l \in Links : link'[l] = link[l] \/ l[3] \in conn[l[1]][l[2]]
  PROVE  Plugged' /\ Paired'
  BY DEF Plugged, Paired

\* What the user, the swarm and the Behaviour do to one handler.
LEMMA PlainPlugged ==
  ASSUME Inv, Plugged, Paired, UNCHANGED <<conn, restarts>>,
         UNCHANGED faults \/ Fault,
         NEW p, NEW q, NEW c, NEW h,
         UNCHANGED link \/ c \in conn[p][q],
         UNCHANGED link \/ link' = [link EXCEPT ![<<p, q, c>>] = h]
  PROVE  Plugged' /\ Paired'
  <1> DEFINE l == <<p, q, c>>
  <1>1. l[1] = p /\ l[2] = q /\ l[3] = c
    OBVIOUS
  <1>2. UNCHANGED link \/ link' = [link EXCEPT ![l] = h]
    OBVIOUS
  <1> HIDE DEF l
  <1>3. \A j \in Links : link'[j] = link[j] \/ j = l
    BY <1>2, InvTypes
  <1>4. \A j \in Links : link'[j] = link[j] \/ j[3] \in conn[j[1]][j[2]]
    BY <1>1, <1>3
  <1>5. Sound' => Sound
    BY StillSound
  <1> QED BY <1>4, <1>5, StayPlugged

\* User, but for SendFileLate
LEMMA UserPlugged ==
  ASSUME Inv, Plugged, Paired, NEW p \in Peers,
         \/ \E q \in Peers, f \in Files : SendFile(p, q, f)
         \/ \E q \in Peers : SendFileNotFound(p, q) \/ SendFileNoMetadata(p, q)
         \/ AcceptFile(p)
         \/ \E id : CancelRecv(p, id) \/ CancelSend(p, id)
  PROVE  Plugged' /\ Paired'
  <1>1. UNCHANGED <<connVars, lifeVars>> /\ (UNCHANGED faults \/ Fault)
    BY Zenon DEF SendFile, SendFileNotFound, SendFileNoMetadata, AcceptFile,
       CancelRecv, CancelSend
  <1>2. UNCHANGED <<conn, restarts, link>>
    BY <1>1 DEF connVars, lifeVars
  <1> QED BY <1>1, <1>2, PlainPlugged

\* Poll and PollExpiry
LEMMA PollPlugged ==
  ASSUME Inv, Plugged, Paired, NEW p \in Peers, NEW x, PollWith(p, x)
  PROVE  Plugged' /\ Paired'
  <1> DEFINE h == Head(check_expiry(node[p], x).pending_handler_event)
  <1>1. /\ UNCHANGED <<conn, lifeVars, faults>>
        /\ \/ UNCHANGED link
           \/ \E c \in conn[p][h.to] :
                link' = [link EXCEPT ![<<p, h.to, c>>].inq = Append(@, h.msg)]
    BY Zenon DEF PollWith, PollOutEvent, PollHandlerEvent
  <1>2. UNCHANGED <<conn, restarts, faults>>
    BY <1>1 DEF lifeVars
  <1> HIDE DEF h
  <1>3. ASSUME NEW c \in conn[p][h.to],
               link' = [link EXCEPT ![<<p, h.to, c>>].inq = Append(@, h.msg)]
        PROVE  Plugged' /\ Paired'
    <2>1. PICK g : link' = [link EXCEPT ![<<p, h.to, c>>] = g]
      BY <1>3
    <2> QED BY <1>2, <1>3, <2>1, PlainPlugged
  <1>4. CASE UNCHANGED link
    BY <1>2, <1>4, PlainPlugged
  <1> QED BY <1>1, <1>3, <1>4

\* HandlerEvent, but for AcceptedTwice
LEMMA EventPlugged ==
  ASSUME Inv, Plugged, Paired, NEW p \in Peers, NEW q \in Peers, NEW c \in Conns,
         \/ OnIncomingFile(p, q, c) \/ OnRecvProgressed(p, q, c)
         \/ OnFileSendAccepted(p, q, c) \/ OnSendProgressed(p, q, c)
         \/ OnRemoteCancelSend(p, q, c) \/ OnRemoteCancelRecv(p, q, c)
         \/ OnOutboundNegotiated(p, q, c)
         \/ \E t : OnReport(p, q, c, t)
  PROVE  Plugged' /\ Paired'
  <1>1. /\ c \in conn[p][q] /\ TakeEvent(p, q, c) /\ UNCHANGED lifeVars
        /\ UNCHANGED faults \/ Fault
    <2>1. CASE OnRecvProgressed(p, q, c)
      BY <2>1, Zenon DEF OnRecvProgressed, HasEvent
    <2>2. CASE OnFileSendAccepted(p, q, c)
      BY <2>2, Zenon DEF OnFileSendAccepted, HasEvent
    <2>3. CASE OnSendProgressed(p, q, c)
      BY <2>3, Zenon DEF OnSendProgressed, HasEvent
    <2>4. CASE OnRemoteCancelSend(p, q, c) \/ OnRemoteCancelRecv(p, q, c)
      BY <2>4, Zenon DEF OnRemoteCancelSend, OnRemoteCancelRecv, HasEvent
    <2>5. CASE \/ OnIncomingFile(p, q, c) \/ OnOutboundNegotiated(p, q, c)
               \/ \E t : OnReport(p, q, c, t)
      BY <2>5, Zenon DEF OnIncomingFile, OnOutboundNegotiated, OnReport, HasEvent
    <2> QED BY <2>1, <2>2, <2>3, <2>4, <2>5
  <1>2. UNCHANGED <<conn, restarts>>
    BY <1>1 DEF lifeVars, TakeEvent
  <1>3. PICK g : link' = [link EXCEPT ![<<p, q, c>>] = g]
    BY <1>1 DEF TakeEvent
  <1> QED BY <1>1, <1>2, <1>3, PlainPlugged

\* OpenStream, Transmit, Arrive, Complete and Fail
LEMMA NetPlugged ==
  ASSUME Inv, Plugged, Paired, NEW p \in Peers, NEW q \in Peers, NEW c \in Conns,
         \/ OpenStream(p, q, c) \/ Transmit(p, q, c) \/ Arrive(p, q, c)
         \/ Complete(p, q, c) \/ Fail(p, q, c)
  PROVE  Plugged' /\ Paired'
  <1> DEFINE l == <<p, q, c>>
             k == <<q, p, c>>
  <1>1. /\ l[1] = p /\ l[2] = q /\ l[3] = c
        /\ k[1] = q /\ k[2] = p /\ k[3] = c
        /\ l \in Links /\ k \in Links
    BY DEF Links
  <1>2. UNCHANGED <<conn, lifeVars>> /\ (UNCHANGED faults \/ Fault)
    BY Zenon DEF OpenStream, Transmit, Arrive, Complete, Fail
  <1>3. Sound' => Sound
    BY <1>2, StillSound DEF lifeVars
  <1>4. CASE OpenStream(p, q, c)
    <2>1. c \in conn[p][q] /\ c \in conn[q][p]
      BY <1>4 DEF OpenStream
    <2>2. link' = Tell(Tell([link EXCEPT ![l].open = TRUE], l,
                            Report("OutboundNegotiated")),
                       k, Report("InboundNegotiated"))
      BY <1>4 DEF OpenStream
    <2> HIDE DEF l, k
    <2>3. \A j \in Links : link'[j] = link[j] \/ j = l \/ j = k
      BY <1>1, <2>2, InvTypes DEF Tell
    <2>4. \A j \in Links : link'[j] = link[j] \/ j[3] \in conn[j[1]][j[2]]
      BY <1>1, <2>1, <2>3
    <2> QED BY <1>2, <1>3, <2>4, StayPlugged
  <1>5. CASE Transmit(p, q, c) \/ Complete(p, q, c)
    <2>1. c \in conn[p][q]
      BY <1>5 DEF Transmit, Complete
    <2>2. \E h : link' = [link EXCEPT ![l] = h]
      BY <1>5 DEF Transmit, Complete
    <2> HIDE DEF l
    <2>3. \A j \in Links : link'[j] = link[j] \/ j = l
      BY <1>1, <2>2, InvTypes
    <2>4. \A j \in Links : link'[j] = link[j] \/ j[3] \in conn[j[1]][j[2]]
      BY <1>1, <2>1, <2>3
    <2> QED BY <1>2, <1>3, <2>4, StayPlugged
  <1>6. CASE Arrive(p, q, c)
    <2>1. c \in conn[q][p]
      BY <1>6 DEF Arrive
    <2>2. link' = Tell(link, k, on_message(wire[l][1]))
      BY <1>6 DEF Arrive
    <2> HIDE DEF k
    <2>3. \A j \in Links : link'[j] = link[j] \/ j = k
      BY <1>1, <2>2, InvTypes DEF Tell
    <2>4. \A j \in Links : link'[j] = link[j] \/ j[3] \in conn[j[1]][j[2]]
      BY <1>1, <2>1, <2>3
    <2> QED BY <1>2, <1>3, <2>4, StayPlugged
  <1>7. CASE Fail(p, q, c)
    <2> DEFINE here == Tell([link EXCEPT ![l].open = FALSE, ![l].busy = <<>>],
                            l, Report("Error"))
    <2>1. c \in conn[p][q]
      BY <1>7 DEF Fail
    <2>2. \/ link' = here
          \/ c \in conn[q][p] /\ link' = Tell(here, k, Report("Error"))
      BY <1>7 DEF Fail
    <2>3. DOMAIN here = Links /\ \A j \in Links : here[j] = link[j] \/ j = l
      <3> HIDE DEF l
      <3> QED BY <1>1, InvTypes DEF Tell
    <2> HIDE DEF l, k, here
    <2>4. \A j \in Links : \/ link'[j] = link[j] \/ j = l
                           \/ j = k /\ c \in conn[q][p]
      BY <1>1, <2>2, <2>3 DEF Tell
    <2>5. \A j \in Links : link'[j] = link[j] \/ j[3] \in conn[j[1]][j[2]]
      BY <1>1, <2>1, <2>4
    <2> QED BY <1>2, <1>3, <2>5, StayPlugged
  <1> QED BY <1>4, <1>5, <1>6, <1>7

\* Connect
LEMMA ConnectPlugged ==
  ASSUME Inv, Plugged, Paired, NEW p \in Peers, NEW q \in Peers, NEW c \in Conns,
         Connect(p, q, c)
  PROVE  Plugged' /\ Paired'
  <1>1. /\ conn' = [conn EXCEPT ![p][q] = @ \cup {c}, ![q][p] = @ \cup {c}]
        /\ link' = [link EXCEPT ![<<p, q, c>>] = NewHandler,
                                ![<<q, p, c>>] = NewHandler]
        /\ UNCHANGED <<lifeVars, faults>> /\ p # q
    BY DEF Connect
  <1>2. conn \in [Peers -> [Peers -> SUBSET Conns]]
    BY DEF Inv, NetType
  <1>3. \A x, y \in Peers :
          conn'[x][y] = IF <<x, y>> \in {<<p, q>>, <<q, p>>}
                          THEN conn[x][y] \cup {c} ELSE conn[x][y]
    BY <1>1, <1>2
  <1>4. Sound' => Sound
    BY <1>1 DEF Sound, lifeVars
  <1>5. \A l \in Links : link'[l] = NewHandler \/ link'[l] = link[l]
    BY <1>1, InvTypes
  <1>6. \A l \in Links : l[1] \in Peers /\ l[2] \in Peers
    BY DEF Links
  <1>7. Plugged'
    <2>1. \A l \in Links : l[3] \notin conn'[l[1]][l[2]]
            => l[3] \notin conn[l[1]][l[2]]
      BY <1>3, <1>6
    <2> QED BY <1>5, <2>1 DEF Plugged
  <1>8. Paired'
    <2> SUFFICES ASSUME Sound', NEW x \in Peers, NEW y \in Peers
                 PROVE  conn'[x][y] = conn'[y][x]
      BY DEF Paired
    <2>1. conn[x][y] = conn[y][x]
      BY <1>4 DEF Paired
    <2>2. <<x, y>> \in {<<p, q>>, <<q, p>>} <=> <<y, x>> \in {<<p, q>>, <<q, p>>}
      OBVIOUS
    <2> QED BY <1>3, <2>1, <2>2
  <1> QED BY <1>7, <1>8

\* ConnectionLost and ConnectionNoticed
LEMMA ClosePlugged ==
  ASSUME Inv, Plugged, Paired, NEW p \in Peers, NEW q \in Peers, NEW c \in Conns,
         ConnectionLost(p, q, c) \/ ConnectionNoticed(p, q, c)
  PROVE  Plugged' /\ Paired'
  <1> DEFINE k == <<p, q, c>>
  <1>1. /\ conn' = [conn EXCEPT ![p][q] = @ \ {c}]
        /\ link' = [link EXCEPT ![k] = NewHandler]
        /\ UNCHANGED lifeVars
        /\ Fault \/ (UNCHANGED faults /\ c \in conn[p][q] /\ c \notin conn[q][p])
    BY Zenon DEF ConnectionLost, ConnectionNoticed, Close
  <1>2. conn \in [Peers -> [Peers -> SUBSET Conns]]
    BY DEF Inv, NetType
  <1>3. \A x, y \in Peers :
          conn'[x][y] = IF x = p /\ y = q THEN conn[x][y] \ {c} ELSE conn[x][y]
    BY <1>1, <1>2
  <1>4. ~Sound'
    <2>1. CASE Fault
      BY <1>1, <2>1, StillSound DEF lifeVars
    <2>2. CASE UNCHANGED faults /\ c \in conn[p][q] /\ c \notin conn[q][p]
      <3>1. ~Sound
        BY <2>2 DEF Paired
      <3> QED BY <1>1, <2>2, <3>1 DEF Sound, lifeVars
    <2> QED BY <1>1, <2>1, <2>2
  <1>5. \A l \in Links : /\ l[1] \in Peers /\ l[2] \in Peers
                         /\ l[1] = p /\ l[2] = q /\ l[3] = c => l = k
    BY DEF Links
  <1> HIDE DEF k
  <1>6. \A l \in Links : IF l = k THEN link'[l] = NewHandler
                                  ELSE link'[l] = link[l]
    BY <1>1, InvTypes
  <1>7. \A l \in Links : l[3] \notin conn'[l[1]][l[2]]
          => l[3] \notin conn[l[1]][l[2]] \/ l = k
    BY <1>3, <1>5
  <1>8. Plugged'
    BY <1>6, <1>7 DEF Plugged
  <1> QED BY <1>4, <1>8 DEF Paired

\* SendFileLate, AcceptedTwice and Restart
LEMMA DropPlugged ==
  ASSUME Inv, Plugged, NEW p \in Peers, Drop(p), ~Sound'
  PROVE  Plugged' /\ Paired'
  <1>1. conn \in [Peers -> [Peers -> SUBSET Conns]]
    BY DEF Inv, NetType
  <1>2. \A x \in Peers : x # p => conn'[x] = conn[x]
    BY <1>1 DEF Drop
  <1>3. \A l \in Links : link'[l] = IF l[1] = p THEN NewHandler ELSE link[l]
    BY DEF Drop
  <1>4. \A l \in Links : l[1] \in Peers
    BY DEF Links
  <1>5. Plugged'
    BY <1>2, <1>3, <1>4 DEF Plugged
  <1> QED BY <1>5 DEF Paired

-----------------------------------------------------------------------------
(* The invariant and the theorem. *)

ChunkInv == Paced /\ Fed /\ Plugged /\ Paired

\* The program starts without chunks.
LEMMA InitChunks == Init => ChunkInv
  <1> SUFFICES ASSUME Init
               PROVE  ChunkInv
    OBVIOUS
  <1>1. ASSUME NEW p \in Peers
        PROVE  /\ node[p].pending_handler_event = <<>>
               /\ node[p].pending_send = {} /\ node[p].ongoing_send = {}
    BY DEF Init, InitBehaviour, NewBehaviour
  <1>2. \A l \in Links : /\ link[l].inq = <<>> /\ link[l].ev = <<>>
                         /\ link[l].busy = <<>>
    BY DEF Init, NewHandler
  <1>3. ASSUME NEW p \in Peers
        PROVE  PacedAt(node, link, p) /\ FedAt(node, link, p)
    <2>1. \A id, k, l, i : ~Tok(node, link, p, id, k, l, i)
      BY <1>1, <1>2 DEF Tok
    <2>2. Sole(node, link, p)
      BY <2>1 DEF Sole
    <2>3. \A id : ~On(node, link, p, id)
      BY <2>1 DEF On
    <2>4. Addressed(node[p])
      BY <1>1 DEF Addressed
    <2> QED BY <1>1, <2>2, <2>3, <2>4 DEF PacedAt, FedAt
  <1>4. \A p, q \in Peers : conn[p][q] = {c \in Conns : <<p, q, c>> \in Up}
    BY DEF Init
  <1>5. ASSUME NEW l \in Links, l[3] \notin conn[l[1]][l[2]]
        PROVE  link[l] = NewHandler
    <2>1. PICK a \in Peers, b \in Peers, c \in Conns : l = <<a, b, c>>
      BY DEF Links
    <2>2. c \notin conn[a][b]
      BY <1>5, <2>1
    <2>3. l \notin Up
      BY <1>4, <2>1, <2>2
    <2>4. (l \in Up) = FALSE
      BY <2>3
    <2>5. link[l] = [NewHandler EXCEPT !.open = (l \in Up)]
      BY DEF Init
    <2>6. link[l] = [NewHandler EXCEPT !.open = FALSE]
      BY <2>4, <2>5, Zenon
    <2> QED BY <2>6 DEF NewHandler
  <1>6. ASSUME NEW p \in Peers, NEW q \in Peers
        PROVE  conn[p][q] = conn[q][p]
    <2>1. ASSUME NEW a \in Peers, NEW b \in Peers, NEW c \in Conns,
                 <<a, b, c>> \in Up
          PROVE  <<b, a, c>> \in Up
      BY <2>1, UpAssumption
    <2>2. \A c \in Conns : <<p, q, c>> \in Up <=> <<q, p, c>> \in Up
      BY <2>1
    <2>3. /\ conn[p][q] = {c \in Conns : <<p, q, c>> \in Up}
          /\ conn[q][p] = {c \in Conns : <<q, p, c>> \in Up}
      BY <1>4
    <2>4. \A c : c \in conn[p][q] <=> c \in conn[q][p]
      BY <2>2, <2>3
    <2> QED BY <2>3, <2>4
  <1> QED BY <1>3, <1>5, <1>6 DEF ChunkInv, Paced, Fed, Plugged, Paired

\* Every step keeps the invariant.
LEMMA NextChunks ==
  Inv /\ Inv' /\ FlowInv' /\ ChunkInv /\ [Next]_vars => ChunkInv'
  <1> SUFFICES ASSUME Inv, Inv', FlowInv', Paced, Fed, Plugged, Paired, [Next]_vars
               PROVE  Paced' /\ Fed' /\ Plugged' /\ Paired'
    BY DEF ChunkInv
  <1> DEFINE Upheld == Paced' /\ Fed' /\ Plugged' /\ Paired'
  <1>1. ASSUME NEW p \in Peers,
               \/ \E q \in Peers : SendFileLate(p, q)
               \/ \E q \in Peers, c \in Conns : AcceptedTwice(p, q, c)
               \/ Restart(p)
        PROVE  Upheld
    <2>1. Drop(p) /\ ~Sound' /\ Paced' /\ Fed'
      BY <1>1, GoneChunks, Zenon
    <2> QED BY <2>1, DropPlugged
  <1>2. ASSUME NEW p \in Peers, User(p)
        PROVE  Upheld
    <2>1. node[p].recv_counter \in Nat /\ node[p].send_counter \in Nat
      BY InvTypes DEF Behaviour
    <2>2. ASSUME NEW q \in Peers, NEW f \in Files, SendFile(p, q, f)
          PROVE  Upheld
      BY <2>2, SendFileChunks, UserPlugged
    <2>3. ASSUME NEW q \in Peers, SendFileNotFound(p, q) \/ SendFileNoMetadata(p, q)
          PROVE  Upheld
      BY <2>3, SendFileNothingChunks, UserPlugged
    <2>4. ASSUME NEW q \in Peers, SendFileLate(p, q)
          PROVE  Upheld
      BY <1>1, <2>4
    <2>5. CASE AcceptFile(p)
      BY <2>5, AcceptFileChunks, UserPlugged
    <2>6. ASSUME NEW id \in 0..(node[p].recv_counter - 1), CancelRecv(p, id)
          PROVE  Upheld
      <3>1. id \in Nat
        BY <2>1
      <3> QED BY <2>6, <3>1, CancelRecvChunks, UserPlugged
    <2>7. ASSUME NEW id \in 0..(node[p].send_counter - 1), CancelSend(p, id)
          PROVE  Upheld
      <3>1. id \in Nat
        BY <2>1
      <3> QED BY <2>7, <3>1, CancelSendChunks, UserPlugged
    <2> HIDE DEF Upheld
    <2> QED BY <1>2, <2>2, <2>3, <2>4, <2>5, <2>6, <2>7, Zenon DEF User
  <1>3. ASSUME NEW p \in Peers, Poll(p) \/ PollExpiry(p)
        PROVE  Upheld
    BY <1>3, PollChunks, PollPlugged DEF Poll, PollExpiry
  <1>4. ASSUME NEW p \in Peers, NEW q \in Peers, NEW c \in Conns,
               HandlerEvent(p, q, c)
        PROVE  Upheld
    <2>1. CASE AcceptedTwice(p, q, c)
      BY <1>1, <2>1
    <2>2. CASE \/ OnIncomingFile(p, q, c) \/ OnRecvProgressed(p, q, c)
               \/ OnFileSendAccepted(p, q, c) \/ OnSendProgressed(p, q, c)
               \/ OnRemoteCancelSend(p, q, c) \/ OnRemoteCancelRecv(p, q, c)
               \/ OnOutboundNegotiated(p, q, c)
               \/ \E t \in {"Error", "InboundNegotiated"} : OnReport(p, q, c, t)
      <3>1. Plugged' /\ Paired'
        BY <2>2, EventPlugged, Zenon
      <3>2. Paced' /\ Fed'
        BY <2>2, OnIncomingFileChunks, OnRecvProgressedChunks,
           OnFileSendAcceptedChunks, OnSendProgressedChunks,
           OnRemoteCancelSendChunks, OnRemoteCancelRecvChunks,
           OnReportChunks, Zenon
      <3> QED BY <3>1, <3>2
    <2> HIDE DEF Upheld
    <2> QED BY <1>4, <2>1, <2>2, Zenon DEF HandlerEvent
  <1>5. ASSUME NEW p \in Peers, NEW q \in Peers, NEW c \in Conns,
               Transport(p, q, c) \/ Failure(p, q, c) \/ Connect(p, q, c)
        PROVE  Upheld
    <2>1. CASE \/ OpenStream(p, q, c) \/ Transmit(p, q, c) \/ Arrive(p, q, c)
               \/ Complete(p, q, c) \/ Fail(p, q, c)
      <3>1. Plugged' /\ Paired'
        BY <2>1, NetPlugged, Zenon
      <3>2. Paced' /\ Fed'
        BY <2>1, OpenStreamChunks, TransmitChunks, ArriveChunks,
           CompleteChunks, FailChunks, Zenon
      <3> QED BY <3>1, <3>2
    <2>2. CASE ConnectionLost(p, q, c) \/ ConnectionNoticed(p, q, c)
      BY <2>2, CloseChunks, ClosePlugged, Zenon
    <2>3. CASE Connect(p, q, c)
      BY <2>3, ConnectChunks, ConnectPlugged, Zenon
    <2> HIDE DEF Upheld
    <2> QED BY <1>5, <2>1, <2>2, <2>3, Zenon DEF Transport, Failure
  <1>6. ASSUME UNCHANGED vars
        PROVE  Upheld
    <2>1. UNCHANGED <<node, conn, link, faults, restarts>>
      BY <1>6 DEF vars
    <2>2. Paced' /\ Fed'
      BY <2>1 DEF Paced, Fed, Sound
    <2>3. Plugged' /\ Paired'
      BY <2>1 DEF Plugged, Paired, Sound
    <2> QED BY <2>2, <2>3
  <1>7. ASSUME NEW p \in Peers, Restart(p)
        PROVE  Upheld
    BY <1>1, <1>7
  <1> HIDE DEF Upheld
  <1>8. Upheld
    BY <1>2, <1>3, <1>4, <1>5, <1>6, <1>7, Zenon DEF Next
  <1> QED BY <1>8 DEF Upheld

\* The invariant holds in every reachable state.
LEMMA ChunksHold == Spec => []ChunkInv
  <1>1. Spec => []Inv
    BY InvHolds
  <1>2. Spec => []FlowInv
    BY FlowHolds
  <1>3. Init => ChunkInv
    BY InitChunks
  <1>4. Inv /\ Inv' /\ FlowInv' /\ ChunkInv /\ [Next]_vars => ChunkInv'
    BY NextChunks
  <1> QED BY <1>1, <1>2, <1>3, <1>4, PTL DEF Spec

\* Flow control of progress_ongoing_send, with any number of peers,
\* connections and files and whatever fails: the chunks of a send leave one at
\* a time, the next is read when the last is acknowledged, and until something
\* fails no ongoing send is ever without one.
THEOREM OneChunkOnItsWay == Spec => []OneChunkInFlight
  <1>1. ASSUME ChunkInv
        PROVE  OneChunkInFlight
    <2>1. ASSUME NEW p \in Peers, NEW id,
                 NEW x \in Outstanding(p, id), NEW y \in Outstanding(p, id)
          PROVE  x = y
      <3>1. PICK k, l, i : x = <<k, l, i>> /\ Tok(node, link, p, id, k, l, i)
        BY <2>1, OutstandingTok
      <3>2. PICK k2, l2, i2 : y = <<k2, l2, i2>>
                              /\ Tok(node, link, p, id, k2, l2, i2)
        BY <2>1, OutstandingTok
      <3>3. k = k2 /\ l = l2 /\ i = i2
        BY <1>1, <3>1, <3>2 DEF ChunkInv, Paced, PacedAt, Sole
      <3> QED BY <3>1, <3>2, <3>3
    <2>2. ASSUME NEW p \in Peers, faults = 0, restarts = 0,
                 NEW s \in node[p].ongoing_send
          PROVE  Outstanding(p, s.local_send_id) # {}
      <3>1. On(node, link, p, s.local_send_id)
        BY <1>1, <2>2 DEF ChunkInv, Fed, Sound, FedAt
      <3>2. PICK k, l, i : Tok(node, link, p, s.local_send_id, k, l, i)
        BY <3>1 DEF On
      <3>3. <<k, l, i>> \in Outstanding(p, s.local_send_id)
        BY <3>2, OutstandingTok
      <3> QED BY <3>3
    <2> QED BY <2>1, <2>2 DEF OneChunkInFlight
  <1> QED BY <1>1, ChunksHold, PTL

=============================================================================
