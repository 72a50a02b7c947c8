-------------------------- MODULE BlobOrderProofs --------------------------
(***************************************************************************)
(* Proofs of WrittenIsPrefix and CompletionIsWhole.                        *)
(*                                                                         *)
(* Chunks carry no offset: progress_ongoing_recv appends what it is given. *)
(* That the file comes out right rests on the way of every chunk: the      *)
(* queue of the sender, the inbox of a handler, its stream, the events of  *)
(* the handler at the other end.  Row(.., q, o) says for one recv o of q   *)
(* that what is written is a beginning of the file (Wrote), and that the   *)
(* chunks on their way are those that follow, each once, in order (Ahead,  *)
(* Lined, Behind) and without a gap (Whole), up to where the sender is     *)
(* (Sourced).  The other parts of Order say why no chunk of an earlier     *)
(* transfer is among them: a chunk on a stream is the only one of its send *)
(* that is not acknowledged (Tied, from the invariant of BlobChunkProofs), *)
(* a send with a chunk anywhere is past its request (Spent, from that of   *)
(* BlobFlowProofs), and the two ends mean the same file (Match).           *)
(*                                                                         *)
(* Every action moves chunks, or loses them (Still, RowStep); or a chunk   *)
(* lands at the receiver (RowLanded); or the first one is written; or the  *)
(* next one is read.  The hypotheses are needed: over two connections      *)
(* reports may be taken in another order than chunks were read             *)
(* (OneConnection), ongoing_recv is indexed by the remote's id alone       *)
(* (KeysApart), and a restarted peer gives out its ids again.              *)
(***************************************************************************)
EXTENDS BlobChunkProofs, SequenceTheorems

-----------------------------------------------------------------------------
(* Where the content of a chunk is.  N, L and W stand for node, link and   *)
(* wire, before or after a step.                                           *)

IsPart(m, id, b) == m.type = "FileChunk" /\ m.id = id /\ m.body = b
IsGot(e, id, b)  == e.type = "RecvProgressed" /\ e.id = id /\ e.body = b

\* In pending_handler_event of p, for x.
Queued(N, p, x, id, b) ==
  \E i \in DOMAIN N[p].pending_handler_event :
    /\ N[p].pending_handler_event[i].to = x
    /\ IsPart(N[p].pending_handler_event[i].msg, id, b)

\* In the inbox of a handler, outstanding at it, on its stream.
Boxed(L, l, id, b)  == \E i \in DOMAIN L[l].inq : IsPart(L[l].inq[i], id, b)
Loaded(L, l, id, b) == L[l].busy # <<>> /\ IsPart(L[l].busy[1], id, b)
Float(W, l, id, b)  == W[l] # <<>> /\ IsPart(W[l][1], id, b)

\* Event i of a handler reports it, or reports that it is acknowledged.
Got(L, l, i, id, b) == i \in DOMAIN L[l].ev /\ IsGot(L[l].ev[i], id, b)
Rung(L, l, id)      == \E i \in DOMAIN L[l].ev : Acked(L[l].ev[i], id)

\* The next chunk of send id of p may be read.
Ready(L, W, p, id) ==
  \E l \in Links :
    /\ l[1] = p
    /\ \/ Rung(L, l, id)
       \/ W[l] = <<>> /\ \E b : Loaded(L, l, id, b)

\* A chunk that p has not seen acknowledged, for x.
Own(N, L, p, x, id, b) ==
  \/ Queued(N, p, x, id, b)
  \/ \E c \in Conns : \/ Boxed(L, <<p, x, c>>, id, b)
                      \/ Loaded(L, <<p, x, c>>, id, b)

\* A chunk from p that x has not read, one that it has read and not written,
\* and either.
Rear(N, L, W, p, x, id, b) ==
  \/ Queued(N, p, x, id, b)
  \/ \E c \in Conns : \/ Boxed(L, <<p, x, c>>, id, b)
                      \/ Float(W, <<p, x, c>>, id, b)
Seen(L, p, x, id, b) == \E c \in Conns : \E i : Got(L, <<x, p, c>>, i, id, b)
Under(N, L, W, p, x, id, b) == Rear(N, L, W, p, x, id, b) \/ Seen(L, p, x, id, b)

-----------------------------------------------------------------------------
(* The invariant. *)

\* A chunk on a stream is the only one of its send, and it is outstanding at
\* the handler of that stream or given up.
Tied(N, L, W) ==
  \A l \in Links : \A id, b : Float(W, l, id, b) =>
    /\ \A x \in Peers : \A b2 : ~Queued(N, l[1], x, id, b2)
    /\ \A g \in Links : g[1] = l[1] =>
         /\ ~Rung(L, g, id)
         /\ \A b2 : /\ ~Boxed(L, g, id, b2)
                    /\ Loaded(L, g, id, b2) => g = l /\ b2 = b

\* The request of send id of p to x is behind.
Clear(N, L, W, P, p, x, id) ==
  /\ P[p] = "none" => id < N[p].send_counter
  /\ \A r \in N[x].pending_recv : ~About(r, p, id)
  /\ \A m \in Letter : m.type = "IncomingFile" /\ m.id = id
       => ~Aloft(N, L, W, m, p, x)

\* A send with a chunk anywhere is past its request.
Spent(N, L, W, P) ==
  \A p, x \in Peers : \A id \in Nat : \A b : Under(N, L, W, p, x, id, b) =>
    /\ Clear(N, L, W, P, p, x, id)
    /\ \A s \in N[p].pending_send : s.local_send_id # id

\* Both ends of a transfer mean the same file.
Match(N) ==
  \A p, q \in Peers : \A o \in N[q].ongoing_recv : \A s \in Sends(N[p]) :
    About(o, p, s.local_send_id) => s.remote = q /\ s.file = o.file

\* The place of a chunk in its file; the empty one comes after the others.
No(f, b)   == IF b = <<>> THEN FileData[f] + 1 ELSE b[1][2]
Fits(f, b) == b = <<>> \/ \E n \in 1..FileData[f] : b = <<<<f, n>>>>

\* What o has written.
Wrote(o) ==
  /\ Len(o.data) <= FileData[o.file]
  /\ \A i \in 1..Len(o.data) : o.data[i] = <<o.file, i>>

\* Every chunk for o is one of its file and still to be written.
Ahead(N, L, W, q, o) ==
  \A b : Under(N, L, W, o.remote, q, o.remote_send_id, b) =>
    Fits(o.file, b) /\ Len(o.data) < No(o.file, b)

\* They are read in order ...
Lined(L, q, o) ==
  \A c \in Conns : \A i, j, b, b2 :
    /\ Got(L, <<q, o.remote, c>>, i, o.remote_send_id, b)
    /\ Got(L, <<q, o.remote, c>>, j, o.remote_send_id, b2)
    /\ i < j
    => No(o.file, b) < No(o.file, b2)

\* ... the last one last ...
Behind(N, L, W, q, o) ==
  \A b, b2 :
    /\ Rear(N, L, W, o.remote, q, o.remote_send_id, b)
    /\ Seen(L, o.remote, q, o.remote_send_id, b2)
    => No(o.file, b2) < No(o.file, b)

\* ... and none is missing.
Whole(N, L, W, q, o) ==
  \A b : /\ Under(N, L, W, o.remote, q, o.remote_send_id, b)
         /\ No(o.file, b) > Len(o.data) + 1
         => \E b2 : /\ Seen(L, o.remote, q, o.remote_send_id, b2)
                    /\ No(o.file, b2) = No(o.file, b) - 1

\* How far the sender is.
Source(N, L, W, q, o, s) ==
  LET p  == o.remote
      id == o.remote_send_id
      f  == o.file
  IN  /\ Len(o.data) <= s.bytes_sent /\ s.bytes_sent <= FileData[f]
      /\ \A b : Under(N, L, W, p, q, id, b) => No(f, b) <= s.bytes_sent
      /\ \A x \in Peers : \A b : Own(N, L, p, x, id, b)
           => x = q /\ No(f, b) = s.bytes_sent
      /\ Ready(L, W, p, id) =>
           \/ s.bytes_sent = Len(o.data)
           \/ \E b : Seen(L, p, q, id, b) /\ No(f, b) = s.bytes_sent
Sourced(N, L, W, q, o) ==
  /\ \A s \in N[o.remote].ongoing_send :
       s.local_send_id = o.remote_send_id => Source(N, L, W, q, o, s)
  /\ \A s \in N[o.remote].pending_send :
       s.local_send_id = o.remote_send_id => Len(o.data) = 0

Row(N, L, W, q, o) ==
  /\ Wrote(o) /\ Ahead(N, L, W, q, o) /\ Lined(L, q, o)
  /\ Behind(N, L, W, q, o) /\ Whole(N, L, W, q, o) /\ Sourced(N, L, W, q, o)

\* A message is outstanding at a handler while its stream is open, and nothing
\* else is on that stream.
Shut(L, W) ==
  \A l \in Links : L[l].busy # <<>> =>
    L[l].open /\ (W[l] = <<>> \/ W[l] = L[l].busy)

-----------------------------------------------------------------------------
(* Steps that move chunks. *)

\* Chunks of send id of p move on, or are lost.
Still(N, L, W, N2, L2, W2, p, id) ==
  /\ \A b : \A x \in Peers : Queued(N2, p, x, id, b) => Queued(N, p, x, id, b)
  /\ \A l \in Links : l[1] = p =>
       /\ \A b : Boxed(L2, l, id, b) =>
            Boxed(L, l, id, b) \/ Queued(N, p, l[2], id, b)
       /\ \A b : Loaded(L2, l, id, b) =>
            Loaded(L, l, id, b) \/ (Boxed(L, l, id, b) /\ Float(W2, l, id, b))
       /\ \A b : Float(W2, l, id, b) =>
            Float(W, l, id, b) \/ (Boxed(L, l, id, b) /\ Loaded(L2, l, id, b))
       /\ \A b : Loaded(L2, l, id, b) /\ W2[l] = <<>> =>
            Loaded(L, l, id, b) /\ W[l] = <<>>
       /\ Rung(L2, l, id) =>
            Rung(L, l, id) \/ (W[l] = <<>> /\ \E b : Loaded(L, l, id, b))
  /\ \A l \in Links : l[2] = p => \A i, b :
       Got(L2, l, i, id, b) => \E j : Got(L, l, j, id, b)

\* Handler l has the same chunks of send id to report, or has one event less
\* that is not one of them.
Even(L, L2, l, id) ==
  \/ \A i, b : Got(L2, l, i, id, b) <=> Got(L, l, i, id, b)
  \/ /\ \A i, b : Got(L2, l, i, id, b)
          <=> (i \in Nat /\ i >= 1 /\ Got(L, l, i + 1, id, b))
     /\ \A b : ~Got(L, l, 1, id, b)

\* What such a step does to the places.
LEMMA StillPlaces ==
  ASSUME NEW N, NEW L, NEW W, NEW N2, NEW L2, NEW W2, NEW p \in Peers, NEW id,
         Still(N, L, W, N2, L2, W2, p, id)
  PROVE  /\ \A x \in Peers : \A b :
              /\ Rear(N2, L2, W2, p, x, id, b) => Rear(N, L, W, p, x, id, b)
              /\ Seen(L2, p, x, id, b) => Seen(L, p, x, id, b)
              /\ Under(N2, L2, W2, p, x, id, b) => Under(N, L, W, p, x, id, b)
              /\ Own(N2, L2, p, x, id, b) => Own(N, L, p, x, id, b)
         /\ Ready(L2, W2, p, id) => Ready(L, W, p, id)
  <1>1. ASSUME NEW x \in Peers, NEW b
        PROVE  /\ Rear(N2, L2, W2, p, x, id, b) => Rear(N, L, W, p, x, id, b)
               /\ Seen(L2, p, x, id, b) => Seen(L, p, x, id, b)
               /\ Own(N2, L2, p, x, id, b) => Own(N, L, p, x, id, b)
    <2>1. \A c \in Conns : /\ <<p, x, c>> \in Links /\ <<x, p, c>> \in Links
                           /\ <<p, x, c>>[1] = p /\ <<p, x, c>>[2] = x
                           /\ <<x, p, c>>[2] = p
      BY DEF Links
    <2>2. ASSUME NEW c \in Conns
          PROVE  /\ Boxed(L2, <<p, x, c>>, id, b) =>
                      Boxed(L, <<p, x, c>>, id, b) \/ Queued(N, p, x, id, b)
                 /\ Loaded(L2, <<p, x, c>>, id, b) =>
                      Loaded(L, <<p, x, c>>, id, b) \/ Boxed(L, <<p, x, c>>, id, b)
                 /\ Float(W2, <<p, x, c>>, id, b) =>
                      Float(W, <<p, x, c>>, id, b) \/ Boxed(L, <<p, x, c>>, id, b)
                 /\ \A i : Got(L2, <<x, p, c>>, i, id, b)
                      => \E j : Got(L, <<x, p, c>>, j, id, b)
      <3> DEFINE l == <<p, x, c>>
                 k == <<x, p, c>>
      <3>1. l \in Links /\ k \in Links /\ l[1] = p /\ l[2] = x /\ k[2] = p
        BY <2>1
      <3> HIDE DEF l, k
      <3> QED BY <3>1 DEF Still, l, k
    <2>3. Queued(N2, p, x, id, b) => Queued(N, p, x, id, b)
      BY DEF Still
    <2> QED BY <2>2, <2>3 DEF Rear, Seen, Own
  <1>2. Ready(L2, W2, p, id) => Ready(L, W, p, id)
    BY DEF Still, Ready
  <1> QED BY <1>1, <1>2 DEF Under

\* Reports are numbered from 1.
LEMMA GotIndex ==
  ASSUME NEW L \in [Links -> Handler], NEW l \in Links, NEW i, NEW id, NEW b,
         Got(L, l, i, id, b)
  PROVE  i \in Nat /\ i >= 1
  <1>1. L[l].ev \in Seq(Event)
    BY DEF Handler
  <1> QED BY <1>1 DEF Got

\* The same chunks are reported, in the same order.
LEMMA EvenSeen ==
  ASSUME NEW L \in [Links -> Handler], NEW L2, NEW p \in Peers, NEW q \in Peers,
         NEW id, \A c \in Conns : Even(L, L2, <<q, p, c>>, id)
  PROVE  /\ \A b : Seen(L2, p, q, id, b) <=> Seen(L, p, q, id, b)
         /\ \A c \in Conns : \A i, j, b, b2 :
              /\ Got(L2, <<q, p, c>>, i, id, b) /\ Got(L2, <<q, p, c>>, j, id, b2)
              /\ i < j
              => \E i1, j1 : /\ Got(L, <<q, p, c>>, i1, id, b)
                             /\ Got(L, <<q, p, c>>, j1, id, b2)
                             /\ i1 < j1
  <1>1. ASSUME NEW c \in Conns
        PROVE  /\ \A i, b : Got(L2, <<q, p, c>>, i, id, b)
                    => \E j : Got(L, <<q, p, c>>, j, id, b)
               /\ \A i, b : Got(L, <<q, p, c>>, i, id, b)
                    => \E j : Got(L2, <<q, p, c>>, j, id, b)
               /\ \A i, j, b, b2 :
                    /\ Got(L2, <<q, p, c>>, i, id, b)
                    /\ Got(L2, <<q, p, c>>, j, id, b2)
                    /\ i < j
                    => \E i1, j1 : /\ Got(L, <<q, p, c>>, i1, id, b)
                                   /\ Got(L, <<q, p, c>>, j1, id, b2)
                                   /\ i1 < j1
    <2> DEFINE l == <<q, p, c>>
               G(i, b) == Got(L, l, i, id, b)
               G2(i, b) == Got(L2, l, i, id, b)
    <2>1. l \in Links
      BY DEF Links
    <2>2. Even(L, L2, l, id)
      OBVIOUS
    <2> HIDE DEF l
    <2>3. \A i, b : G(i, b) => i \in Nat /\ i >= 1
      BY <2>1, GotIndex
    <2>4. \/ \A i, b : G2(i, b) <=> G(i, b)
          \/ /\ \A i, b : G2(i, b) <=> (i \in Nat /\ i >= 1 /\ G(i + 1, b))
             /\ \A b : ~G(1, b)
      BY <2>2 DEF Even
    <2> HIDE DEF G, G2
    <2>5. /\ \A i, b : G2(i, b) => \E j : G(j, b)
          /\ \A i, j, b, b2 : G2(i, b) /\ G2(j, b2) /\ i < j
               => \E i1, j1 : G(i1, b) /\ G(j1, b2) /\ i1 < j1
      <3>1. CASE \A i, b : G2(i, b) <=> G(i, b)
        BY <3>1, Zenon
      <3>2. CASE \A i, b : G2(i, b) <=> (i \in Nat /\ i >= 1 /\ G(i + 1, b))
        <4>1. \A i, b : G2(i, b) => i \in Nat /\ G(i + 1, b)
          BY <3>2
        <4>2. ASSUME NEW i, NEW j, NEW b, NEW b2, G2(i, b), G2(j, b2), i < j
              PROVE  G(i + 1, b) /\ G(j + 1, b2) /\ i + 1 < j + 1
          <5>1. i \in Nat /\ j \in Nat /\ G(i + 1, b) /\ G(j + 1, b2)
            BY <4>1, <4>2
          <5> QED BY <4>2, <5>1
        <4> QED BY <4>1, <4>2
      <3> QED BY <2>4, <3>1, <3>2
    <2>6. ASSUME NEW i, NEW b, G(i, b)
          PROVE  \E j : G2(j, b)
      <3>1. CASE \A i1, b1 : G2(i1, b1) <=> G(i1, b1)
        BY <2>6, <3>1
      <3>2. CASE /\ \A i1, b1 : G2(i1, b1) <=> (i1 \in Nat /\ i1 >= 1 /\ G(i1 + 1, b1))
                 /\ \A b1 : ~G(1, b1)
        <4>1. i \in Nat /\ i >= 1 /\ i # 1
          BY <2>3, <2>6, <3>2
        <4>2. i - 1 \in Nat /\ i - 1 >= 1 /\ (i - 1) + 1 = i
          BY <4>1
        <4>3. G2(i - 1, b)
          BY <2>6, <3>2, <4>2
        <4> QED BY <4>3
      <3> QED BY <2>4, <3>1, <3>2
    <2> QED BY <2>5, <2>6 DEF G, G2, l
  <1> QED BY <1>1, ZenonT(60) DEF Seen

\* A row is kept by a step that moves chunks.
LEMMA RowStep ==
  ASSUME NEW N, NEW L \in [Links -> Handler], NEW W, NEW N2, NEW L2, NEW W2,
         NEW q \in Peers, NEW o, o.remote \in Peers, Row(N, L, W, q, o),
         Still(N, L, W, N2, L2, W2, o.remote, o.remote_send_id),
         \A c \in Conns : Even(L, L2, <<q, o.remote, c>>, o.remote_send_id),
         \A s \in N2[o.remote].ongoing_send :
           s.local_send_id = o.remote_send_id => s \in N[o.remote].ongoing_send,
         \A s \in N2[o.remote].pending_send :
           s.local_send_id = o.remote_send_id => s \in N[o.remote].pending_send
  PROVE  Row(N2, L2, W2, q, o)
  <1> DEFINE p == o.remote
             id == o.remote_send_id
             R(b) == Rear(N, L, W, p, q, id, b)
             S(b) == Seen(L, p, q, id, b)
             U(b) == Under(N, L, W, p, q, id, b)
             R2(b) == Rear(N2, L2, W2, p, q, id, b)
             S2(b) == Seen(L2, p, q, id, b)
             U2(b) == Under(N2, L2, W2, p, q, id, b)
  <1>1. /\ \A b : /\ R2(b) => R(b)
                  /\ U2(b) => U(b)
        /\ \A x \in Peers : \A b : Own(N2, L2, p, x, id, b) => Own(N, L, p, x, id, b)
        /\ Ready(L2, W2, p, id) => Ready(L, W, p, id)
    BY StillPlaces
  <1>2. /\ \A b : S2(b) <=> S(b)
        /\ \A c \in Conns : \A i, j, b, b2 :
              /\ Got(L2, <<q, p, c>>, i, id, b) /\ Got(L2, <<q, p, c>>, j, id, b2)
              /\ i < j
              => \E i1, j1 : /\ Got(L, <<q, p, c>>, i1, id, b)
                             /\ Got(L, <<q, p, c>>, j1, id, b2)
                             /\ i1 < j1
    BY EvenSeen
  <1>3. Ahead(N2, L2, W2, q, o)
    BY <1>1 DEF Row, Ahead
  <1>4. Lined(L2, q, o)
    BY <1>2 DEF Row, Lined
  <1>5. Behind(N2, L2, W2, q, o)
    BY <1>1, <1>2 DEF Row, Behind
  <1>6. Whole(N2, L2, W2, q, o)
    BY <1>1, <1>2 DEF Row, Whole
  <1>7. ASSUME NEW s \in N2[p].ongoing_send, s.local_send_id = id
        PROVE  Source(N2, L2, W2, q, o, s)
    <2>1. Source(N, L, W, q, o, s)
      BY <1>7 DEF Row, Sourced
    <2> QED BY <1>1, <1>2, <2>1 DEF Source
  <1>8. Sourced(N2, L2, W2, q, o)
    BY <1>7 DEF Row, Sourced
  <1> QED BY <1>3, <1>4, <1>5, <1>6, <1>8 DEF Row

\* Chunks stay tied to their handlers.
LEMMA TiedStep ==
  ASSUME NEW N, NEW L, NEW W, NEW N2, NEW L2, NEW W2,
         NEW l \in Links, NEW id, NEW b, Tied(N, L, W),
         Still(N, L, W, N2, L2, W2, l[1], id), Sole(N2, L2, l[1]),
         Float(W2, l, id, b)
  PROVE  /\ \A x \in Peers : \A b2 : ~Queued(N2, l[1], x, id, b2)
         /\ \A g \in Links : g[1] = l[1] =>
              /\ ~Rung(L2, g, id)
              /\ \A b2 : /\ ~Boxed(L2, g, id, b2)
                         /\ Loaded(L2, g, id, b2) => g = l /\ b2 = b
  <1> DEFINE p == l[1]
  <1>1. CASE Float(W, l, id, b)
    <2>1. /\ \A x \in Peers : \A b2 : ~Queued(N, p, x, id, b2)
          /\ \A g \in Links : g[1] = p =>
               /\ ~Rung(L, g, id)
               /\ \A b2 : /\ ~Boxed(L, g, id, b2)
                          /\ Loaded(L, g, id, b2) => g = l /\ b2 = b
      BY <1>1 DEF Tied
    <2>2. W[l] # <<>>
      BY <1>1 DEF Float
    <2>3. \A x \in Peers : \A b2 : ~Queued(N2, p, x, id, b2)
      BY <2>1 DEF Still
    <2>4. ASSUME NEW g \in Links, g[1] = p
          PROVE  /\ ~Rung(L2, g, id)
                 /\ \A b2 : /\ ~Boxed(L2, g, id, b2)
                            /\ Loaded(L2, g, id, b2) => g = l /\ b2 = b
      <3>1. /\ ~Rung(L, g, id)
            /\ \A b2 : /\ ~Boxed(L, g, id, b2)
                       /\ Loaded(L, g, id, b2) => g = l /\ b2 = b
        BY <2>1, <2>4
      <3>2. /\ \A b2 : Boxed(L2, g, id, b2) =>
                 Boxed(L, g, id, b2) \/ Queued(N, p, g[2], id, b2)
            /\ \A b2 : Loaded(L2, g, id, b2) =>
                 Loaded(L, g, id, b2) \/ Boxed(L, g, id, b2)
            /\ Rung(L2, g, id) =>
                 Rung(L, g, id) \/ (W[g] = <<>> /\ \E b2 : Loaded(L, g, id, b2))
        BY <2>4 DEF Still
      <3>3. g[2] \in Peers
        BY DEF Links
      <3> QED BY <2>1, <2>2, <3>1, <3>2, <3>3
    <2> QED BY <2>3, <2>4
  <1>2. CASE Loaded(L2, l, id, b)
    <2>1. Tok(N2, L2, p, id, "busy", l, 1)
      BY <1>2 DEF Tok, Loaded, IsPart, Chunky
    <2>2. \A k, g, i : Tok(N2, L2, p, id, k, g, i) => k = "busy" /\ g = l
      BY <2>1 DEF Sole
    <2>3. \A x, b2 : ~Queued(N2, p, x, id, b2)
      <3>1. \A i : ~Tok(N2, L2, p, id, "queue", p, i)
        BY <2>2
      <3> QED BY <3>1 DEF Queued, Tok, IsPart, Chunky
    <2>4. ASSUME NEW g \in Links, g[1] = p
          PROVE  /\ ~Rung(L2, g, id)
                 /\ \A b2 : /\ ~Boxed(L2, g, id, b2)
                            /\ Loaded(L2, g, id, b2) => g = l /\ b2 = b
      <3>1. \A i : /\ ~Tok(N2, L2, p, id, "inq", g, i)
                   /\ ~Tok(N2, L2, p, id, "ev", g, i)
                   /\ Tok(N2, L2, p, id, "busy", g, 1) => g = l
        BY <2>2
      <3>2. ~Rung(L2, g, id)
        BY <2>4, <3>1 DEF Rung, Tok
      <3>3. \A b2 : ~Boxed(L2, g, id, b2)
        BY <2>4, <3>1 DEF Boxed, Tok, IsPart, Chunky
      <3>4. \A b2 : Loaded(L2, g, id, b2) => g = l
        BY <2>4, <3>1 DEF Loaded, Tok, IsPart, Chunky
      <3>5. \A b2 : Loaded(L2, l, id, b2) => b2 = b
        BY <1>2 DEF Loaded, IsPart
      <3> QED BY <3>2, <3>3, <3>4, <3>5
    <2> QED BY <2>3, <2>4
  <1> QED BY <1>1, <1>2 DEF Still

\* A request that is behind stays behind.
LEMMA ClearStep ==
  ASSUME NEW N \in [Peers -> Behaviour], NEW L, NEW W, NEW P,
         NEW N2 \in [Peers -> Behaviour], NEW L2, NEW W2, NEW P2,
         Heir(N, L, W, P, N2, L2, W2, P2),
         NEW p \in Peers, NEW x \in Peers, NEW id \in Nat,
         Clear(N, L, W, P, p, x, id)
  PROVE  Clear(N2, L2, W2, P2, p, x, id)
  <1>1. N[p].send_counter \in Nat /\ N2[p].send_counter \in Nat
    BY DEF Behaviour
  <1>2. /\ \A m \in Letter : m.type = "IncomingFile" /\ Aloft(N2, L2, W2, m, p, x) =>
             \/ Aloft(N, L, W, m, p, x)
             \/ P[p] = "none" /\ m.id = N[p].send_counter
        /\ \A r \in N2[x].pending_recv :
             \/ r \in N[x].pending_recv
             \/ \E m \in Letter :
                  /\ m.type = "IncomingFile" /\ Aloft(N, L, W, m, r.remote, x)
                  /\ r.remote_send_id = m.id
        /\ P2[p] = "none" =>
             P[p] = "none" /\ N[p].send_counter <= N2[p].send_counter
    BY SMTT(40) DEF Heir
  <1>3. /\ P[p] = "none" => id < N[p].send_counter /\ id # N[p].send_counter
        /\ \A r \in N[x].pending_recv : ~About(r, p, id)
        /\ \A m \in Letter : m.type = "IncomingFile" /\ m.id = id
             => ~Aloft(N, L, W, m, p, x)
    BY <1>1 DEF Clear
  <1>4. P2[p] = "none" => id < N2[p].send_counter
    BY <1>1, <1>2, <1>3
  <1>5. \A r \in N2[x].pending_recv : ~About(r, p, id)
    BY <1>2, <1>3, Zenon DEF About
  <1>6. \A m \in Letter : m.type = "IncomingFile" /\ m.id = id
          => ~Aloft(N2, L2, W2, m, p, x)
    BY <1>2, <1>3, Zenon
  <1> QED BY <1>2, <1>3, <1>4, <1>5, <1>6 DEF Clear

\* No step makes the two ends mean different files.
LEMMA MatchStep ==
  ASSUME NEW N \in [Peers -> Behaviour], NEW L, NEW W, NEW P,
         NEW N2, NEW L2, NEW W2, NEW P2,
         Heir(N, L, W, P, N2, L2, W2, P2), Match(N),
         \A p, q \in Peers : Waiting(N, P, p, q),
         \A q \in Peers : \A o \in N2[q].ongoing_recv : \E r \in Recvs(N[q]) :
           /\ r.remote = o.remote /\ r.remote_send_id = o.remote_send_id
           /\ r.file = o.file
  PROVE  Match(N2)
  <1> SUFFICES ASSUME NEW p \in Peers, NEW q \in Peers,
                      NEW o \in N2[q].ongoing_recv, NEW s \in Sends(N2[p]),
                      About(o, p, s.local_send_id)
               PROVE  s.remote = q /\ s.file = o.file
    BY DEF Match
  <1>1. PICK r \in Recvs(N[q]) :
          /\ r.remote = o.remote /\ r.remote_send_id = o.remote_send_id
          /\ r.file = o.file
    OBVIOUS
  <1>2. r.remote = p /\ r.remote_send_id = s.local_send_id
    BY <1>1 DEF About
  <1>3. Waiting(N, P, p, q) /\ N[p].send_counter \in Nat
    BY DEF Behaviour
  <1>4. P[p] = "none" => r.remote_send_id < N[p].send_counter
    BY <1>2, <1>3 DEF Waiting
  <1>5. \E t \in Sends(N[p]) : /\ t.local_send_id = s.local_send_id
                               /\ t.remote = s.remote /\ t.file = s.file
    <2>1. CASE s \in N2[p].ongoing_send
      BY <2>1 DEF Heir
    <2>2. CASE s \in N2[p].pending_send
      <3>1. \/ s \in N[p].pending_send
            \/ P[p] = "none" /\ s.local_send_id = N[p].send_counter
        BY <2>2 DEF Heir
      <3>2. s \in N[p].pending_send
        BY <1>2, <1>3, <1>4, <3>1
      <3> QED BY <3>2 DEF Sends
    <2> QED BY <2>1, <2>2 DEF Sends
  <1>6. PICK t \in Sends(N[p]) : /\ t.local_send_id = s.local_send_id
                                 /\ t.remote = s.remote /\ t.file = s.file
    BY <1>5
  <1>7. CASE r \in N[q].ongoing_recv
    BY <1>1, <1>2, <1>6, <1>7 DEF Match, About
  <1>8. CASE r \in N[q].pending_recv
    BY <1>1, <1>2, <1>3, <1>6, <1>8 DEF Waiting, Sends
  <1> QED BY <1>7, <1>8 DEF Recvs

-----------------------------------------------------------------------------
(* The invariant and the steps that only move chunks. *)

Rows(N, L, W) ==
  \A q \in Peers : \A o \in N[q].ongoing_recv : Row(N, L, W, q, o)
Order(N, L, W, P) ==
  Tied(N, L, W) /\ Spent(N, L, W, P) /\ Match(N) /\ Rows(N, L, W)

\* Every peer's chunks move on, or are lost.
AllStill(N, L, W, N2, L2, W2) ==
  \A p \in Peers : \A id : Still(N, L, W, N2, L2, W2, p, id)

\* Tied is kept while chunks move: after the step, too, a send has one chunk.
LEMMA TiedAll ==
  ASSUME NEW N, NEW L, NEW W, NEW N2, NEW L2, NEW W2, Tied(N, L, W),
         AllStill(N, L, W, N2, L2, W2), \A p \in Peers : Sole(N2, L2, p)
  PROVE  Tied(N2, L2, W2)
  <1> SUFFICES ASSUME NEW l \in Links, NEW id, NEW b, Float(W2, l, id, b)
               PROVE  /\ \A x \in Peers : \A b2 : ~Queued(N2, l[1], x, id, b2)
                      /\ \A g \in Links : g[1] = l[1] =>
                           /\ ~Rung(L2, g, id)
                           /\ \A b2 : /\ ~Boxed(L2, g, id, b2)
                                      /\ Loaded(L2, g, id, b2) => g = l /\ b2 = b
    BY DEF Tied
  <1>1. l[1] \in Peers
    BY DEF Links
  <1>2. Still(N, L, W, N2, L2, W2, l[1], id) /\ Sole(N2, L2, l[1])
    BY <1>1 DEF AllStill
  <1> QED BY <1>2, TiedStep

\* A send that has a chunk is past its request after the step, too.
LEMMA SpentOne ==
  ASSUME NEW N \in [Peers -> Behaviour], NEW L, NEW W, NEW P,
         NEW N2 \in [Peers -> Behaviour], NEW L2, NEW W2, NEW P2,
         Heir(N, L, W, P, N2, L2, W2, P2), Spent(N, L, W, P),
         NEW p \in Peers, NEW x \in Peers, NEW id \in Nat, NEW b,
         Under(N, L, W, p, x, id, b)
  PROVE  /\ Clear(N2, L2, W2, P2, p, x, id)
         /\ \A s \in N2[p].pending_send : s.local_send_id # id
  <1>1. /\ Clear(N, L, W, P, p, x, id)
        /\ \A s \in N[p].pending_send : s.local_send_id # id
    BY DEF Spent
  <1>2. Clear(N2, L2, W2, P2, p, x, id)
    BY <1>1, ClearStep
  <1>3. ASSUME NEW s \in N2[p].pending_send
        PROVE  s.local_send_id # id
    <2>1. \/ s \in N[p].pending_send
          \/ P[p] = "none" /\ s.local_send_id = N[p].send_counter
      BY DEF Heir
    <2>2. N[p].send_counter \in Nat
      BY DEF Behaviour
    <2> QED BY <1>1, <2>1, <2>2 DEF Clear
  <1> QED BY <1>2, <1>3

\* No send gets its first chunk.
LEMMA SpentAll ==
  ASSUME NEW N \in [Peers -> Behaviour], NEW L, NEW W, NEW P,
         NEW N2 \in [Peers -> Behaviour], NEW L2, NEW W2, NEW P2,
         Heir(N, L, W, P, N2, L2, W2, P2), Spent(N, L, W, P),
         \A p, x \in Peers : \A id, b :
           Under(N2, L2, W2, p, x, id, b) => Under(N, L, W, p, x, id, b)
  PROVE  Spent(N2, L2, W2, P2)
  <1> SUFFICES ASSUME NEW p \in Peers, NEW x \in Peers, NEW id \in Nat, NEW b,
                      Under(N2, L2, W2, p, x, id, b)
               PROVE  /\ Clear(N2, L2, W2, P2, p, x, id)
                      /\ \A s \in N2[p].pending_send : s.local_send_id # id
    BY DEF Spent
  <1>1. Under(N, L, W, p, x, id, b)
    OBVIOUS
  <1> QED BY <1>1, SpentOne

\* No chunk comes into being while chunks move.
LEMMA StillUnder ==
  ASSUME NEW N, NEW L, NEW W, NEW N2, NEW L2, NEW W2,
         AllStill(N, L, W, N2, L2, W2)
  PROVE  \A p, x \in Peers : \A id, b :
           Under(N2, L2, W2, p, x, id, b) => Under(N, L, W, p, x, id, b)
  BY StillPlaces DEF AllStill

\* A send that a recv is about was requested before.
LEMMA OldPending ==
  ASSUME NEW N \in [Peers -> Behaviour], NEW L, NEW W, NEW P,
         NEW N2, NEW L2, NEW W2, NEW P2, Heir(N, L, W, P, N2, L2, W2, P2),
         \A p, q \in Peers : Waiting(N, P, p, q),
         NEW q \in Peers, NEW r \in Recvs(N[q]), r.remote \in Peers,
         NEW s \in N2[r.remote].pending_send,
         s.local_send_id = r.remote_send_id
  PROVE  s \in N[r.remote].pending_send
  <1> DEFINE p == r.remote
  <1>1. Waiting(N, P, p, q) /\ N[p].send_counter \in Nat
    BY DEF Behaviour
  <1>2. P[p] = "none" => r.remote_send_id < N[p].send_counter
    BY <1>1 DEF Waiting
  <1>3. \/ s \in N[p].pending_send
        \/ P[p] = "none" /\ s.local_send_id = N[p].send_counter
    BY DEF Heir
  <1> QED BY <1>1, <1>2, <1>3

\* One row, in a step that moves chunks and keeps the record.
LEMMA RowAll ==
  ASSUME NEW N \in [Peers -> Behaviour], NEW L \in [Links -> Handler], NEW W,
         NEW P, NEW N2, NEW L2, NEW W2, NEW P2,
         Heir(N, L, W, P, N2, L2, W2, P2),
         \A p, x \in Peers : Waiting(N, P, p, x),
         NEW q \in Peers, NEW o \in N[q].ongoing_recv, Row(N, L, W, q, o),
         Still(N, L, W, N2, L2, W2, o.remote, o.remote_send_id),
         \A c \in Conns : Even(L, L2, <<q, o.remote, c>>, o.remote_send_id),
         \A s \in N2[o.remote].ongoing_send :
           s.local_send_id = o.remote_send_id => s \in N[o.remote].ongoing_send
  PROVE  Row(N2, L2, W2, q, o)
  <1>1. o.remote \in Peers
    BY DEF Behaviour, OngoingRecv
  <1>2. \A s \in N2[o.remote].pending_send :
          s.local_send_id = o.remote_send_id => s \in N[o.remote].pending_send
    BY <1>1, OldPending DEF Recvs
  <1> QED BY <1>1, <1>2, RowStep

\* A step in which chunks move, records go and reports keep their order.
LEMMA PlainOrder ==
  ASSUME NEW N \in [Peers -> Behaviour], NEW L \in [Links -> Handler], NEW W,
         NEW P, NEW N2 \in [Peers -> Behaviour], NEW L2, NEW W2, NEW P2,
         Heir(N, L, W, P, N2, L2, W2, P2),
         \A p, x \in Peers : Waiting(N, P, p, x),
         \A p \in Peers : Sole(N2, L2, p),
         Order(N, L, W, P), AllStill(N, L, W, N2, L2, W2),
         \A p \in Peers : /\ N2[p].ongoing_send \subseteq N[p].ongoing_send
                          /\ N2[p].ongoing_recv \subseteq N[p].ongoing_recv,
         \A q \in Peers : \A o \in N2[q].ongoing_recv : \A c \in Conns :
           Even(L, L2, <<q, o.remote, c>>, o.remote_send_id)
  PROVE  Order(N2, L2, W2, P2)
  <1>1. Tied(N2, L2, W2)
    BY TiedAll DEF Order
  <1>2. Spent(N2, L2, W2, P2)
    BY SpentAll, StillUnder DEF Order
  <1>3. Match(N2)
    <2>1. \A q \in Peers : \A o \in N2[q].ongoing_recv : o \in Recvs(N[q])
      BY DEF Recvs
    <2> QED BY <2>1, MatchStep DEF Order
  <1>4. ASSUME NEW q \in Peers, NEW o \in N2[q].ongoing_recv
        PROVE  Row(N2, L2, W2, q, o)
    <2>1. o \in N[q].ongoing_recv /\ o.remote \in Peers
      BY DEF Behaviour, OngoingRecv
    <2>2. Row(N, L, W, q, o)
      BY <2>1 DEF Order, Rows
    <2>3. Still(N, L, W, N2, L2, W2, o.remote, o.remote_send_id)
      BY <2>1 DEF AllStill
    <2>4. \A s \in N2[o.remote].ongoing_send :
            s.local_send_id = o.remote_send_id => s \in N[o.remote].ongoing_send
      BY <2>1
    <2> QED BY <2>1, <2>2, <2>3, <2>4, RowAll
  <1> QED BY <1>1, <1>2, <1>3, <1>4 DEF Order, Rows

-----------------------------------------------------------------------------
(* The four steps that make a row grow or change. *)

\* The places of a chunk, in numbers.
LEMMA Places ==
  ASSUME NEW f \in Files, NEW b, Fits(f, b)
  PROVE  No(f, b) \in Nat /\ No(f, b) >= 1
  BY FilesAssumption DEF Fits, No

\* accept_pending_recv: nothing of the send is on its way yet.
LEMMA RowNew ==
  ASSUME NEW N, NEW L, NEW W, NEW q \in Peers, NEW o \in OngoingRecv,
         o.data = <<>>,
         \A b : ~Under(N, L, W, o.remote, q, o.remote_send_id, b),
         \A s \in N[o.remote].ongoing_send : s.local_send_id # o.remote_send_id
  PROVE  Row(N, L, W, q, o)
  <1>1. o.file \in Files /\ FileData[o.file] \in Nat /\ Len(o.data) = 0
    BY FilesAssumption DEF OngoingRecv
  <1>2. Wrote(o)
    BY <1>1 DEF Wrote
  <1>3. \A b : ~Seen(L, o.remote, q, o.remote_send_id, b)
    BY DEF Under
  <1>4. Ahead(N, L, W, q, o) /\ Whole(N, L, W, q, o)
    BY DEF Ahead, Whole
  <1>5. Lined(L, q, o)
    BY <1>3 DEF Lined, Seen
  <1>6. Behind(N, L, W, q, o)
    BY <1>3 DEF Behind
  <1>7. Sourced(N, L, W, q, o)
    BY <1>1 DEF Sourced
  <1> QED BY <1>2, <1>4, <1>5, <1>6, <1>7 DEF Row

\* progress_ongoing_send: the chunk after the last one.
LEMMA RowFed ==
  ASSUME NEW N, NEW L, NEW W, NEW N2, NEW q \in Peers, NEW o \in OngoingRecv,
         Row(N, L, W, q, o), NEW B \in Nat, B <= FileData[o.file],
         Len(o.data) <= B,
         \A b : Under(N, L, W, o.remote, q, o.remote_send_id, b)
           => No(o.file, b) <= B,
         \/ B = Len(o.data)
         \/ \E b : /\ Seen(L, o.remote, q, o.remote_send_id, b)
                   /\ No(o.file, b) = B,
         ~On(N, L, o.remote, o.remote_send_id),
         \A l \in Links : l[1] = o.remote =>
           \A b : ~Float(W, l, o.remote_send_id, b),
         NEW body, Fits(o.file, body), No(o.file, body) = B + 1,
         \A x \in Peers : \A b : Queued(N2, o.remote, x, o.remote_send_id, b) =>
           Queued(N, o.remote, x, o.remote_send_id, b) \/ (x = q /\ b = body),
         \A s \in N2[o.remote].ongoing_send :
           s.local_send_id = o.remote_send_id =>
             s.bytes_sent = B + 1 /\ B + 1 <= FileData[o.file],
         \A s \in N2[o.remote].pending_send :
           s.local_send_id # o.remote_send_id
  PROVE  Row(N2, L, W, q, o)
  <1> DEFINE p == o.remote
             id == o.remote_send_id
             f == o.file
             d == Len(o.data)
             S(b) == Seen(L, p, q, id, b)
             U(b) == Under(N, L, W, p, q, id, b)
  <1>1. f \in Files /\ d \in Nat /\ p \in Peers /\ FileData[f] \in Nat
    BY FilesAssumption DEF OngoingRecv
  <1>2. /\ \A x : \A b : ~Queued(N, p, x, id, b)
        /\ \A l \in Links : l[1] = p =>
             /\ ~Rung(L, l, id)
             /\ \A b : ~Boxed(L, l, id, b) /\ ~Loaded(L, l, id, b)
    <2>1. \A k, l, i : ~Tok(N, L, p, id, k, l, i)
      BY DEF On
    <2>2. \A i : ~Tok(N, L, p, id, "queue", p, i)
      BY <2>1
    <2>3. \A x : \A b : ~Queued(N, p, x, id, b)
      BY <2>2 DEF Tok, Queued, IsPart, Chunky
    <2>4. ASSUME NEW l \in Links, l[1] = p
          PROVE  /\ ~Rung(L, l, id)
                 /\ \A b : ~Boxed(L, l, id, b) /\ ~Loaded(L, l, id, b)
      <3>1. \A i : /\ ~Tok(N, L, p, id, "inq", l, i)
                   /\ ~Tok(N, L, p, id, "ev", l, i)
                   /\ ~Tok(N, L, p, id, "busy", l, i)
        BY <2>1
      <3> QED BY <2>4, <3>1 DEF Tok, Rung, Boxed, Loaded, IsPart, Chunky
    <2> QED BY <2>3, <2>4
  <1>3. \A x \in Peers : \A c \in Conns : <<p, x, c>> \in Links /\ <<p, x, c>>[1] = p
    BY <1>1 DEF Links
  <1>4. \A b : Rear(N2, L, W, p, q, id, b) => b = body
    BY <1>2, <1>3 DEF Rear
  <1>5. \A b : Under(N2, L, W, p, q, id, b) => b = body \/ S(b)
    BY <1>4 DEF Under
  <1>6. \A b : S(b) => U(b)
    BY DEF Under
  <1>7. /\ \A b : U(b) => Fits(f, b) /\ d < No(f, b)
        /\ \A b : U(b) => No(f, b) <= B
        /\ \A b : U(b) /\ No(f, b) > d + 1
             => \E b2 : S(b2) /\ No(f, b2) = No(f, b) - 1
    BY DEF Row, Ahead, Whole
  <1>8. B = d \/ \E b : S(b) /\ No(f, b) = B
    OBVIOUS
  <1> HIDE DEF U, S
  <1>9. Ahead(N2, L, W, q, o)
    BY <1>1, <1>5, <1>6, <1>7 DEF Ahead
  <1>10. Behind(N2, L, W, q, o)
    <2>1. \A b : S(b) => No(f, b) \in Nat /\ No(f, b) <= B
      BY <1>1, <1>6, <1>7, Places
    <2> QED BY <1>4, <2>1 DEF Behind, S
  <1>11. Whole(N2, L, W, q, o)
    <2>1. \A b : (b = body \/ S(b)) /\ No(f, b) > d + 1
            => \E b2 : S(b2) /\ No(f, b2) = No(f, b) - 1
      <3>1. ASSUME NEW b, S(b), No(f, b) > d + 1
            PROVE  \E b2 : S(b2) /\ No(f, b2) = No(f, b) - 1
        BY <1>6, <1>7, <3>1
      <3>2. ASSUME No(f, body) > d + 1
            PROVE  \E b2 : S(b2) /\ No(f, b2) = No(f, body) - 1
        BY <1>1, <1>8, <3>2
      <3> QED BY <3>1, <3>2
    <2> QED BY <1>5, <2>1 DEF Whole, S
  <1>12. ASSUME NEW s \in N2[p].ongoing_send, s.local_send_id = id
         PROVE  Source(N2, L, W, q, o, s)
    <2>1. s.bytes_sent = B + 1 /\ B + 1 <= FileData[f]
      BY <1>12
    <2>2. d <= s.bytes_sent /\ s.bytes_sent <= FileData[f]
      BY <1>1, <2>1
    <2>3. \A b : Under(N2, L, W, p, q, id, b) => No(f, b) <= s.bytes_sent
      <3>1. \A b : U(b) => No(f, b) \in Nat
        BY <1>1, <1>7, Places
      <3> QED BY <1>5, <1>6, <1>7, <2>1, <3>1
    <2>4. \A x \in Peers : \A b : Own(N2, L, p, x, id, b)
            => x = q /\ No(f, b) = s.bytes_sent
      BY <1>2, <1>3, <2>1 DEF Own
    <2>5. ~Ready(L, W, p, id)
      BY <1>2 DEF Ready
    <2> QED BY <2>2, <2>3, <2>4, <2>5 DEF Source
  <1>13. Sourced(N2, L, W, q, o)
    BY <1>12 DEF Sourced
  <1> QED BY <1>9, <1>10, <1>11, <1>13 DEF Row

\* write_chunk: the first chunk that is reported is the next one.
LEMMA RowWritten ==
  ASSUME NEW N, NEW L \in [Links -> Handler], NEW W, NEW N2, NEW L2,
         NEW q \in Peers, NEW o \in OngoingRecv, Row(N, L, W, q, o),
         \A c1, c2 \in Conns : c1 = c2, NEW c \in Conns, NEW body, body # <<>>,
         Got(L, <<q, o.remote, c>>, 1, o.remote_send_id, body),
         \A i, b : Got(L2, <<q, o.remote, c>>, i, o.remote_send_id, b) <=>
           (/\ i \in Nat /\ i >= 1
            /\ Got(L, <<q, o.remote, c>>, i + 1, o.remote_send_id, b)),
         Still(N, L, W, N2, L2, W, o.remote, o.remote_send_id),
         \A s \in N2[o.remote].ongoing_send :
           s.local_send_id = o.remote_send_id => s \in N[o.remote].ongoing_send,
         \A s \in N2[o.remote].pending_send :
           s.local_send_id # o.remote_send_id
  PROVE  Row(N2, L2, W, q, [o EXCEPT !.data = @ \o body])
  <1> DEFINE p == o.remote
             id == o.remote_send_id
             f == o.file
             d == Len(o.data)
             w == [o EXCEPT !.data = @ \o body]
             l == <<q, p, c>>
             G(i, b) == Got(L, l, i, id, b)
             G2(i, b) == Got(L2, l, i, id, b)
             S(b) == Seen(L, p, q, id, b)
             S2(b) == Seen(L2, p, q, id, b)
             R(b) == Rear(N, L, W, p, q, id, b)
             R2(b) == Rear(N2, L2, W, p, q, id, b)
  <1>1. f \in Files /\ d \in Nat /\ p \in Peers /\ FileData[f] \in Nat /\ l \in Links
    BY FilesAssumption DEF OngoingRecv, Links
  <1>2. \A i, b : G(i, b) => i \in Nat /\ i >= 1
    BY <1>1, GotIndex
  <1>3. /\ \A b : S(b) <=> \E i : G(i, b)
        /\ \A b : S2(b) <=> \E i : G2(i, b)
    BY DEF Seen
  <1>4. /\ \A b : R2(b) => R(b)
        /\ \A x \in Peers : \A b : Own(N2, L2, p, x, id, b) => Own(N, L, p, x, id, b)
        /\ Ready(L2, W, p, id) => Ready(L, W, p, id)
    BY <1>1, StillPlaces
  <1>5. \A i, b : G2(i, b) <=> (i \in Nat /\ i >= 1 /\ G(i + 1, b))
    OBVIOUS
  <1>6. G(1, body)
    OBVIOUS
  <1>7. \A b, b2 : G(1, b) /\ G(1, b2) => b = b2
    BY DEF Got, IsGot
  <1>8. /\ \A b : R(b) \/ S(b) => Fits(f, b) /\ d < No(f, b)
        /\ \A b : (R(b) \/ S(b)) /\ No(f, b) > d + 1
             => \E b2 : S(b2) /\ No(f, b2) = No(f, b) - 1
        /\ \A i, j, b, b2 : G(i, b) /\ G(j, b2) /\ i < j => No(f, b) < No(f, b2)
        /\ \A b, b2 : R(b) /\ S(b2) => No(f, b2) < No(f, b)
    BY DEF Row, Ahead, Whole, Lined, Behind, Under
  <1>9. /\ w.remote = p /\ w.remote_send_id = id /\ w.file = f
        /\ w.data = o.data \o body
    BY DEF OngoingRecv
  <1>10. \A s \in N[p].ongoing_send : s.local_send_id = id => Source(N, L, W, q, o, s)
    BY DEF Row, Sourced
  <1>11. \A b : Under(N, L, W, p, q, id, b) <=> (R(b) \/ S(b))
    BY DEF Under
  <1>12. \A b : Under(N2, L2, W, p, q, id, b) <=> (R2(b) \/ S2(b))
    BY DEF Under
  <1>13. \A i, b : Got(L2, <<q, w.remote, c>>, i, w.remote_send_id, b) <=> G2(i, b)
    BY <1>9
  <1>14. \A c1 \in Conns : c1 = c
    OBVIOUS
  <1> HIDE DEF l, G, G2, S, S2, R, R2
  <1>15. S(body) /\ Fits(f, body) /\ d < No(f, body)
    BY <1>3, <1>6, <1>8
  <1>16. \A b : R(b) \/ S(b) => No(f, b) \in Nat
    BY <1>1, <1>8, Places
  <1>17. No(f, body) = d + 1
    <2> SUFFICES ASSUME No(f, body) > d + 1
                 PROVE  FALSE
      BY <1>1, <1>15, <1>16
    <2>1. PICK b2 : S(b2) /\ No(f, b2) = No(f, body) - 1
      BY <1>8, <1>15
    <2>2. PICK i : G(i, b2) /\ i \in Nat /\ i >= 1
      BY <1>2, <1>3, <2>1
    <2>3. i # 1
      BY <1>6, <1>7, <1>15, <1>16, <2>1, <2>2
    <2>4. No(f, body) < No(f, b2)
      <3>1. 1 < i
        BY <2>2, <2>3
      <3> QED BY <1>6, <1>8, <2>2, <3>1
    <2> QED BY <1>15, <1>16, <2>1, <2>4
  <1>18. body = <<<<f, d + 1>>>> /\ d + 1 <= FileData[f]
    BY <1>1, <1>15, <1>17 DEF Fits, No
  <1>19. Len(w.data) = d + 1 /\ w.data = Append(o.data, <<f, d + 1>>)
    <2>1. o.data \in Seq(Chunk)
      BY DEF OngoingRecv
    <2>2. o.data \o <<<<f, d + 1>>>> = Append(o.data, <<f, d + 1>>)
      BY <1>1, <2>1
    <2> QED BY <1>9, <1>18, <2>1, <2>2
  <1> HIDE DEF w
  <1>20. Wrote(w)
    <2>1. o.data \in Seq(Chunk) /\ \A i \in 1..d : o.data[i] = <<f, i>>
      BY DEF OngoingRecv, Row, Wrote
    <2>2. \A i \in 1..(d + 1) : w.data[i] = <<f, i>>
      BY <1>1, <1>19, <2>1
    <2> QED BY <1>9, <1>18, <1>19, <2>2 DEF Wrote
  <1>21. \A b : S2(b) => S(b) /\ d + 1 < No(f, b)
    <2> SUFFICES ASSUME NEW b, S2(b)
                 PROVE  S(b) /\ d + 1 < No(f, b)
      OBVIOUS
    <2>1. PICK i : i \in Nat /\ i >= 1 /\ G(i + 1, b)
      BY <1>3, <1>5
    <2>2. 1 < i + 1
      BY <2>1
    <2>3. No(f, body) < No(f, b)
      BY <1>6, <1>8, <2>1, <2>2
    <2> QED BY <1>3, <1>17, <2>1, <2>3
  <1>22. \A b : S(b) => b = body \/ S2(b)
    <2> SUFFICES ASSUME NEW b, S(b), b # body
                 PROVE  S2(b)
      OBVIOUS
    <2>1. PICK i : G(i, b) /\ i \in Nat /\ i >= 1
      BY <1>2, <1>3
    <2>2. i # 1
      BY <1>6, <1>7, <2>1
    <2>3. i - 1 \in Nat /\ i - 1 >= 1 /\ (i - 1) + 1 = i
      BY <2>1, <2>2
    <2>4. G2(i - 1, b)
      BY <1>5, <2>1, <2>3
    <2> QED BY <1>3, <2>4
  <1>23. \A b : R2(b) => R(b) /\ d + 1 < No(f, b)
    BY <1>4, <1>8, <1>15, <1>17
  <1>24. Ahead(N2, L2, W, q, w)
    BY <1>8, <1>9, <1>12, <1>19, <1>21, <1>23 DEF Ahead
  <1>25. Lined(L2, q, w)
    <2>1. ASSUME NEW i, NEW j, NEW b, NEW b2, G2(i, b), G2(j, b2), i < j
          PROVE  No(f, b) < No(f, b2)
      <3>1. i \in Nat /\ j \in Nat /\ G(i + 1, b) /\ G(j + 1, b2)
        BY <1>5, <2>1
      <3>2. i + 1 < j + 1
        BY <2>1, <3>1
      <3> QED BY <1>8, <3>1, <3>2
    <2>2. \A c1 \in Conns : \A i, b :
            Got(L2, <<q, w.remote, c1>>, i, w.remote_send_id, b) => G2(i, b)
      BY <1>13, <1>14
    <2> QED BY <1>9, <2>1, <2>2 DEF Lined
  <1>26. Behind(N2, L2, W, q, w)
    BY <1>4, <1>8, <1>9, <1>21 DEF Behind, R2, S2
  <1>27. Whole(N2, L2, W, q, w)
    <2>1. ASSUME NEW b, R2(b) \/ S2(b), No(f, b) > d + 2
          PROVE  \E b2 : S2(b2) /\ No(f, b2) = No(f, b) - 1
      <3>1. (R(b) \/ S(b)) /\ No(f, b) \in Nat
        BY <1>16, <1>21, <1>23, <2>1
      <3>2. PICK b2 : S(b2) /\ No(f, b2) = No(f, b) - 1
        BY <1>1, <1>8, <2>1, <3>1
      <3>3. b2 # body
        BY <1>1, <1>17, <2>1, <3>1, <3>2
      <3> QED BY <1>22, <3>2, <3>3
    <2> QED BY <1>1, <1>9, <1>12, <1>19, <2>1 DEF Whole, S2
  <1>28. ASSUME NEW s \in N2[p].ongoing_send, s.local_send_id = id
         PROVE  Source(N2, L2, W, q, w, s)
    <2> DEFINE B == s.bytes_sent
    <2>1. Source(N, L, W, q, o, s)
      BY <1>10, <1>28
    <2>2. /\ B <= FileData[f]
          /\ \A b : R(b) \/ S(b) => No(f, b) <= B
          /\ \A x \in Peers : \A b : Own(N, L, p, x, id, b) => x = q /\ No(f, b) = B
          /\ Ready(L, W, p, id) => B = d \/ \E b : S(b) /\ No(f, b) = B
      BY <1>11, <2>1 DEF Source, S
    <2>3. d + 1 <= B
      BY <1>15, <1>17, <2>2
    <2>4. \A b : R2(b) \/ S2(b) => No(f, b) <= B
      BY <1>21, <1>23, <2>2
    <2>5. Ready(L2, W, p, id) => B = d + 1 \/ \E b : S2(b) /\ No(f, b) = B
      <3> SUFFICES ASSUME Ready(L, W, p, id)
                   PROVE  B = d + 1 \/ \E b : S2(b) /\ No(f, b) = B
        BY <1>4
      <3>1. B # d
        <4>1. CASE B = d
          BY <1>1, <2>3, <4>1
        <4> QED BY <4>1
      <3>2. PICK b : S(b) /\ No(f, b) = B
        BY <2>2, <3>1
      <3> QED BY <1>17, <1>22, <3>2
    <2> QED BY <1>4, <1>9, <1>12, <1>19, <2>2, <2>3, <2>4, <2>5 DEF Source, S2
  <1>29. Sourced(N2, L2, W, q, w)
    BY <1>9, <1>28 DEF Sourced
  <1>30. Row(N2, L2, W, q, w)
    BY <1>20, <1>24, <1>25, <1>26, <1>27, <1>29 DEF Row
  <1> QED BY <1>30 DEF w

\* poll_inbound: the message m on stream l is reported by handler k.
Lands(L, W, L2, W2, l, k, m) ==
  /\ W[l] # <<>> /\ W[l][1] = m
  /\ W2[l] = <<>> /\ \A g \in Links : g # l => W2[g] = W[g]
  /\ \A g \in Links : L2[g].inq = L[g].inq /\ L2[g].busy = L[g].busy
  /\ \A g \in Links : \A id : Rung(L2, g, id) => Rung(L, g, id)
  /\ \A g \in Links : \A i, id, b : Got(L2, g, i, id, b) <=>
       (\/ Got(L, g, i, id, b)
        \/ g = k /\ i = Len(L[k].ev) + 1 /\ IsPart(m, id, b))

\* Arrive makes a message land.
LEMMA LandTell ==
  ASSUME NEW L \in [Links -> Handler], NEW W \in [Links -> Slot], NEW L2, NEW W2,
         NEW l \in Links, NEW k \in Links, NEW m \in Msg,
         W[l] # <<>>, W[l][1] = m, W2 = [W EXCEPT ![l] = <<>>],
         L2 = Tell(L, k, on_message(m))
  PROVE  Lands(L, W, L2, W2, l, k, m)
  <1> DEFINE z == L[k].ev
             e == on_message(m)
             s == Append(z, e)
             n == Len(z) + 1
  <1>1. z \in Seq(Event)
    BY DEF Handler
  <1>2. \A i \in DOMAIN s : \/ i \in DOMAIN z /\ i # n /\ s[i] = z[i]
                            \/ i = n /\ s[i] = e
    BY <1>1, AppendAt, ZenonT(60)
  <1>3. /\ \A i \in DOMAIN z : i \in DOMAIN s /\ s[i] = z[i] /\ i # n
        /\ n \in DOMAIN s /\ s[n] = e
    BY <1>1
  <1>4. L2 = [L EXCEPT ![k].ev = s]
    BY DEF Tell
  <1>5. m.type \in MsgType
    BY DEF Msg
  <1>6. /\ \A id : ~Acked(e, id)
        /\ \A id, b : IsGot(e, id, b) <=> IsPart(m, id, b)
    BY <1>5 DEF Acked, IsGot, IsPart, on_message, MsgType
  <1> HIDE DEF s, e, n
  <1>7. /\ L2[k].ev = s
        /\ \A j \in Links : j # k => L2[j].ev = L[j].ev
        /\ \A j \in Links : L2[j].inq = L[j].inq /\ L2[j].busy = L[j].busy
    BY <1>4 DEF Handler
  <1>8. W2[l] = <<>> /\ \A g \in Links : g # l => W2[g] = W[g]
    OBVIOUS
  <1>9. ASSUME NEW g \in Links, NEW id, Rung(L2, g, id)
        PROVE  Rung(L, g, id)
    <2>1. CASE g = k
      BY <1>2, <1>6, <1>7, <1>9, <2>1 DEF Rung
    <2>2. CASE g # k
      BY <1>7, <1>9, <2>2 DEF Rung
    <2> QED BY <2>1, <2>2
  <1>10. ASSUME NEW g \in Links, NEW i, NEW id, NEW b
         PROVE  Got(L2, g, i, id, b) <=>
                  (Got(L, g, i, id, b) \/ (g = k /\ i = n /\ IsPart(m, id, b)))
    <2>1. CASE g = k
      BY <1>2, <1>3, <1>6, <1>7, <2>1 DEF Got
    <2>2. CASE g # k
      BY <1>7, <2>2 DEF Got
    <2> QED BY <2>1, <2>2
  <1> QED BY <1>7, <1>8, <1>9, <1>10 DEF Lands, n

\* Other sends are not concerned.
LEMMA LandStill ==
  ASSUME NEW N, NEW L, NEW W, NEW L2, NEW W2, NEW l \in Links, NEW k \in Links,
         k[2] = l[1], NEW m, Lands(L, W, L2, W2, l, k, m), Shut(L, W),
         NEW p, NEW id, ~(p = l[1] /\ \E b : IsPart(m, id, b))
  PROVE  Still(N, L, W, N, L2, W2, p, id)
  <1>1. \A g \in Links : \A b : /\ Boxed(L2, g, id, b) <=> Boxed(L, g, id, b)
                                /\ Loaded(L2, g, id, b) <=> Loaded(L, g, id, b)
    BY DEF Lands, Boxed, Loaded
  <1>2. \A g \in Links : \A b : Float(W2, g, id, b) => Float(W, g, id, b)
    BY DEF Lands, Float
  <1>3. ASSUME NEW g \in Links, g[1] = p, NEW b, Loaded(L2, g, id, b), W2[g] = <<>>
        PROVE  Loaded(L, g, id, b) /\ W[g] = <<>>
    <2>1. CASE g = l
      <3>1. L[l].busy # <<>> /\ IsPart(L[l].busy[1], id, b)
        BY <1>1, <1>3, <2>1 DEF Loaded
      <3>2. W[l] = L[l].busy /\ W[l][1] = m
        BY <3>1 DEF Shut, Lands
      <3> QED BY <1>3, <2>1, <3>1, <3>2
    <2>2. CASE g # l
      BY <1>1, <1>3, <2>2 DEF Lands
    <2> QED BY <2>1, <2>2
  <1>4. \A g \in Links : Rung(L2, g, id) => Rung(L, g, id)
    BY DEF Lands
  <1>5. ASSUME NEW g \in Links, g[2] = p, NEW i, NEW b, Got(L2, g, i, id, b)
        PROVE  Got(L, g, i, id, b)
    BY <1>5 DEF Lands
  <1> QED BY <1>1, <1>2, <1>3, <1>4, <1>5 DEF Still

\* Where no chunk of send id lands, the reports of its chunks stay.
LEMMA LandEven ==
  ASSUME NEW L, NEW W, NEW L2, NEW W2, NEW l, NEW k, NEW m,
         Lands(L, W, L2, W2, l, k, m), NEW g \in Links, NEW id,
         ~(g = k /\ \E b : IsPart(m, id, b))
  PROVE  Even(L, L2, g, id)
  BY DEF Lands, Even

\* The chunk that lands is the last one.
LEMMA RowLanded ==
  ASSUME NEW N, NEW L \in [Links -> Handler], NEW W, NEW L2, NEW W2,
         NEW y \in Peers, NEW c \in Conns, \A c1, c2 \in Conns : c1 = c2,
         NEW q \in Peers, NEW o \in OngoingRecv, Row(N, L, W, q, o), NEW m,
         Lands(L, W, L2, W2, <<o.remote, y, c>>, <<y, o.remote, c>>, m),
         NEW body, IsPart(m, o.remote_send_id, body), Tied(N, L, W)
  PROVE  Row(N, L2, W2, q, o)
  <1> DEFINE p == o.remote
             id == o.remote_send_id
             f == o.file
             d == Len(o.data)
             l == <<p, y, c>>
             k == <<y, p, c>>
             n == Len(L[k].ev) + 1
             S(b) == Seen(L, p, q, id, b)
             S2(b) == Seen(L2, p, q, id, b)
             R(b) == Rear(N, L, W, p, q, id, b)
             R2(b) == Rear(N, L2, W2, p, q, id, b)
             U(b) == Under(N, L, W, p, q, id, b)
  <1>1. /\ f \in Files /\ d \in Nat /\ p \in Peers /\ l \in Links /\ k \in Links
        /\ l[1] = p
    BY DEF OngoingRecv, Links
  <1>2. \A x \in Peers : \A c1 \in Conns :
          /\ <<p, x, c1>> \in Links /\ <<x, p, c1>> \in Links
          /\ <<p, x, c1>>[1] = p /\ c1 = c
          /\ <<p, x, c1>> = l => x = y
          /\ <<x, p, c1>> = k => x = y
          /\ x = y => <<p, x, c1>> = l /\ <<x, p, c1>> = k
    BY <1>1 DEF Links
  <1>3. Float(W, l, id, body)
    BY DEF Lands, Float
  <1>4. /\ \A x \in Peers : \A b : ~Queued(N, p, x, id, b)
        /\ \A g \in Links : g[1] = p =>
             /\ ~Rung(L, g, id)
             /\ \A b : /\ ~Boxed(L, g, id, b)
                       /\ Loaded(L, g, id, b) => g = l /\ b = body
    <2> HIDE DEF l, p, id
    <2> QED BY <1>1, <1>3, Zenon DEF Tied
  <1>5. /\ \A g \in Links : \A b : /\ Boxed(L2, g, id, b) <=> Boxed(L, g, id, b)
                                   /\ Loaded(L2, g, id, b) <=> Loaded(L, g, id, b)
        /\ \A g \in Links : \A b : Float(W2, g, id, b) => Float(W, g, id, b) /\ g # l
        /\ \A g \in Links : Rung(L2, g, id) => Rung(L, g, id)
    BY DEF Lands, Boxed, Loaded, Float
  <1>6. \A g \in Links : \A i, b : Got(L2, g, i, id, b) <=>
          (Got(L, g, i, id, b) \/ (g = k /\ i = n /\ b = body))
    BY DEF Lands, IsPart
  <1>7. \A i, b : Got(L, k, i, id, b) => i \in Nat /\ i < n
    <2>1. L[k].ev \in Seq(Event)
      BY <1>1 DEF Handler
    <2> QED BY <2>1 DEF Got
  <1> HIDE DEF n, l, k
  <1>8. \A b : R2(b) => R(b) /\ q # y
    BY <1>2, <1>4, <1>5 DEF Rear
  <1>9. \A b : S2(b) => S(b) \/ (b = body /\ q = y)
    BY <1>2, <1>6 DEF Seen
  <1>10. \A b : S(b) => S2(b)
    BY <1>2, <1>6 DEF Seen
  <1>11. q = y => S2(body) /\ R(body)
    BY <1>2, <1>3, <1>6 DEF Seen, Rear
  <1>12. /\ \A b : U(b) <=> (R(b) \/ S(b))
         /\ \A b : Under(N, L2, W2, p, q, id, b) <=> (R2(b) \/ S2(b))
    BY DEF Under
  <1>13. \A b : Under(N, L2, W2, p, q, id, b) => U(b)
    BY <1>8, <1>9, <1>11, <1>12
  <1>14. Ahead(N, L2, W2, q, o)
    BY <1>13 DEF Row, Ahead
  <1>15. \A b : R(b) /\ q = y => \A b2 : S(b2) => No(f, b2) < No(f, b)
    BY DEF Row, Behind
  <1>16. Lined(L2, q, o)
    <2> SUFFICES ASSUME NEW c1 \in Conns, NEW i, NEW j, NEW b, NEW b2,
                        Got(L2, <<q, p, c1>>, i, id, b),
                        Got(L2, <<q, p, c1>>, j, id, b2), i < j
                 PROVE  No(f, b) < No(f, b2)
      BY DEF Lined
    <2> DEFINE g == <<q, p, c1>>
    <2>1. g \in Links /\ (g = k => q = y)
      BY <1>2
    <2>2. CASE Got(L, g, i, id, b) /\ Got(L, g, j, id, b2)
      BY <2>2 DEF Row, Lined
    <2>3. CASE Got(L, g, i, id, b) /\ g = k /\ b2 = body
      <3>1. S(b)
        BY <2>3 DEF Seen
      <3> QED BY <1>11, <1>15, <2>1, <2>3, <3>1
    <2>4. CASE g = k /\ i = n /\ j = n
      <3>1. n \in Nat
        <4>1. L[k].ev \in Seq(Event)
          BY <1>1 DEF Handler
        <4> QED BY <4>1 DEF n
      <3> QED BY <2>4, <3>1
    <2>5. CASE g = k /\ i = n /\ Got(L, g, j, id, b2)
      <3>1. n \in Nat
        <4>1. L[k].ev \in Seq(Event)
          BY <1>1 DEF Handler
        <4> QED BY <4>1 DEF n
      <3>2. j \in Nat /\ j < n
        BY <1>7, <2>5
      <3> QED BY <2>5, <3>1, <3>2
    <2>6. /\ Got(L, g, i, id, b) \/ (g = k /\ i = n /\ b = body)
          /\ Got(L, g, j, id, b2) \/ (g = k /\ j = n /\ b2 = body)
      BY <1>6, <2>1
    <2> HIDE DEF g
    <2> QED BY <2>2, <2>3, <2>4, <2>5, <2>6
  <1>17. Behind(N, L2, W2, q, o)
    <2>1. \A b, b2 : R(b) /\ S(b2) => No(f, b2) < No(f, b)
      BY DEF Row, Behind
    <2> QED BY <1>8, <1>9, <2>1 DEF Behind
  <1>18. Whole(N, L2, W2, q, o)
    BY <1>10, <1>13 DEF Row, Whole
  <1>19. ASSUME NEW s \in N[p].ongoing_send, s.local_send_id = id
         PROVE  Source(N, L2, W2, q, o, s)
    <2> DEFINE B == s.bytes_sent
    <2>1. Source(N, L, W, q, o, s)
      BY <1>19 DEF Row, Sourced
    <2>2. \A x \in Peers : \A b : Own(N, L2, p, x, id, b) => Own(N, L, p, x, id, b)
      BY <1>2, <1>5 DEF Own
    <2>3. \A x \in Peers : \A b : Own(N, L, p, x, id, b) => x = q /\ No(f, b) = B
      BY <2>1 DEF Source
    <2>4. ASSUME Ready(L2, W2, p, id)
          PROVE  \E b : S2(b) /\ No(f, b) = B
      <3>1. PICK g \in Links : /\ g[1] = p
                               /\ \/ Rung(L2, g, id)
                                  \/ W2[g] = <<>> /\ \E b : Loaded(L2, g, id, b)
        BY <2>4 DEF Ready
      <3>2. Loaded(L, l, id, body)
        BY <1>4, <1>5, <3>1
      <3>3. Own(N, L, p, y, id, body)
        BY <3>2 DEF Own, l
      <3>4. y = q /\ No(f, body) = B
        BY <2>3, <3>3
      <3> QED BY <1>11, <3>4
    <2> QED BY <1>13, <2>1, <2>2, <2>3, <2>4 DEF Source
  <1>20. Sourced(N, L2, W2, q, o)
    BY <1>19 DEF Row, Sourced
  <1> QED BY <1>14, <1>16, <1>17, <1>18, <1>20 DEF Row

-----------------------------------------------------------------------------
(* How handlers and queues move chunks. *)

\* Queues get no chunks of send id of p.
Dim(N, N2, p, id) ==
  \A x \in Peers : \A b : Queued(N2, p, x, id, b) => Queued(N, p, x, id, b)

\* Chunks that go before or after others move.
LEMMA StillDim ==
  ASSUME NEW N, NEW L, NEW W, NEW N1, NEW N2, NEW L2, NEW W2,
         NEW p, NEW id,
         \/ Dim(N, N1, p, id) /\ Still(N1, L, W, N2, L2, W2, p, id)
         \/ Still(N, L, W, N1, L2, W2, p, id) /\ Dim(N1, N2, p, id)
  PROVE  Still(N, L, W, N2, L2, W2, p, id)
  <1>1. \A l \in Links : l[2] \in Peers
    BY DEF Links
  <1>2. CASE Dim(N, N1, p, id) /\ Still(N1, L, W, N2, L2, W2, p, id)
    BY <1>1, <1>2 DEF Dim, Still
  <1>3. CASE Still(N, L, W, N1, L2, W2, p, id) /\ Dim(N1, N2, p, id)
    BY <1>3 DEF Dim, Still
  <1> QED BY <1>2, <1>3

\* Handler h2 reports no chunk that h does not report, at the same place.
Hears(h, h2) ==
  \A i \in DOMAIN h2.ev :
    h2.ev[i].type = "RecvProgressed" => i \in DOMAIN h.ev /\ h.ev[i] = h2.ev[i]

\* A handler that is unchanged, or new, reports no other chunk.
LEMMA HearsSame ==
  ASSUME NEW h
  PROVE  Hears(h, h) /\ Hears(h, NewHandler)
  <1>1. NewHandler.ev = <<>>
    BY DEF NewHandler
  <1> QED BY <1>1 DEF Hears

\* Two such changes make one.
LEMMA HearsTrans ==
  ASSUME NEW h, NEW h1, NEW h2, Hears(h, h1), Hears(h1, h2)
  PROVE  Hears(h, h2)
  BY DEF Hears

\* A handler that reports something that is no chunk.
LEMMA TellHears ==
  ASSUME NEW L \in [Links -> Handler], NEW l \in Links, NEW e,
         e.type # "RecvProgressed"
  PROVE  \A j \in Links : /\ Hears(L[j], Tell(L, l, e)[j])
                          /\ Hears(Tell(L, l, e)[j], L[j])
  <1> DEFINE L2 == Tell(L, l, e)
             z == L[l].ev
             s == Append(z, e)
  <1>1. z \in Seq(Event)
    BY DEF Handler
  <1>2. \A i \in DOMAIN s : \/ i \in DOMAIN z /\ i # Len(z) + 1 /\ s[i] = z[i]
                            \/ i = Len(z) + 1 /\ s[i] = e
    BY <1>1, AppendAt, ZenonT(60)
  <1>3. \A i \in DOMAIN z : i \in DOMAIN s /\ s[i] = z[i]
    BY <1>1
  <1>4. L2 = [L EXCEPT ![l].ev = s]
    BY DEF Tell
  <1> HIDE DEF s, L2
  <1>5. /\ L2[l].ev = s
        /\ \A j \in Links : j # l => L2[j].ev = L[j].ev
    BY <1>4 DEF Handler
  <1>6. \A j \in Links : Hears(L[j], L2[j]) /\ Hears(L2[j], L[j])
    BY <1>2, <1>3, <1>5 DEF Hears
  <1> QED BY <1>6 DEF L2

\* A handler that reports neither more nor fewer chunks.
LEMMA EvenHears ==
  ASSUME NEW L, NEW L2, NEW l, NEW id, Hears(L[l], L2[l]), Hears(L2[l], L[l])
  PROVE  Even(L, L2, l, id)
  <1>1. \A i, b : Got(L2, l, i, id, b) => Got(L, l, i, id, b)
    BY DEF Hears, Got, IsGot
  <1>2. \A i, b : Got(L, l, i, id, b) => Got(L2, l, i, id, b)
    BY DEF Hears, Got, IsGot
  <1> QED BY <1>1, <1>2 DEF Even

\* Handlers and streams only lose chunks.
LEMMA StillSoft ==
  ASSUME NEW N, NEW L, NEW W, NEW L2, NEW W2,
         \A l \in Links : /\ Softer(L[l], L2[l]) /\ Hears(L[l], L2[l])
                          /\ W2[l] = W[l] \/ (W2[l] = <<>> /\ L2[l].busy = <<>>)
  PROVE  AllStill(N, L, W, N, L2, W2)
  <1> SUFFICES ASSUME NEW p \in Peers, NEW id
               PROVE  Still(N, L, W, N, L2, W2, p, id)
    BY DEF AllStill
  <1>1. ASSUME NEW l \in Links
        PROVE  /\ \A b : Boxed(L2, l, id, b) => Boxed(L, l, id, b)
               /\ \A b : Loaded(L2, l, id, b) => Loaded(L, l, id, b)
               /\ \A b : Float(W2, l, id, b) => Float(W, l, id, b)
               /\ \A b : Loaded(L2, l, id, b) /\ W2[l] = <<>> => W[l] = <<>>
               /\ Rung(L2, l, id) => Rung(L, l, id)
               /\ \A i, b : Got(L2, l, i, id, b) => Got(L, l, i, id, b)
    <2>1. /\ Softer(L[l], L2[l]) /\ Hears(L[l], L2[l])
          /\ W2[l] = W[l] \/ (W2[l] = <<>> /\ L2[l].busy = <<>>)
      OBVIOUS
    <2>2. /\ \A b : Boxed(L2, l, id, b) => Boxed(L, l, id, b)
          /\ \A b : Loaded(L2, l, id, b) => Loaded(L, l, id, b)
          /\ Rung(L2, l, id) => Rung(L, l, id)
      BY <2>1 DEF Softer, Boxed, Loaded, Rung, IsPart, Acked
    <2>3. \A i, b : Got(L2, l, i, id, b) => Got(L, l, i, id, b)
      BY <2>1 DEF Hears, Got, IsGot
    <2>4. /\ \A b : Float(W2, l, id, b) => Float(W, l, id, b)
          /\ \A b : Loaded(L2, l, id, b) /\ W2[l] = <<>> => W[l] = <<>>
      BY <2>1 DEF Float, Loaded
    <2> QED BY <2>2, <2>3, <2>4
  <1> QED BY <1>1 DEF Still

\* The reports of a handler after the next one is taken.
LEMMA DrawGot ==
  ASSUME NEW L \in [Links -> Handler], NEW L2, NEW l0 \in Links,
         Draws(L, L2, l0), NEW id
  PROVE  /\ \A i, b : Got(L2, l0, i, id, b) <=>
              (i \in Nat /\ i >= 1 /\ Got(L, l0, i + 1, id, b))
         /\ \A b : Got(L, l0, 1, id, b) <=> IsGot(Head(L[l0].ev), id, b)
         /\ \A l \in Links : l # l0 =>
              \A i, b : Got(L2, l, i, id, b) <=> Got(L, l, i, id, b)
  <1> DEFINE z == L[l0].ev
             y == Tail(z)
  <1>1. z \in Seq(Event) /\ z # <<>>
    BY DEF Handler, Draws
  <1>2. \A i : i \in DOMAIN y <=> (i \in Nat /\ i >= 1 /\ i + 1 \in DOMAIN z)
    BY <1>1
  <1>3. \A i \in DOMAIN y : y[i] = z[i + 1]
    BY <1>1
  <1>4. 1 \in DOMAIN z /\ Head(z) = z[1]
    BY <1>1
  <1>5. L2[l0].ev = y /\ \A l \in Links : l # l0 => L2[l].ev = L[l].ev
    BY DEF Draws
  <1> HIDE DEF y, z
  <1>6. \A i, b : Got(L2, l0, i, id, b) <=>
          (i \in Nat /\ i >= 1 /\ Got(L, l0, i + 1, id, b))
    BY <1>2, <1>3, <1>5 DEF Got, z
  <1>7. \A b : Got(L, l0, 1, id, b) <=> IsGot(Head(z), id, b)
    BY <1>4 DEF Got, z
  <1>8. \A l \in Links : l # l0 =>
          \A i, b : Got(L2, l, i, id, b) <=> Got(L, l, i, id, b)
    BY <1>5 DEF Got
  <1> QED BY <1>6, <1>7, <1>8 DEF z

\* Taking an event that is no chunk of send id.
LEMMA EvenDraw ==
  ASSUME NEW L \in [Links -> Handler], NEW L2, NEW l0 \in Links,
         Draws(L, L2, l0), NEW l \in Links, NEW id,
         ~(l = l0 /\ \E b : IsGot(Head(L[l0].ev), id, b))
  PROVE  Even(L, L2, l, id)
  <1>1. CASE l = l0
    BY <1>1, DrawGot DEF Even
  <1>2. CASE l # l0
    BY <1>2, DrawGot DEF Even
  <1> QED BY <1>1, <1>2

\* Taking an event brings no chunk.
LEMMA StillDraw ==
  ASSUME NEW N, NEW L \in [Links -> Handler], NEW W, NEW L2, NEW l0 \in Links,
         Draws(L, L2, l0)
  PROVE  AllStill(N, L, W, N, L2, W)
  <1> SUFFICES ASSUME NEW p \in Peers, NEW id
               PROVE  Still(N, L, W, N, L2, W, p, id)
    BY DEF AllStill
  <1>1. \A l \in Links : \A b : /\ Boxed(L2, l, id, b) => Boxed(L, l, id, b)
                                /\ Loaded(L2, l, id, b) => Loaded(L, l, id, b)
    BY DEF Draws, Boxed, Loaded
  <1>2. \A l \in Links : \A i, b : Got(L2, l, i, id, b)
          => \E j : Got(L, l, j, id, b)
    <2>1. \A i, b : Got(L2, l0, i, id, b) => Got(L, l0, i + 1, id, b)
      BY DrawGot
    <2>2. \A l \in Links : l # l0 =>
            \A i, b : Got(L2, l, i, id, b) => Got(L, l, i, id, b)
      BY DrawGot
    <2> QED BY <2>1, <2>2, Zenon
  <1>3. \A l \in Links : Rung(L2, l, id) => Rung(L, l, id)
    <2>1. \A l \in Links : l # l0 => L2[l].ev = L[l].ev
      BY DEF Draws
    <2>2. \A i \in DOMAIN L2[l0].ev : \E j \in DOMAIN L[l0].ev :
            L2[l0].ev[i] = L[l0].ev[j]
      <3>1. L[l0].ev \in Seq(Event) /\ L[l0].ev # <<>> /\ L2[l0].ev = Tail(L[l0].ev)
        BY DEF Draws, Handler
      <3> QED BY <3>1, TailAt
    <2> QED BY <2>1, <2>2 DEF Rung
  <1> QED BY <1>1, <1>2, <1>3 DEF Still

\* poll takes a message from the queue of a; a handler may get it.
LEMMA DimPop ==
  ASSUME NEW N \in [Peers -> Behaviour], NEW N2, NEW a \in Peers, Pops(N, N2, a),
         NEW p \in Peers, NEW id
  PROVE  Dim(N, N2, p, id)
  <1> DEFINE z == N[a].pending_handler_event
  <1>1. \A i \in DOMAIN Tail(z) : i + 1 \in DOMAIN z /\ Tail(z)[i] = z[i + 1]
    BY PopsAt
  <1>2. /\ N2[a].pending_handler_event = Tail(z)
        /\ p # a => N2[p].pending_handler_event = N[p].pending_handler_event
    BY DEF Pops
  <1> HIDE DEF z
  <1>3. CASE p = a
    BY <1>1, <1>2, <1>3 DEF Dim, Queued, z
  <1>4. CASE p # a
    BY <1>2, <1>4 DEF Dim, Queued
  <1> QED BY <1>3, <1>4

\* The swarm hands the first notification to a handler.
LEMMA StillPost ==
  ASSUME NEW N \in [Peers -> Behaviour], NEW L \in [Links -> Handler], NEW W,
         NEW N2, NEW L2, NEW a \in Peers, Pops(N, N2, a), NEW l0 \in Links,
         l0[1] = a, l0[2] = Head(N[a].pending_handler_event).to,
         Enters(L, L2, l0, Head(N[a].pending_handler_event).msg)
  PROVE  AllStill(N, L, W, N2, L2, W)
  <1> SUFFICES ASSUME NEW p \in Peers, NEW id
               PROVE  Still(N, L, W, N2, L2, W, p, id)
    BY DEF AllStill
  <1> DEFINE h == Head(N[a].pending_handler_event)
  <1>1. \A x \in Peers : \A b : Queued(N2, p, x, id, b) => Queued(N, p, x, id, b)
    BY DimPop DEF Dim
  <1>2. \A l \in Links : L2[l].busy = L[l].busy /\ L2[l].ev = L[l].ev
    BY DEF Enters
  <1>3. ASSUME NEW l \in Links, l[1] = p, NEW b, Boxed(L2, l, id, b)
        PROVE  Boxed(L, l, id, b) \/ Queued(N, p, l[2], id, b)
    <2>1. CASE l = l0
      <3>1. L[l].inq \in Seq(Msg) /\ L2[l].inq = Append(L[l].inq, h.msg)
        BY <2>1 DEF Enters, Handler
      <3>2. \A i \in DOMAIN Append(L[l].inq, h.msg) :
              \/ i \in DOMAIN L[l].inq /\ Append(L[l].inq, h.msg)[i] = L[l].inq[i]
              \/ Append(L[l].inq, h.msg)[i] = h.msg
        <4> HIDE DEF h
        <4> QED BY <3>1, AppendAt
      <3>3. /\ 1 \in DOMAIN N[a].pending_handler_event
            /\ h = N[a].pending_handler_event[1]
        BY PopsAt
      <3>4. IsPart(h.msg, id, b) => Queued(N, p, l[2], id, b)
        BY <1>3, <2>1, <3>3 DEF Queued
      <3> HIDE DEF h
      <3> QED BY <1>3, <3>1, <3>2, <3>4 DEF Boxed
    <2>2. CASE l # l0
      BY <1>3, <2>2 DEF Enters, Boxed
    <2> QED BY <2>1, <2>2
  <1>4. \A l \in Links : /\ \A b : Loaded(L2, l, id, b) => Loaded(L, l, id, b)
                         /\ Rung(L2, l, id) => Rung(L, l, id)
                         /\ \A i, b : Got(L2, l, i, id, b) => Got(L, l, i, id, b)
    BY <1>2 DEF Loaded, Rung, Got
  <1> QED BY <1>1, <1>3, <1>4 DEF Still

\* The message goes from the inbox to the stream.
LEMMA StillLeave ==
  ASSUME NEW N, NEW L \in [Links -> Handler], NEW W, NEW L2, NEW W2,
         NEW l0 \in Links, Leaves(L, L2, l0), W2[l0] = <<Head(L[l0].inq)>>,
         \A l \in Links : l # l0 => W2[l] = W[l]
  PROVE  AllStill(N, L, W, N, L2, W2)
  <1> SUFFICES ASSUME NEW p \in Peers, NEW id
               PROVE  Still(N, L, W, N, L2, W2, p, id)
    BY DEF AllStill
  <1> DEFINE m == Head(L[l0].inq)
  <1>1. /\ L[l0].inq \in Seq(Msg) /\ L[l0].inq # <<>>
        /\ L2[l0].inq = Tail(L[l0].inq)
    BY DEF Leaves, Handler
  <1>2. /\ \A i \in DOMAIN L2[l0].inq : i + 1 \in DOMAIN L[l0].inq
                                        /\ L2[l0].inq[i] = L[l0].inq[i + 1]
        /\ 1 \in DOMAIN L[l0].inq /\ m = L[l0].inq[1]
    BY <1>1, TailAt
  <1>3. L2[l0].busy = <<m>> /\ W2[l0] = <<m>> /\ <<m>>[1] = m /\ <<m>> # <<>>
    BY DEF Leaves
  <1> HIDE DEF m
  <1>4. \A l \in Links : l # l0 => L2[l].inq = L[l].inq /\ L2[l].busy = L[l].busy
    BY DEF Leaves
  <1>5. \A l \in Links : \A b : Boxed(L2, l, id, b) => Boxed(L, l, id, b)
    BY <1>2, <1>4 DEF Boxed
  <1>6. \A b : IsPart(m, id, b) => Boxed(L, l0, id, b)
    BY <1>2 DEF Boxed
  <1>7. \A b : /\ Loaded(L2, l0, id, b) <=> IsPart(m, id, b)
               /\ Float(W2, l0, id, b) <=> IsPart(m, id, b)
    BY <1>3 DEF Loaded, Float
  <1>8. \A l \in Links : l # l0 =>
          \A b : /\ Loaded(L2, l, id, b) => Loaded(L, l, id, b)
                 /\ Float(W2, l, id, b) => Float(W, l, id, b)
                 /\ W2[l] = <<>> => W[l] = <<>>
    BY <1>4 DEF Loaded, Float
  <1>9. \A l \in Links : /\ Rung(L2, l, id) => Rung(L, l, id)
                         /\ \A i, b : Got(L2, l, i, id, b) => Got(L, l, i, id, b)
    BY DEF Leaves, Rung, Got
  <1>10. ASSUME NEW l \in Links
         PROVE  /\ \A b : Loaded(L2, l, id, b) =>
                     Loaded(L, l, id, b) \/ (Boxed(L, l, id, b) /\ Float(W2, l, id, b))
                /\ \A b : Float(W2, l, id, b) =>
                     Float(W, l, id, b) \/ (Boxed(L, l, id, b) /\ Loaded(L2, l, id, b))
                /\ \A b : Loaded(L2, l, id, b) /\ W2[l] = <<>> =>
                     Loaded(L, l, id, b) /\ W[l] = <<>>
    <2>1. CASE l = l0
      BY <1>3, <1>6, <1>7, <2>1
    <2>2. CASE l # l0
      BY <1>8, <2>2
    <2> QED BY <2>1, <2>2
  <1> QED BY <1>5, <1>9, <1>10 DEF Still

\* The acknowledgement is back.
LEMMA StillEnd ==
  ASSUME NEW N, NEW L \in [Links -> Handler], NEW W, NEW L2,
         NEW l0 \in Links, NEW e, Ends(L, L2, l0, e), W[l0] = <<>>
  PROVE  /\ AllStill(N, L, W, N, L2, W)
         /\ \A l \in Links : \A id : Even(L, L2, l, id)
  <1> DEFINE z == L[l0].ev
             m == L[l0].busy[1]
  <1>1. z \in Seq(Event)
    BY DEF Handler
  <1>2. /\ \A i \in DOMAIN Append(z, e) :
             (i \in DOMAIN z /\ Append(z, e)[i] = z[i]) \/ Append(z, e)[i] = e
        /\ \A i \in DOMAIN z : i \in DOMAIN Append(z, e) /\ Append(z, e)[i] = z[i]
    BY <1>1
  <1>3. /\ \/ m.type = "FileChunk" /\ L2[l0].ev = Append(z, e)
           \/ L2[l0].ev = z
        /\ e.type = "SendProgressed" /\ e.id = m.id
        /\ L[l0].busy # <<>> /\ L2[l0].busy = <<>>
        /\ \A l \in Links : l # l0 => L2[l].ev = L[l].ev /\ L2[l].busy = L[l].busy
        /\ \A l \in Links : L2[l].inq = L[l].inq
    BY DEF Ends
  <1> HIDE DEF z, m
  <1>4. \A id, i, b : Got(L2, l0, i, id, b) <=> Got(L, l0, i, id, b)
    BY <1>2, <1>3 DEF Got, IsGot, z
  <1>5. \A l \in Links : l # l0 =>
          \A id, i, b : Got(L2, l, i, id, b) <=> Got(L, l, i, id, b)
    BY <1>3 DEF Got
  <1>6. \A l \in Links : \A id : Even(L, L2, l, id)
    BY <1>4, <1>5 DEF Even
  <1>7. ASSUME NEW p \in Peers, NEW id
        PROVE  Still(N, L, W, N, L2, W, p, id)
    <2>1. \A l \in Links : \A b : /\ Boxed(L2, l, id, b) => Boxed(L, l, id, b)
                                  /\ Loaded(L2, l, id, b) => Loaded(L, l, id, b)
      BY <1>3 DEF Boxed, Loaded
    <2>2. Rung(L2, l0, id) => Rung(L, l0, id) \/ Loaded(L, l0, id, m.body)
      BY <1>2, <1>3, SMTT(40) DEF Rung, Acked, Loaded, IsPart, z, m
    <2>3. \A l \in Links : l # l0 => (Rung(L2, l, id) => Rung(L, l, id))
      BY <1>3 DEF Rung
    <2>4. \A l \in Links : Rung(L2, l, id) =>
            Rung(L, l, id) \/ (W[l] = <<>> /\ \E b : Loaded(L, l, id, b))
      BY <2>2, <2>3
    <2>5. \A l \in Links : \A i, b : Got(L2, l, i, id, b) => Got(L, l, i, id, b)
      BY <1>4, <1>5
    <2> QED BY <2>1, <2>4, <2>5 DEF Still
  <1> QED BY <1>6, <1>7 DEF AllStill

-----------------------------------------------------------------------------
(* Every step keeps the invariant. *)

OrderInv == restarts = 0 => Order(node, link, wire, panic)

\* What a step finds, and what is known of it.
Ripe ==
  /\ Inv /\ Inv' /\ FlowInv /\ FlowNext /\ Paced /\ Paced' /\ Plugged
  /\ Shut(link, wire) /\ OrderInv

\* The same, if no peer has been restarted.
LEMMA RipeOrder ==
  ASSUME Ripe, UNCHANGED restarts, restarts' = 0
  PROVE  /\ Order(node, link, wire, panic)
         /\ Flow(node, link, wire, panic, accepted)
         /\ Heir(node, link, wire, panic, node', link', wire', panic')
         /\ \A p, q \in Peers : Waiting(node, panic, p, q)
         /\ \A p \in Peers : Sole(node', link', p)
         /\ node \in [Peers -> Behaviour] /\ node' \in [Peers -> Behaviour]
         /\ link \in [Links -> Handler] /\ wire \in [Links -> Slot]
  <1>1. Order(node, link, wire, panic) /\ Flow(node, link, wire, panic, accepted)
    BY DEF Ripe, OrderInv, FlowInv
  <1>2. Heir(node, link, wire, panic, node', link', wire', panic')
    BY DEF Ripe, FlowNext
  <1>3. \A p, q \in Peers : Waiting(node, panic, p, q)
    BY <1>1 DEF Flow
  <1>4. \A p \in Peers : Sole(node', link', p)
    BY DEF Ripe, Paced, PacedAt
  <1>5. node' \in [Peers -> Behaviour]
    BY DEF Ripe, Inv, NodeInv
  <1> QED BY <1>1, <1>2, <1>3, <1>4, <1>5, InvTypes DEF Ripe

\* A step in which chunks move and records go.
LEMMA PlainStep ==
  ASSUME Ripe, UNCHANGED restarts,
         AllStill(node, link, wire, node', link', wire'),
         \A p \in Peers : /\ node'[p].ongoing_send \subseteq node[p].ongoing_send
                          /\ node'[p].ongoing_recv \subseteq node[p].ongoing_recv,
         \A q \in Peers : \A o \in node'[q].ongoing_recv : \A c \in Conns :
           Even(link, link', <<q, o.remote, c>>, o.remote_send_id)
  PROVE  OrderInv'
  <1> SUFFICES ASSUME restarts' = 0
               PROVE  Order(node', link', wire', panic')
    BY DEF OrderInv
  <1> QED BY RipeOrder, PlainOrder

\* A method that queues no chunk and starts no transfer.
Meek(b, a) ==
  /\ a.ongoing_send \subseteq b.ongoing_send
  /\ a.ongoing_recv \subseteq b.ongoing_recv
  /\ \A i \in DOMAIN a.pending_handler_event :
       a.pending_handler_event[i].msg.type = "FileChunk" =>
         \E j \in DOMAIN b.pending_handler_event :
           b.pending_handler_event[j] = a.pending_handler_event[i]

\* A meek method adds no chunk to the queue.
LEMMA MeekDim ==
  ASSUME NEW N, NEW N2, NEW p, NEW id, Meek(N[p], N2[p])
  PROVE  Dim(N, N2, p, id)
  BY DEF Meek, Dim, Queued, IsPart

\* A method that queues one message at most, and no chunk, is meek.
LEMMA QuietlyMeek ==
  ASSUME NEW b \in Behaviour, NEW a,
         Quietly(b.pending_handler_event, a.pending_handler_event),
         a.ongoing_send \subseteq b.ongoing_send,
         a.ongoing_recv \subseteq b.ongoing_recv
  PROVE  Meek(b, a)
  <1> DEFINE z == b.pending_handler_event
             y == a.pending_handler_event
  <1>1. z \in Seq(Notification)
    BY DEF Behaviour
  <1>2. ASSUME NEW q, NEW m, m.type # "FileChunk",
               y = Append(z, [to |-> q, msg |-> m]),
               NEW i \in DOMAIN y, y[i].msg.type = "FileChunk"
        PROVE  i \in DOMAIN z /\ z[i] = y[i]
    <2> DEFINE h == [to |-> q, msg |-> m]
    <2>1. \A j \in DOMAIN Append(z, h) :
             \/ j \in DOMAIN z /\ j # Len(z) + 1 /\ Append(z, h)[j] = z[j]
             \/ j = Len(z) + 1 /\ Append(z, h)[j] = h
      BY <1>1, AppendAt, ZenonT(60)
    <2>2. h.msg.type # "FileChunk"
      BY <1>2
    <2> HIDE DEF h, z, y
    <2> QED BY <1>2, <2>1, <2>2 DEF h
  <1>3. \A i \in DOMAIN y : y[i].msg.type = "FileChunk" =>
          i \in DOMAIN z /\ z[i] = y[i]
    BY <1>2 DEF Quietly
  <1> QED BY <1>3 DEF Meek

\* Meek methods run while handlers and streams move chunks.
LEMMA MeekStep ==
  ASSUME Ripe, UNCHANGED restarts, AllStill(node, link, wire, node, link', wire'),
         \A p \in Peers : Meek(node[p], node'[p]),
         \A q \in Peers : \A o \in node'[q].ongoing_recv : \A c \in Conns :
           Even(link, link', <<q, o.remote, c>>, o.remote_send_id)
  PROVE  OrderInv'
  <1>1. ASSUME NEW p \in Peers, NEW id
        PROVE  Still(node, link, wire, node', link', wire', p, id)
    <2>1. Dim(node, node', p, id) /\ Still(node, link, wire, node, link', wire', p, id)
      BY MeekDim DEF AllStill
    <2> QED BY <2>1, StillDim
  <1>2. AllStill(node, link, wire, node', link', wire')
    BY <1>1 DEF AllStill
  <1>3. \A p \in Peers : /\ node'[p].ongoing_send \subseteq node[p].ongoing_send
                         /\ node'[p].ongoing_recv \subseteq node[p].ongoing_recv
    BY DEF Meek
  <1> QED BY <1>2, <1>3, PlainStep

\* Nothing is done.
LEMMA MeekSame ==
  ASSUME NEW b
  PROVE  Meek(b, b)
  BY DEF Meek

\* A meek method of one peer.
LEMMA SetMeek ==
  ASSUME Inv, NEW p \in Peers, NEW b, Set(p, b), Meek(node[p], b)
  PROVE  \A x \in Peers : Meek(node[x], node'[x])
  BY SetAt, InvTypes, MeekSame

\* Nothing moves.
LEMMA StillSame ==
  ASSUME NEW N, NEW L, NEW W
  PROVE  /\ AllStill(N, L, W, N, L, W)
         /\ \A l, id : Even(L, L, l, id)
  <1>1. \A l \in Links : Softer(L[l], L[l]) /\ Hears(L[l], L[l])
    BY SofterSame, HearsSame
  <1>2. AllStill(N, L, W, N, L, W)
    BY <1>1, StillSoft
  <1> QED BY <1>2 DEF Even

\* A method of the Behaviour of p that at most queues a message.
LEMMA UserOrder ==
  ASSUME Ripe, UNCHANGED <<connVars, restarts>>, NEW p \in Peers, NEW a, Set(p, a),
         Quietly(node[p].pending_handler_event, a.pending_handler_event),
         a.ongoing_send \subseteq node[p].ongoing_send,
         a.ongoing_recv \subseteq node[p].ongoing_recv
  PROVE  OrderInv'
  <1>1. Meek(node[p], a)
    BY QuietlyMeek, InvTypes DEF Ripe
  <1>2. \A x \in Peers : Meek(node[x], node'[x])
    BY <1>1, SetMeek DEF Ripe
  <1>3. UNCHANGED <<link, wire>>
    BY DEF connVars
  <1>4. /\ AllStill(node, link, wire, node, link', wire')
        /\ \A l, id : Even(link, link', l, id)
    BY <1>3, StillSame
  <1> QED BY <1>2, <1>4, MeekStep

\* SendFile: a request is queued, no chunk.
LEMMA SendFileOrder ==
  ASSUME Ripe, NEW p \in Peers, NEW q \in Peers, NEW f \in Files, SendFile(p, q, f)
  PROVE  OrderInv'
  <1> DEFINE b == node[p]
             a == queue_send(b, q, f)
             m == Message("IncomingFile", b.send_counter, <<<<f, FileLen[f]>>>>)
  <1>1. Set(p, a) /\ UNCHANGED <<connVars, restarts>>
    BY Zenon DEF SendFile, lifeVars
  <1>2. b \in Behaviour
    BY InvTypes DEF Ripe
  <1>3. /\ a.pending_handler_event =
             Append(b.pending_handler_event, [to |-> q, msg |-> m])
        /\ a.ongoing_send = b.ongoing_send /\ a.ongoing_recv = b.ongoing_recv
    BY <1>2 DEF queue_send, next_send_id, Notify, Behaviour
  <1>4. m.type # "FileChunk"
    BY DEF Message
  <1> HIDE DEF a, b, m
  <1>5. Quietly(b.pending_handler_event, a.pending_handler_event)
    BY <1>3, <1>4, Zenon DEF Quietly
  <1> QED BY <1>1, <1>3, <1>5, UserOrder DEF b

\* SendFileNotFound, SendFileNoMetadata: only the id is spent.
LEMMA SendFileNothingOrder ==
  ASSUME Ripe, NEW p \in Peers, NEW q \in Peers,
         SendFileNotFound(p, q) \/ SendFileNoMetadata(p, q)
  PROVE  OrderInv'
  <1> DEFINE b == node[p]
             a == next_send_id(b)
  <1>1. Set(p, a) /\ UNCHANGED <<connVars, restarts>>
    BY DEF SendFileNotFound, SendFileNoMetadata, lifeVars
  <1>2. b \in Behaviour
    BY InvTypes DEF Ripe
  <1>3. /\ a.pending_handler_event = b.pending_handler_event
        /\ a.ongoing_send = b.ongoing_send /\ a.ongoing_recv = b.ongoing_recv
    BY <1>2 DEF next_send_id, Behaviour
  <1> HIDE DEF a, b
  <1> QED BY <1>1, <1>3, UserOrder DEF b, Quietly

\* CancelRecv: a record goes and CancelRecv is queued.
LEMMA CancelRecvOrder ==
  ASSUME Ripe, NEW p \in Peers, NEW id \in Nat, CancelRecv(p, id)
  PROVE  OrderInv'
  <1> DEFINE b == node[p]
             a(r) == cancel_recv_by_local_recv_id(b, id, r)
             m(r) == Message("CancelRecv", r.remote_send_id, <<>>)
  <1>1. PICK r \in recv_record(b, id) : Set(p, a(r))
    BY DEF CancelRecv
  <1>2. UNCHANGED <<connVars, restarts>>
    BY DEF CancelRecv, lifeVars
  <1>3. b \in Behaviour
    BY InvTypes DEF Ripe
  <1>4. /\ a(r).pending_handler_event =
             Append(b.pending_handler_event, [to |-> r.remote, msg |-> m(r)])
        /\ a(r).ongoing_send = b.ongoing_send
        /\ a(r).ongoing_recv = b.ongoing_recv \ {r}
    BY <1>3 DEF cancel_recv_by_local_recv_id, Emit, Notify, Behaviour
  <1>5. m(r).type # "FileChunk"
    BY DEF Message
  <1> HIDE DEF a, b, m
  <1>6. Quietly(b.pending_handler_event, a(r).pending_handler_event)
    BY <1>4, <1>5, Zenon DEF Quietly
  <1>7. /\ a(r).ongoing_send \subseteq b.ongoing_send
        /\ a(r).ongoing_recv \subseteq b.ongoing_recv
    BY <1>4
  <1> QED BY <1>1, <1>2, <1>6, <1>7, UserOrder DEF b

\* CancelSend: a record goes and CancelSend is queued.
LEMMA CancelSendOrder ==
  ASSUME Ripe, NEW p \in Peers, NEW id \in Nat, CancelSend(p, id)
  PROVE  OrderInv'
  <1> DEFINE b == node[p]
             a(s) == cancel_send_by_local_send_id(b, s)
             m(s) == Message("CancelSend", s.local_send_id, <<>>)
  <1>1. PICK s \in send_record(b, id) : Set(p, a(s))
    BY DEF CancelSend
  <1>2. UNCHANGED <<connVars, restarts>>
    BY DEF CancelSend, lifeVars
  <1>3. b \in Behaviour
    BY InvTypes DEF Ripe
  <1>4. /\ a(s).pending_handler_event =
             Append(b.pending_handler_event, [to |-> s.remote, msg |-> m(s)])
        /\ a(s).ongoing_send = b.ongoing_send \ {s}
        /\ a(s).ongoing_recv = b.ongoing_recv
    BY <1>3 DEF cancel_send_by_local_send_id, Notify, Behaviour
  <1>5. m(s).type # "FileChunk"
    BY DEF Message
  <1> HIDE DEF a, b, m
  <1>6. Quietly(b.pending_handler_event, a(s).pending_handler_event)
    BY <1>4, <1>5, Zenon DEF Quietly
  <1>7. /\ a(s).ongoing_send \subseteq b.ongoing_send
        /\ a(s).ongoing_recv \subseteq b.ongoing_recv
    BY <1>4
  <1> QED BY <1>1, <1>2, <1>6, <1>7, UserOrder DEF b

\* p takes an event and runs a meek method.
LEMMA EventOrder ==
  ASSUME Ripe, NEW p \in Peers, NEW q \in Peers, NEW c \in Conns, NEW t,
         HasEvent(p, q, c, t), TakeEvent(p, q, c), UNCHANGED restarts,
         \A x \in Peers : Meek(node[x], node'[x]),
         t = "RecvProgressed" => \A o \in node'[p].ongoing_recv :
           o.remote_send_id # NextEvent(p, q, c).id
  PROVE  OrderInv'
  <1> DEFINE l == <<p, q, c>>
             e == Head(link[l].ev)
  <1>1. /\ l \in Links /\ l[1] = p /\ Draws(link, link', l)
        /\ NextEvent(p, q, c) = e /\ e.type = t
    BY TakeEventDraws DEF Ripe
  <1>2. link \in [Links -> Handler] /\ UNCHANGED wire
    BY InvTypes DEF Ripe, TakeEvent
  <1> HIDE DEF l, e
  <1>3. AllStill(node, link, wire, node, link', wire')
    BY <1>1, <1>2, StillDraw
  <1>4. ASSUME NEW x \in Peers, NEW o \in node'[x].ongoing_recv, NEW d \in Conns
        PROVE  Even(link, link', <<x, o.remote, d>>, o.remote_send_id)
    <2> DEFINE g == <<x, o.remote, d>>
    <2>1. o.remote \in Peers
      <3>1. node'[x] \in Behaviour
        BY DEF Ripe, Inv, NodeInv
      <3> QED BY <3>1 DEF Behaviour, OngoingRecv
    <2>2. g \in Links /\ g[1] = x
      BY <2>1 DEF Links
    <2> HIDE DEF g
    <2>3. ~(g = l /\ \E b : IsGot(e, o.remote_send_id, b))
      BY <1>1, <2>2 DEF IsGot
    <2>4. Even(link, link', g, o.remote_send_id)
      BY <1>1, <1>2, <2>2, <2>3, EvenDraw DEF e
    <2> QED BY <2>4 DEF g
  <1> QED BY <1>3, <1>4, MeekStep

\* The same, from what the method assigns.
LEMMA LullEvent ==
  ASSUME Ripe, NEW p \in Peers, NEW q \in Peers, NEW c \in Conns, NEW t,
         HasEvent(p, q, c, t), TakeEvent(p, q, c), UNCHANGED restarts,
         NEW a, Set(p, a),
         a.pending_handler_event = node[p].pending_handler_event,
         a.ongoing_send \subseteq node[p].ongoing_send,
         a.ongoing_recv \subseteq node[p].ongoing_recv,
         t = "RecvProgressed" => \A o \in a.ongoing_recv :
           o.remote_send_id # NextEvent(p, q, c).id
  PROVE  OrderInv'
  <1>1. Meek(node[p], a)
    BY DEF Meek
  <1>2. \A x \in Peers : Meek(node[x], node'[x])
    BY <1>1, SetMeek DEF Ripe
  <1>3. node'[p] = a
    BY SetAt DEF Ripe
  <1> QED BY <1>2, <1>3, EventOrder

\* An event that changes nothing.
LEMMA IgnoredEvent ==
  ASSUME Ripe, NEW p \in Peers, NEW q \in Peers, NEW c \in Conns, NEW t,
         HasEvent(p, q, c, t), TakeEvent(p, q, c), UNCHANGED <<node, restarts>>,
         t = "RecvProgressed" => \A o \in node[p].ongoing_recv :
           o.remote_send_id # NextEvent(p, q, c).id
  PROVE  OrderInv'
  <1>1. \A x \in Peers : Meek(node[x], node'[x])
    BY MeekSame
  <1> QED BY <1>1, EventOrder

\* OnIncomingFile
LEMMA OnIncomingFileOrder ==
  ASSUME Ripe, NEW p \in Peers, NEW q \in Peers, NEW c \in Conns,
         OnIncomingFile(p, q, c)
  PROVE  OrderInv'
  <1> DEFINE e == NextEvent(p, q, c)
             a == on_new_pending_recv(node[p], q, e.id, e.body[1][1],
                                      e.body[1][2])
  <1>1. /\ HasEvent(p, q, c, "IncomingFile") /\ Set(p, a)
        /\ TakeEvent(p, q, c) /\ UNCHANGED restarts
    BY Zenon DEF OnIncomingFile, lifeVars
  <1>2. /\ a.pending_handler_event = node[p].pending_handler_event
        /\ a.ongoing_send = node[p].ongoing_send
        /\ a.ongoing_recv = node[p].ongoing_recv
    BY InvTypes DEF Ripe, on_new_pending_recv, Emit, Behaviour
  <1> HIDE DEF a
  <1> QED BY <1>1, <1>2, LullEvent

\* OnRemoteCancelSend
LEMMA OnRemoteCancelSendOrder ==
  ASSUME Ripe, NEW p \in Peers, NEW q \in Peers, NEW c \in Conns,
         OnRemoteCancelSend(p, q, c)
  PROVE  OrderInv'
  <1> DEFINE id == NextEvent(p, q, c).id
             b  == Emit(node[p], "CancelledSend", id, 0)
             r  == send_record(b, id)
             d  == [b EXCEPT !.pending_send = @ \ r, !.ongoing_send = @ \ r]
  <1>1. /\ HasEvent(p, q, c, "RemoteCancelSend") /\ Set(p, d)
        /\ TakeEvent(p, q, c) /\ UNCHANGED restarts
    BY Zenon DEF OnRemoteCancelSend, lifeVars
  <1> HIDE DEF id, r
  <1>2. /\ d.pending_handler_event = node[p].pending_handler_event
        /\ d.ongoing_send = node[p].ongoing_send \ r
        /\ d.ongoing_recv = node[p].ongoing_recv
    BY InvTypes DEF Ripe, Emit, Behaviour
  <1> HIDE DEF d
  <1> QED BY <1>1, <1>2, LullEvent

\* OnRemoteCancelRecv
LEMMA OnRemoteCancelRecvOrder ==
  ASSUME Ripe, NEW p \in Peers, NEW q \in Peers, NEW c \in Conns,
         OnRemoteCancelRecv(p, q, c)
  PROVE  OrderInv'
  <1> DEFINE b == node[p]
             drop(r) == Emit([b EXCEPT !.pending_recv = @ \ {r}],
                             "CancelledRecv", r.remote_send_id, 0)
  <1>1. /\ HasEvent(p, q, c, "RemoteCancelRecv")
        /\ TakeEvent(p, q, c) /\ UNCHANGED restarts
    BY DEF OnRemoteCancelRecv, lifeVars
  <1>2. \/ \E o \in b.ongoing_recv : Set(p, end_recv(b, o, "CancelledRecv", 0))
        \/ \E r \in b.pending_recv : Set(p, drop(r))
        \/ UNCHANGED node
    BY Zenon DEF OnRemoteCancelRecv
  <1>3. CASE UNCHANGED node
    BY <1>1, <1>3, IgnoredEvent
  <1>4. ASSUME NEW r, NEW a,
               a = end_recv(b, r, "CancelledRecv", 0) \/ a = drop(r), Set(p, a)
        PROVE  OrderInv'
    <2>1. /\ a.pending_handler_event = b.pending_handler_event
          /\ a.ongoing_send = b.ongoing_send
          /\ a.ongoing_recv = b.ongoing_recv \/ a.ongoing_recv = b.ongoing_recv \ {r}
      BY <1>4, InvTypes DEF Ripe, end_recv, Emit, Behaviour
    <2>2. /\ a.ongoing_send \subseteq b.ongoing_send
          /\ a.ongoing_recv \subseteq b.ongoing_recv
      BY <2>1
    <2> QED BY <1>1, <1>4, <2>1, <2>2, LullEvent
  <1> HIDE DEF drop
  <1> QED BY <1>2, <1>3, <1>4, Zenon

\* OnOutboundNegotiated and OnReport
LEMMA OnReportOrder ==
  ASSUME Ripe, NEW p \in Peers, NEW q \in Peers, NEW c \in Conns,
         \/ OnOutboundNegotiated(p, q, c)
         \/ \E t \in {"Error", "InboundNegotiated"} : OnReport(p, q, c, t)
  PROVE  OrderInv'
  <1> DEFINE b == node[p]
             n == Emit([b EXCEPT !.connected_peers = @ \cup {q}],
                       "OutboundNegotiated", 0, 0)
  <1>1. \E t : /\ t # "RecvProgressed" /\ HasEvent(p, q, c, t)
               /\ Set(p, n) \/ Set(p, Emit(b, t, 0, 0))
    <2>1. "OutboundNegotiated" # "RecvProgressed" /\ "Error" # "RecvProgressed"
          /\ "InboundNegotiated" # "RecvProgressed"
      OBVIOUS
    <2> QED BY <2>1, Zenon DEF OnOutboundNegotiated, OnReport
  <1>2. TakeEvent(p, q, c) /\ UNCHANGED restarts
    BY DEF OnOutboundNegotiated, OnReport, lifeVars
  <1>3. ASSUME NEW t, t # "RecvProgressed", HasEvent(p, q, c, t),
               NEW a, a = n \/ a = Emit(b, t, 0, 0), Set(p, a)
        PROVE  OrderInv'
    <2>1. /\ a.pending_handler_event = b.pending_handler_event
          /\ a.ongoing_send = b.ongoing_send
          /\ a.ongoing_recv = b.ongoing_recv
      BY <1>3, InvTypes DEF Ripe, Emit, Behaviour
    <2> QED BY <1>2, <1>3, <2>1, LullEvent
  <1> HIDE DEF n
  <1> QED BY <1>1, <1>3, Zenon

\* Two peers have one connection at a time.
OneConnection == \A c, d \in Conns : c = d

\* A chunk is reported under an id that is a key of ongoing_recv only if it
\* comes from the remote of that record.
KeysApart ==
  \A p, q \in Peers, c \in Conns : \A i \in DOMAIN link[<<p, q, c>>].ev :
    \A o \in node[p].ongoing_recv :
      /\ link[<<p, q, c>>].ev[i].type = "RecvProgressed"
      /\ link[<<p, q, c>>].ev[i].id = o.remote_send_id
      => o.remote = q

\* The records of a recv.
LEMMA RecvType ==
  ASSUME NEW N \in [Peers -> Behaviour], NEW x \in Peers,
         NEW y \in N[x].ongoing_recv
  PROVE  y \in OngoingRecv /\ y.remote \in Peers /\ y.remote_send_id \in Nat
  BY DEF Behaviour, OngoingRecv

\* The chunk is written.
LEMMA WriteOrder ==
  ASSUME Ripe, OneConnection, KeysApart, NEW p \in Peers, NEW q \in Peers,
         NEW c \in Conns, HasEvent(p, q, c, "RecvProgressed"),
         TakeEvent(p, q, c), UNCHANGED restarts, NEW o \in node[p].ongoing_recv,
         o.remote_send_id = NextEvent(p, q, c).id, NextEvent(p, q, c).body # <<>>,
         Set(p, write_chunk(node[p], o, NextEvent(p, q, c).body))
  PROVE  OrderInv'
  <1> SUFFICES ASSUME restarts' = 0
               PROVE  Order(node', link', wire', panic')
    BY DEF OrderInv
  <1> DEFINE l == <<p, q, c>>
             e == Head(link[l].ev)
             id == o.remote_send_id
             w == [o EXCEPT !.data = @ \o e.body]
  <1>1. /\ l \in Links /\ l[1] = p /\ Draws(link, link', l)
        /\ NextEvent(p, q, c) = e /\ e.type = "RecvProgressed"
    BY TakeEventDraws DEF Ripe
  <1>2. UNCHANGED wire
    BY DEF TakeEvent
  <1>3. /\ Order(node, link, wire, panic)
        /\ Heir(node, link, wire, panic, node', link', wire', panic')
        /\ \A a, b \in Peers : Waiting(node, panic, a, b)
        /\ \A a \in Peers : Sole(node', link', a)
        /\ node \in [Peers -> Behaviour] /\ node' \in [Peers -> Behaviour]
        /\ link \in [Links -> Handler]
    BY RipeOrder
  <1>4. o \in OngoingRecv /\ id \in Nat /\ e.id = id /\ e.body # <<>>
    BY <1>1, <1>3, RecvType
  <1>5. o.remote = q
    <2>1. 1 \in DOMAIN link[l].ev /\ link[l].ev[1] = e
      <3>1. link[l].ev \in Seq(Event) /\ link[l].ev # <<>>
        BY <1>1, <1>3 DEF Handler, Draws
      <3> QED BY <3>1
    <2> QED BY <1>1, <1>4, <2>1 DEF KeysApart
  <1>6. /\ node'[p].pending_handler_event = node[p].pending_handler_event
        /\ node'[p].ongoing_send = node[p].ongoing_send
        /\ node'[p].pending_send = node[p].pending_send
        /\ node'[p].ongoing_recv = (node[p].ongoing_recv \ {o}) \cup {w}
        /\ \A x \in Peers : x # p => node'[x] = node[x]
    <2>1. /\ node'[p] = write_chunk(node[p], o, e.body)
          /\ \A x \in Peers : x # p => node'[x] = node[x]
      BY <1>1, SetAt DEF Ripe
    <2> HIDE DEF e
    <2> QED BY <1>3, <2>1 DEF write_chunk, Behaviour
  <1>7. /\ w.remote = q /\ w.remote_send_id = id /\ w.file = o.file
    BY <1>4, <1>5 DEF OngoingRecv
  <1> HIDE DEF l, e, w
  <1>8. \A x \in Peers : /\ node'[x].pending_handler_event = node[x].pending_handler_event
                         /\ node'[x].ongoing_send = node[x].ongoing_send
    BY <1>6
  <1>9. AllStill(node, link, wire, node', link', wire')
    <2>1. ASSUME NEW x \in Peers, NEW j
          PROVE  Still(node, link, wire, node', link', wire', x, j)
      <3>1. Dim(node, node', x, j)
        BY <1>8 DEF Dim, Queued
      <3>2. Still(node, link, wire, node, link', wire', x, j)
        BY <1>1, <1>2, <1>3, StillDraw DEF AllStill
      <3> QED BY <3>1, <3>2, StillDim
    <2> QED BY <2>1 DEF AllStill
  <1>10. Tied(node', link', wire')
    BY <1>3, <1>9, TiedAll DEF Order
  <1>11. Spent(node', link', wire', panic')
    BY <1>3, <1>9, SpentAll, StillUnder DEF Order
  <1>12. Match(node')
    <2>1. ASSUME NEW x \in Peers, NEW y \in node'[x].ongoing_recv
          PROVE  \E r \in Recvs(node[x]) :
                   /\ r.remote = y.remote /\ r.remote_send_id = y.remote_send_id
                   /\ r.file = y.file
      <3>1. CASE y \in node[x].ongoing_recv
        BY <3>1 DEF Recvs
      <3>2. CASE x = p /\ y = w
        BY <1>5, <1>7, <3>2 DEF Recvs
      <3> QED BY <1>6, <3>1, <3>2
    <2> QED BY <1>3, <2>1, MatchStep DEF Order
  <1>13. ASSUME NEW x \in Peers, NEW y \in node[x].ongoing_recv,
                x = p => y.remote_send_id # id
         PROVE  Row(node', link', wire', x, y)
    <2>1. y.remote \in Peers
      BY <1>3, RecvType
    <2>2. ASSUME NEW d \in Conns
          PROVE  Even(link, link', <<x, y.remote, d>>, y.remote_send_id)
      <3> DEFINE g == <<x, y.remote, d>>
      <3>1. g \in Links /\ g[1] = x
        BY <2>1 DEF Links
      <3> HIDE DEF g
      <3>2. ~(g = l /\ \E b : IsGot(e, y.remote_send_id, b))
        BY <1>1, <1>4, <1>13, <3>1 DEF IsGot
      <3>3. Even(link, link', g, y.remote_send_id)
        BY <1>1, <1>3, <3>1, <3>2, EvenDraw DEF e
      <3> QED BY <3>3 DEF g
    <2>3. Row(node, link, wire, x, y)
      BY <1>3 DEF Order, Rows
    <2>4. Still(node, link, wire, node', link', wire', y.remote, y.remote_send_id)
      BY <1>9, <2>1 DEF AllStill
    <2>5. node'[y.remote].ongoing_send = node[y.remote].ongoing_send
      BY <1>8, <2>1
    <2> QED BY <1>3, <2>2, <2>3, <2>4, <2>5, RowAll
  <1>14. Row(node', link', wire', p, w)
    <2>1. IsGot(e, id, e.body)
      BY <1>1, <1>4 DEF IsGot
    <2>2. /\ \A i, b : Got(link', l, i, id, b) <=>
               (i \in Nat /\ i >= 1 /\ Got(link, l, i + 1, id, b))
          /\ Got(link, l, 1, id, e.body)
      <3>1. /\ \A i, b : Got(link', l, i, id, b) <=>
                 (i \in Nat /\ i >= 1 /\ Got(link, l, i + 1, id, b))
            /\ \A b : Got(link, l, 1, id, b) <=> IsGot(e, id, b)
        BY <1>1, <1>3, DrawGot DEF e
      <3> QED BY <2>1, <3>1
    <2>3. \A s \in node[q].pending_send : s.local_send_id # id
      <3>1. Seen(link, q, p, id, e.body)
        BY <2>2 DEF Seen, l
      <3>2. Under(node, link, wire, q, p, id, e.body)
        BY <3>1 DEF Under
      <3> QED BY <1>3, <1>4, <3>2 DEF Order, Spent
    <2>4. \A s \in node'[q].pending_send : s.local_send_id # id
      BY <1>6, <2>3
    <2>5. node'[q].ongoing_send = node[q].ongoing_send
      BY <1>8
    <2>6. Row(node, link, wire, p, o)
      BY <1>3 DEF Order, Rows
    <2>7. Still(node, link, wire, node', link', wire, q, id)
      BY <1>2, <1>9 DEF AllStill
    <2>8. \A c1, c2 \in Conns : c1 = c2
      BY DEF OneConnection
    <2> DEFINE k == <<p, o.remote, c>>
    <2>9. k = l
      BY <1>5 DEF l
    <2>10. /\ \A i, b : Got(link', k, i, id, b) <=>
               (i \in Nat /\ i >= 1 /\ Got(link, k, i + 1, id, b))
           /\ Got(link, k, 1, id, e.body)
      BY <2>2, <2>9
    <2>11. Row(node', link', wire, p, [o EXCEPT !.data = @ \o e.body])
      BY <1>3, <1>4, <1>5, <2>4, <2>5, <2>6, <2>7, <2>8, <2>10, RowWritten
    <2> QED BY <1>2, <2>11 DEF w
  <1>15. Rows(node', link', wire')
    <2> SUFFICES ASSUME NEW x \in Peers, NEW y \in node'[x].ongoing_recv
                 PROVE  Row(node', link', wire', x, y)
      BY DEF Rows
    <2>1. \A y1, y2 \in node[p].ongoing_recv :
            y1.remote_send_id = y2.remote_send_id => y1 = y2
      BY InvTypes DEF Ripe, Ids
    <2>2. CASE x = p /\ y = w
      BY <1>14, <2>2
    <2>3. CASE x = p /\ y \in node[p].ongoing_recv /\ y # o
      BY <1>13, <2>1, <2>3
    <2>4. CASE x # p
      BY <1>6, <1>13, <2>4
    <2> QED BY <1>6, <2>2, <2>3, <2>4
  <1> QED BY <1>10, <1>11, <1>12, <1>15 DEF Order

\* OnRecvProgressed
LEMMA OnRecvProgressedOrder ==
  ASSUME Ripe, OneConnection, KeysApart, NEW p \in Peers, NEW q \in Peers,
         NEW c \in Conns, OnRecvProgressed(p, q, c)
  PROVE  OrderInv'
  <1> DEFINE b == node[p]
             e == NextEvent(p, q, c)
  <1>1. /\ HasEvent(p, q, c, "RecvProgressed")
        /\ TakeEvent(p, q, c) /\ UNCHANGED restarts
    BY DEF OnRecvProgressed, lifeVars
  <1>2. \/ /\ {o \in b.ongoing_recv : o.remote_send_id = e.id} = {}
           /\ UNCHANGED node
        \/ \E o \in {o \in b.ongoing_recv : o.remote_send_id = e.id} :
             \/ Set(p, end_recv(b, o, "UnexpectedEOF", 0))
             \/ Set(p, end_recv(b, o, "RecvProgressed", o.bytes_total))
             \/ e.body # <<>> /\ Set(p, write_chunk(b, o, e.body))
             \/ Set(p, end_recv(b, o, "OngoingRecvError", 0))
    BY Zenon DEF OnRecvProgressed
  <1>3. \A y1, y2 \in b.ongoing_recv :
          y1.remote_send_id = y2.remote_send_id => y1 = y2
    BY InvTypes DEF Ripe, Ids
  <1>4. CASE /\ {o \in b.ongoing_recv : o.remote_send_id = e.id} = {}
             /\ UNCHANGED node
    <2>1. \A o \in b.ongoing_recv : o.remote_send_id # e.id
      BY <1>4
    <2> QED BY <1>1, <1>4, <2>1, IgnoredEvent
  <1>5. ASSUME NEW o \in b.ongoing_recv, o.remote_send_id = e.id, NEW t, NEW n,
               Set(p, end_recv(b, o, t, n))
        PROVE  OrderInv'
    <2> DEFINE a == end_recv(b, o, t, n)
    <2>1. /\ a.pending_handler_event = b.pending_handler_event
          /\ a.ongoing_send = b.ongoing_send
          /\ a.ongoing_recv = b.ongoing_recv \ {o}
      BY InvTypes DEF Ripe, end_recv, Emit, Behaviour
    <2> HIDE DEF a, e, b
    <2>2. \A y \in a.ongoing_recv : y.remote_send_id # e.id
      BY <1>3, <1>5, <2>1
    <2>3. /\ a.ongoing_send \subseteq b.ongoing_send
          /\ a.ongoing_recv \subseteq b.ongoing_recv
      BY <2>1
    <2> QED BY <1>1, <1>5, <2>1, <2>2, <2>3, LullEvent DEF a, e, b
  <1>6. ASSUME NEW o \in b.ongoing_recv, o.remote_send_id = e.id,
               e.body # <<>>, Set(p, write_chunk(b, o, e.body))
        PROVE  OrderInv'
    BY <1>1, <1>6, WriteOrder
  <1> HIDE DEF b, e
  <1> QED BY <1>2, <1>4, <1>5, <1>6, Zenon

\* AcceptFile
LEMMA AcceptFileOrder ==
  ASSUME Ripe, NEW p \in Peers, AcceptFile(p)
  PROVE  OrderInv'
  <1> SUFFICES ASSUME restarts' = 0
               PROVE  Order(node', link', wire', panic')
    BY DEF OrderInv
  <1> DEFINE a(r) == accept_pending_recv(node[p], r)
             m(r) == Message("AcceptFile", r.remote_send_id, <<>>)
             n(r) == [local_recv_id |-> r.local_recv_id,
                      remote_send_id |-> r.remote_send_id, remote |-> r.remote,
                      file |-> r.file, bytes_total |-> r.bytes_total,
                      data |-> <<>>]
  <1>1. PICK r \in node[p].pending_recv : Set(p, a(r))
    BY DEF AcceptFile
  <1>2. UNCHANGED <<link, wire, panic, restarts>>
    BY DEF AcceptFile, connVars, lifeVars
  <1>3. /\ Order(node, link, wire, panic)
        /\ Heir(node, link, wire, panic, node', link', wire', panic')
        /\ \A x, y \in Peers : Waiting(node, panic, x, y)
        /\ \A x \in Peers : Sole(node', link', x)
        /\ node \in [Peers -> Behaviour] /\ node' \in [Peers -> Behaviour]
        /\ link \in [Links -> Handler]
    BY <1>2, RipeOrder
  <1>4. node'[p] = a(r) /\ \A x \in Peers : x # p => node'[x] = node[x]
    BY <1>1, SetAt DEF Ripe
  <1>5. node[p] \in Behaviour
    BY <1>3
  <1>6. /\ a(r).pending_handler_event =
             Append(node[p].pending_handler_event, [to |-> r.remote, msg |-> m(r)])
        /\ a(r).ongoing_send = node[p].ongoing_send
        /\ a(r).pending_send = node[p].pending_send
        /\ a(r).send_counter = node[p].send_counter
        /\ \A o \in a(r).ongoing_recv : o \in node[p].ongoing_recv \/ o = n(r)
    BY <1>5 DEF accept_pending_recv, Notify, Behaviour
  <1>7. m(r).type # "FileChunk"
    BY DEF Message
  <1>8. r \in PendingRecv
    BY <1>5 DEF Behaviour
  <1>9. /\ n(r) \in OngoingRecv /\ n(r).data = <<>> /\ n(r).remote = r.remote
        /\ n(r).remote_send_id = r.remote_send_id /\ n(r).file = r.file
        /\ r.remote \in Peers /\ r.remote_send_id \in Nat
    BY <1>8 DEF PendingRecv, OngoingRecv
  <1> HIDE DEF a, m, n
  <1>10. Quietly(node[p].pending_handler_event, a(r).pending_handler_event)
    BY <1>6, <1>7, Zenon DEF Quietly
  <1>11. AllStill(node, link, wire, node', link', wire')
    <2>1. ASSUME NEW x \in Peers, NEW j
          PROVE  Still(node, link, wire, node', link', wire', x, j)
      <3>1. Dim(node, node', x, j)
        <4>1. CASE x = p
          <5>1. a(r) \in Behaviour /\ node[p].send_counter <= a(r).send_counter
            <6>1. a(r) \in Behaviour
              BY <1>3, <1>4
            <6>2. node[p].send_counter \in Nat
              BY <1>5 DEF Behaviour
            <6> QED BY <1>6, <6>1, <6>2
          <5>2. Mute(node[p], a(r))
            BY <1>5, <1>6, <1>10, <5>1, QuietlyMute
          <5> QED BY <1>4, <4>1, <5>2 DEF Mute, Fainter, Dim, Queued, IsPart
        <4>2. CASE x # p
          BY <1>4, <4>2 DEF Dim, Queued
        <4> QED BY <4>1, <4>2
      <3>2. Still(node, link, wire, node, link', wire', x, j)
        BY <1>2, StillSame DEF AllStill
      <3> QED BY <3>1, <3>2, StillDim
    <2> QED BY <2>1 DEF AllStill
  <1>12. \A x \in Peers : node'[x].ongoing_send = node[x].ongoing_send
    BY <1>4, <1>6
  <1>13. Tied(node', link', wire')
    BY <1>3, <1>11, TiedAll DEF Order
  <1>14. Spent(node', link', wire', panic')
    BY <1>3, <1>11, SpentAll, StillUnder DEF Order
  <1>15. Match(node')
    <2>1. ASSUME NEW x \in Peers, NEW y \in node'[x].ongoing_recv
          PROVE  \E t \in Recvs(node[x]) :
                   /\ t.remote = y.remote /\ t.remote_send_id = y.remote_send_id
                   /\ t.file = y.file
      <3>1. CASE y \in node[x].ongoing_recv
        BY <3>1 DEF Recvs
      <3>2. CASE x = p /\ y = n(r)
        BY <1>9, <3>2 DEF Recvs
      <3> QED BY <1>4, <1>6, <3>1, <3>2
    <2> QED BY <1>3, <2>1, MatchStep DEF Order
  <1>16. ASSUME NEW x \in Peers, NEW y \in node[x].ongoing_recv
         PROVE  Row(node', link', wire', x, y)
    <2>1. y.remote \in Peers
      BY <1>3, RecvType
    <2>2. \A c \in Conns : Even(link, link', <<x, y.remote, c>>, y.remote_send_id)
      BY <1>2, StillSame
    <2>3. Row(node, link, wire, x, y)
      BY <1>3 DEF Order, Rows
    <2>4. Still(node, link, wire, node', link', wire', y.remote, y.remote_send_id)
      BY <1>11, <2>1 DEF AllStill
    <2>5. node'[y.remote].ongoing_send = node[y.remote].ongoing_send
      BY <1>12, <2>1
    <2> QED BY <1>3, <2>2, <2>3, <2>4, <2>5, RowAll
  <1>17. Row(node', link', wire', p, n(r))
    <2>1. \A b : ~Under(node', link', wire', r.remote, p, r.remote_send_id, b)
      <3> SUFFICES ASSUME NEW b, Under(node', link', wire', r.remote, p,
                                       r.remote_send_id, b)
                   PROVE  FALSE
        OBVIOUS
      <3>1. Under(node, link, wire, r.remote, p, r.remote_send_id, b)
        BY <1>9, <1>11, StillUnder
      <3>2. Clear(node, link, wire, panic, r.remote, p, r.remote_send_id)
        BY <1>3, <1>9, <3>1 DEF Order, Spent
      <3> QED BY <3>2 DEF Clear, About
    <2>2. \A s \in node'[r.remote].ongoing_send :
            s.local_send_id # r.remote_send_id
      <3>1. Waiting(node, panic, r.remote, p)
        BY <1>3, <1>9
      <3> QED BY <1>9, <1>12, <3>1 DEF Waiting
    <2> QED BY <1>9, <2>1, <2>2, RowNew
  <1>18. Rows(node', link', wire')
    BY <1>4, <1>6, <1>16, <1>17 DEF Rows
  <1> QED BY <1>13, <1>14, <1>15, <1>18 DEF Order

-----------------------------------------------------------------------------
(* progress_ongoing_send *)

\* The next chunk of send s of p may be queued.
Due(p, s) ==
  /\ \A l \in Links : l[1] = p => \A b : ~Float(wire, l, s.local_send_id, b)
  /\ Clear(node, link, wire, panic, p, s.remote, s.local_send_id)
  /\ \A y \in Peers : \A o \in node[y].ongoing_recv :
       About(o, p, s.local_send_id) =>
         /\ y = s.remote /\ o.file = s.file
         /\ Len(o.data) <= s.bytes_sent /\ s.bytes_sent <= FileData[o.file]
         /\ \A b : Under(node, link, wire, p, y, s.local_send_id, b)
              => No(o.file, b) <= s.bytes_sent
         /\ \/ s.bytes_sent = Len(o.data)
            \/ \E b : /\ Seen(link, p, y, s.local_send_id, b)
                      /\ No(o.file, b) = s.bytes_sent

\* The last one is acknowledged.
LEMMA DueAcked ==
  ASSUME Ripe, restarts = 0, NEW p \in Peers, NEW l \in Links, l[1] = p,
         NEW s \in node[p].ongoing_send, Rung(link, l, s.local_send_id)
  PROVE  Due(p, s)
  <1> DEFINE id == s.local_send_id
  <1>1. /\ Order(node, link, wire, panic)
        /\ Flow(node, link, wire, panic, accepted)
        /\ node \in [Peers -> Behaviour]
    BY InvTypes DEF Ripe, OrderInv, FlowInv
  <1>2. s \in OngoingSend /\ id \in Nat /\ s.remote \in Peers
    BY <1>1 DEF Behaviour, OngoingSend
  <1>3. ASSUME NEW g \in Links, g[1] = p, NEW b, Float(wire, g, id, b)
        PROVE  FALSE
    <2>1. ~Rung(link, l, id)
      BY <1>1, <1>3 DEF Order, Tied
    <2> QED BY <2>1
  <1>4. Clear(node, link, wire, panic, p, s.remote, id)
    <2>1. Waiting(node, panic, p, s.remote) /\ Announced(node, link, wire, panic, p, s.remote)
      BY <1>1, <1>2 DEF Flow
    <2>2. id < node[p].send_counter
      BY InvTypes DEF Ripe, Ids, Sends
    <2>3. \A r \in node[s.remote].pending_recv : ~About(r, p, id)
      BY <2>1 DEF Waiting, About
    <2>4. \A m \in Letter : m.type = "IncomingFile" /\ m.id = id
            => ~Aloft(node, link, wire, m, p, s.remote)
      BY <2>1, Zenon DEF Announced
    <2> QED BY <2>2, <2>3, <2>4 DEF Clear
  <1>5. ASSUME NEW y \in Peers, NEW o \in node[y].ongoing_recv, About(o, p, id)
        PROVE  /\ y = s.remote /\ o.file = s.file
               /\ Len(o.data) <= s.bytes_sent /\ s.bytes_sent <= FileData[o.file]
               /\ \A b : Under(node, link, wire, p, y, id, b)
                    => No(o.file, b) <= s.bytes_sent
               /\ \/ s.bytes_sent = Len(o.data)
                  \/ \E b : /\ Seen(link, p, y, id, b)
                            /\ No(o.file, b) = s.bytes_sent
    <2>1. y = s.remote /\ o.file = s.file
      BY <1>1, <1>5 DEF Order, Match, Sends
    <2>2. o.remote = p /\ o.remote_send_id = id
      BY <1>5 DEF About
    <2>3. Source(node, link, wire, y, o, s)
      BY <1>1, <2>2 DEF Order, Rows, Row, Sourced
    <2>4. Ready(link, wire, p, id)
      BY DEF Ready
    <2> QED BY <2>1, <2>2, <2>3, <2>4 DEF Source
  <1> QED BY <1>3, <1>4, <1>5 DEF Due

\* The request is answered.
LEMMA DueAccepted ==
  ASSUME Ripe, restarts = 0, NEW p \in Peers, NEW q \in Peers,
         NEW m \in Letter, m.type = "AcceptFile", Aloft(node, link, wire, m, q, p),
         NEW t \in node[p].pending_send, t.local_send_id = m.id, NEW s,
         s.local_send_id = m.id, s.remote = t.remote, s.file = t.file,
         s.bytes_sent = 0
  PROVE  Due(p, s)
  <1> DEFINE id == s.local_send_id
  <1>1. /\ Order(node, link, wire, panic)
        /\ Flow(node, link, wire, panic, accepted)
        /\ node \in [Peers -> Behaviour]
    BY InvTypes DEF Ripe, OrderInv, FlowInv
  <1>2. t \in PendingSend /\ id \in Nat /\ s.remote \in Peers
    BY <1>1 DEF Behaviour, PendingSend
  <1>3. \A x \in Peers : \A b : ~Under(node, link, wire, p, x, id, b)
    BY <1>1, <1>2 DEF Order, Spent
  <1>4. ASSUME NEW g \in Links, g[1] = p, NEW b, Float(wire, g, id, b)
        PROVE  FALSE
    <2>1. g[2] \in Peers /\ g[3] \in Conns /\ g = <<p, g[2], g[3]>>
      BY <1>4 DEF Links
    <2>2. Under(node, link, wire, p, g[2], id, b)
      BY <1>4, <2>1 DEF Under, Rear
    <2> QED BY <1>3, <2>1, <2>2
  <1>5. /\ Answered(node, link, wire, panic, accepted, p, q)
        /\ Announced(node, link, wire, panic, p, q)
    BY <1>1 DEF Flow
  <1>6. s.remote = q
    BY <1>5, Zenon DEF Answered
  <1>7. Clear(node, link, wire, panic, p, q, id)
    <2>2. id < node[p].send_counter
      BY InvTypes DEF Ripe, Ids, Sends
    <2>3. \A r \in node[q].pending_recv : ~About(r, p, id)
      BY <1>5, Zenon DEF Answered
    <2>4. \A n \in Letter : n.type = "IncomingFile" /\ n.id = id
            => ~Aloft(node, link, wire, n, p, q)
      BY <1>5, Zenon DEF Announced
    <2> QED BY <2>2, <2>3, <2>4 DEF Clear
  <1>8. ASSUME NEW y \in Peers, NEW o \in node[y].ongoing_recv, About(o, p, id)
        PROVE  /\ y = s.remote /\ o.file = s.file
               /\ Len(o.data) = 0 /\ 0 <= FileData[o.file]
    <2>1. y = s.remote /\ o.file = s.file
      BY <1>1, <1>8 DEF Order, Match, Sends
    <2>2. o.remote = p /\ o.remote_send_id = id
      BY <1>8 DEF About
    <2>3. Len(o.data) = 0
      BY <1>1, <2>2 DEF Order, Rows, Row, Sourced
    <2>4. FileData[o.file] \in Nat
      <3>1. o.file \in Files
        BY <1>1, RecvType DEF OngoingRecv
      <3> QED BY <3>1, FilesAssumption
    <2> QED BY <2>1, <2>3, <2>4
  <1> QED BY <1>3, <1>4, <1>6, <1>7, <1>8 DEF Due

\* What progress_ongoing_send assigns: body is queued for send s.
Grows(b, a, s, body) ==
  /\ a.pending_handler_event = Append(b.pending_handler_event,
       [to |-> s.remote, msg |-> Message("FileChunk", s.local_send_id, body)])
  /\ a.ongoing_recv = b.ongoing_recv
  /\ \A x \in a.pending_send : x.local_send_id # s.local_send_id
  /\ Fits(s.file, body)
  /\ s.bytes_sent <= FileData[s.file] => No(s.file, body) = s.bytes_sent + 1
  /\ \A x \in a.ongoing_send :
       \/ x \in b.ongoing_send /\ x.local_send_id # s.local_send_id
       \/ /\ x.local_send_id = s.local_send_id
          /\ x.bytes_sent = s.bytes_sent + 1
          /\ s.bytes_sent + 1 <= FileData[s.file]

\* The queue of p gets that chunk and no other.
LEMMA GrowsQueued ==
  ASSUME NEW N \in [Peers -> Behaviour], NEW N2, NEW p \in Peers, NEW s, NEW body,
         Grows(N[p], N2[p], s, body), \A x \in Peers : x # p => N2[x] = N[x],
         NEW x \in Peers, NEW y, NEW id, NEW b, Queued(N2, x, y, id, b)
  PROVE  \/ Queued(N, x, y, id, b)
         \/ x = p /\ id = s.local_send_id /\ y = s.remote /\ b = body
  <1> DEFINE z == N[p].pending_handler_event
             m == Message("FileChunk", s.local_send_id, body)
             h == [to |-> s.remote, msg |-> m]
  <1>1. z \in Seq(Notification)
    BY DEF Behaviour
  <1>2. \A j \in DOMAIN Append(z, h) :
           \/ j \in DOMAIN z /\ Append(z, h)[j] = z[j]
           \/ Append(z, h)[j] = h
    BY <1>1
  <1>3. /\ h.to = s.remote /\ h.msg = m
        /\ \A i, c : IsPart(m, i, c) => i = s.local_send_id /\ c = body
    BY DEF IsPart, Message
  <1>4. N2[p].pending_handler_event = Append(z, h)
    BY DEF Grows
  <1> HIDE DEF h, m
  <1>5. CASE x = p
    BY <1>2, <1>3, <1>4, <1>5, SMTT(40) DEF Queued
  <1>6. CASE x # p
    BY <1>6 DEF Queued
  <1> QED BY <1>5, <1>6

\* One send more has a chunk.
LEMMA SpentBut ==
  ASSUME NEW N \in [Peers -> Behaviour], NEW L, NEW W, NEW P,
         NEW N2 \in [Peers -> Behaviour], NEW L2, NEW W2, NEW P2,
         Heir(N, L, W, P, N2, L2, W2, P2), Spent(N, L, W, P),
         NEW p0 \in Peers, NEW x0 \in Peers, NEW id0 \in Nat,
         Clear(N, L, W, P, p0, x0, id0),
         \A s \in N2[p0].pending_send : s.local_send_id # id0,
         \A p, x \in Peers : \A id, b : Under(N2, L2, W2, p, x, id, b) =>
           Under(N, L, W, p, x, id, b) \/ (p = p0 /\ x = x0 /\ id = id0)
  PROVE  Spent(N2, L2, W2, P2)
  <1> SUFFICES ASSUME NEW p \in Peers, NEW x \in Peers, NEW id \in Nat, NEW b,
                      Under(N2, L2, W2, p, x, id, b)
               PROVE  /\ Clear(N2, L2, W2, P2, p, x, id)
                      /\ \A s \in N2[p].pending_send : s.local_send_id # id
    BY DEF Spent
  <1>1. ASSUME Under(N, L, W, p, x, id, b)
        PROVE  /\ Clear(N2, L2, W2, P2, p, x, id)
               /\ \A s \in N2[p].pending_send : s.local_send_id # id
    BY <1>1, SpentOne
  <1>2. Clear(N2, L2, W2, P2, p0, x0, id0)
    BY ClearStep
  <1> QED BY <1>1, <1>2

\* An event makes p queue the next chunk of s.
LEMMA FeedOrder ==
  ASSUME Ripe, NEW p \in Peers, NEW q \in Peers, NEW c \in Conns, NEW t,
         t # "RecvProgressed", HasEvent(p, q, c, t), TakeEvent(p, q, c),
         UNCHANGED restarts, NEW s \in OngoingSend, NEW body, NEW d, Set(p, d),
         Grows(node[p], d, s, body), ~On(node, link', p, s.local_send_id),
         restarts = 0 => Due(p, s)
  PROVE  OrderInv'
  <1> SUFFICES ASSUME restarts' = 0
               PROVE  Order(node', link', wire', panic')
    BY DEF OrderInv
  <1> DEFINE l == <<p, q, c>>
             e == Head(link[l].ev)
             id == s.local_send_id
             B == s.bytes_sent
  <1>1. l \in Links /\ Draws(link, link', l) /\ e.type = t
    BY TakeEventDraws DEF Ripe
  <1>2. UNCHANGED wire
    BY DEF TakeEvent
  <1>3. /\ Order(node, link, wire, panic)
        /\ Heir(node, link, wire, panic, node', link', wire', panic')
        /\ \A a, b \in Peers : Waiting(node, panic, a, b)
        /\ \A a \in Peers : Sole(node', link', a)
        /\ node \in [Peers -> Behaviour] /\ node' \in [Peers -> Behaviour]
        /\ link \in [Links -> Handler]
    BY RipeOrder
  <1>4. node'[p] = d /\ \A x \in Peers : x # p => node'[x] = node[x]
    BY SetAt DEF Ripe
  <1>5. Due(p, s)
    OBVIOUS
  <1>6. id \in Nat /\ B \in Nat /\ s.remote \in Peers
    BY DEF OngoingSend
  <1> HIDE DEF l, e
  <1>7. AllStill(node, link, wire, node, link', wire')
    BY <1>1, <1>2, <1>3, StillDraw
  <1>8. \A g \in Links : \A j : Even(link, link', g, j)
    <2>1. \A j, b : ~IsGot(e, j, b)
      BY <1>1 DEF IsGot
    <2> QED BY <1>1, <1>3, <2>1, EvenDraw DEF e
  <1>9. \A x \in Peers : \A y, j, b : Queued(node', x, y, j, b) =>
          \/ Queued(node, x, y, j, b)
          \/ x = p /\ j = id /\ y = s.remote /\ b = body
    <2>1. node \in [Peers -> Behaviour] /\ Grows(node[p], node'[p], s, body)
      BY <1>3, <1>4
    <2> QED BY <1>4, <2>1, GrowsQueued, ZenonT(60)
  <1>10. ASSUME NEW x \in Peers, NEW j, ~(x = p /\ j = id)
         PROVE  Still(node, link, wire, node', link', wire', x, j)
    <2>1. Dim(node, node', x, j)
      BY <1>9, <1>10 DEF Dim
    <2> QED BY <1>7, <2>1, StillDim DEF AllStill
  <1>11. Tied(node', link', wire')
    <2> SUFFICES ASSUME NEW g \in Links, NEW j, NEW b, Float(wire', g, j, b)
                 PROVE  /\ \A x \in Peers : \A b2 : ~Queued(node', g[1], x, j, b2)
                        /\ \A h \in Links : h[1] = g[1] =>
                             /\ ~Rung(link', h, j)
                             /\ \A b2 : /\ ~Boxed(link', h, j, b2)
                                        /\ Loaded(link', h, j, b2) => h = g /\ b2 = b
      BY DEF Tied
    <2>1. g[1] \in Peers
      BY DEF Links
    <2>2. ~(g[1] = p /\ j = id)
      BY <1>2, <1>5 DEF Due
    <2>3. Still(node, link, wire, node', link', wire', g[1], j)
      BY <1>10, <2>1, <2>2
    <2>4. Sole(node', link', g[1]) /\ Tied(node, link, wire)
      BY <1>3, <2>1 DEF Order
    <2> QED BY <2>3, <2>4, TiedStep
  <1>12. Spent(node', link', wire', panic')
    <2>1. ASSUME NEW x \in Peers, NEW y \in Peers, NEW j, NEW b,
                 Under(node', link', wire', x, y, j, b)
          PROVE  \/ Under(node, link, wire, x, y, j, b)
                 \/ x = p /\ y = s.remote /\ j = id
      <3> SUFFICES ASSUME ~Under(node, link, wire, x, y, j, b)
                   PROVE  x = p /\ y = s.remote /\ j = id
        OBVIOUS
      <3>1. ~Under(node, link', wire', x, y, j, b)
        BY <1>7, StillUnder
      <3>2. Queued(node', x, y, j, b) /\ ~Queued(node, x, y, j, b)
        BY <2>1, <3>1 DEF Under, Rear
      <3> QED BY <1>9, <3>2
    <2>2. Clear(node, link, wire, panic, p, s.remote, id)
      BY <1>5 DEF Due
    <2>3. \A r \in node'[p].pending_send : r.local_send_id # id
      BY <1>4 DEF Grows
    <2> QED BY <1>3, <1>6, <2>1, <2>2, <2>3, SpentBut DEF Order
  <1>13. \A x \in Peers : node'[x].ongoing_recv = node[x].ongoing_recv
    BY <1>4 DEF Grows
  <1>14. Match(node')
    <2>1. \A x \in Peers : \A o \in node'[x].ongoing_recv : o \in Recvs(node[x])
      BY <1>13 DEF Recvs
    <2> QED BY <1>3, <2>1, MatchStep DEF Order
  <1>15. ASSUME NEW y \in Peers, NEW o \in node[y].ongoing_recv
         PROVE  Row(node', link', wire', y, o)
    <2>1. o \in OngoingRecv /\ o.remote \in Peers
      BY <1>3, RecvType
    <2>2. Row(node, link, wire, y, o)
      BY <1>3 DEF Order, Rows
    <2>3. \A k \in Conns : Even(link, link', <<y, o.remote, k>>, o.remote_send_id)
      <3>1. \A k \in Conns : <<y, o.remote, k>> \in Links
        BY <2>1 DEF Links
      <3> QED BY <1>8, <3>1
    <2>4. CASE ~About(o, p, id)
      <3>1. Still(node, link, wire, node', link', wire', o.remote, o.remote_send_id)
        BY <1>10, <2>1, <2>4 DEF About
      <3>2. \A x \in node'[o.remote].ongoing_send :
              x.local_send_id = o.remote_send_id => x \in node[o.remote].ongoing_send
        <4>1. CASE o.remote = p
          BY <1>4, <2>4, <4>1 DEF Grows, About
        <4>2. CASE o.remote # p
          BY <1>4, <2>1, <4>2
        <4> QED BY <4>1, <4>2
      <3> QED BY <1>3, <2>2, <2>3, <3>1, <3>2, RowAll
    <2>5. CASE About(o, p, id)
      <3>1. o.remote = p /\ o.remote_send_id = id
        BY <2>5 DEF About
      <3>2. Still(node, link, wire, node, link', wire', p, id)
        BY <1>7 DEF AllStill
      <3>3. Row(node, link', wire', y, o)
        BY <1>3, <2>1, <2>2, <2>3, <3>1, <3>2, RowStep
      <3>4. /\ y = s.remote /\ o.file = s.file
            /\ Len(o.data) <= B /\ B <= FileData[o.file]
            /\ \A b : Under(node, link, wire, p, y, id, b) => No(o.file, b) <= B
            /\ B = Len(o.data) \/ \E b : Seen(link, p, y, id, b) /\ No(o.file, b) = B
        BY <1>5, <2>5 DEF Due
      <3>5. \A b : Under(node, link', wire', p, y, id, b)
              => Under(node, link, wire, p, y, id, b)
        BY <1>7, StillUnder
      <3>6. \A b : Seen(link', p, y, id, b) <=> Seen(link, p, y, id, b)
        BY <1>3, <2>1, <2>3, <3>1, EvenSeen
      <3>7. \A g \in Links : g[1] = p => \A b : ~Float(wire', g, id, b)
        BY <1>2, <1>5 DEF Due
      <3>8. Fits(o.file, body) /\ No(o.file, body) = B + 1
        BY <3>4 DEF Grows
      <3>9. \A x \in Peers : \A b : Queued(node', p, x, id, b) =>
              Queued(node, p, x, id, b) \/ (x = y /\ b = body)
        BY <1>9, <3>4
      <3>10. \A x \in node'[p].ongoing_send : x.local_send_id = id =>
               x.bytes_sent = B + 1 /\ B + 1 <= FileData[o.file]
        BY <1>4, <3>4 DEF Grows
      <3>11. \A x \in node'[p].pending_send : x.local_send_id # id
        BY <1>4 DEF Grows
      <3>12. /\ \A b : Under(node, link', wire', p, y, id, b) => No(o.file, b) <= B
             /\ B = Len(o.data) \/ \E b : Seen(link', p, y, id, b) /\ No(o.file, b) = B
        BY <3>4, <3>5, <3>6
      <3>13. ~On(node, link', p, id)
        OBVIOUS
      <3> HIDE DEF B, id
      <3>14. B \in Nat /\ Len(o.data) <= B /\ B <= FileData[o.file]
        BY <1>6, <3>4
      <3> QED BY <2>1, <3>1, <3>3, <3>7, <3>8, <3>9, <3>10, <3>11, <3>12,
                 <3>13, <3>14, RowFed
    <2> QED BY <2>4, <2>5
  <1>16. Rows(node', link', wire')
    BY <1>13, <1>15 DEF Rows
  <1> QED BY <1>11, <1>12, <1>14, <1>16 DEF Order

\* progress_ongoing_send, by what it assigns.
LEMMA ProgressGrows ==
  ASSUME NEW b, NEW a \in Behaviour, Ids(a), NEW s \in a.ongoing_send,
         a.pending_handler_event = b.pending_handler_event,
         a.ongoing_recv = b.ongoing_recv,
         \A x \in a.ongoing_send : x = s \/ x \in b.ongoing_send
  PROVE  \E body : Grows(b, progress_ongoing_send(a, s), s, body)
  <1> DEFINE d == progress_ongoing_send(a, s)
             id == s.local_send_id
             f == s.file
             B == s.bytes_sent
             n == [s EXCEPT !.bytes_sent = @ + 1]
             c == <<<<f, B + 1>>>>
             M(y) == [to |-> s.remote, msg |-> Message("FileChunk", id, y)]
  <1>1. /\ s \in OngoingSend /\ f \in Files /\ B \in Nat /\ FileData[f] \in Nat
        /\ n.local_send_id = id /\ n.bytes_sent = B + 1
    BY FilesAssumption DEF Behaviour, OngoingSend
  <1>2. /\ d.pending_send = a.pending_send /\ d.ongoing_recv = a.ongoing_recv
        /\ \/ /\ B < FileData[f] /\ d.ongoing_send = (a.ongoing_send \ {s}) \cup {n}
              /\ d.pending_handler_event = Append(a.pending_handler_event, M(c))
           \/ /\ ~(B < FileData[f]) /\ d.ongoing_send = a.ongoing_send \ {s}
              /\ d.pending_handler_event = Append(a.pending_handler_event, M(<<>>))
    BY DEF progress_ongoing_send, Notify, Behaviour
  <1>3. /\ \A x \in a.pending_send : x = s \/ x.local_send_id # id
        /\ \A x \in a.ongoing_send : x = s \/ x.local_send_id # id
    BY DEF Ids, Sends
  <1>4. s \notin a.pending_send
    BY Disjoint DEF Behaviour
  <1>5. /\ B < FileData[f] => Fits(f, c)
        /\ No(f, c) = B + 1 /\ Fits(f, <<>>) /\ No(f, <<>>) = FileData[f] + 1
    <2>1. c # <<>> /\ c[1] = <<f, B + 1>> /\ c[1][2] = B + 1
      OBVIOUS
    <2>2. B < FileData[f] => B + 1 \in 1..FileData[f]
      BY <1>1
    <2> QED BY <2>1, <2>2 DEF Fits, No
  <1> HIDE DEF d, n, M, c
  <1>6. CASE B < FileData[f] /\ d.ongoing_send = (a.ongoing_send \ {s}) \cup {n}
    <2>1. B + 1 <= FileData[f] /\ d.pending_handler_event = Append(b.pending_handler_event, M(c))
      BY <1>1, <1>2, <1>6
    <2>2. \A x \in d.ongoing_send :
            \/ x \in b.ongoing_send /\ x.local_send_id # id
            \/ x.local_send_id = id /\ x.bytes_sent = B + 1
      BY <1>1, <1>3, <1>6
    <2>3. Grows(b, d, s, c)
      BY <1>2, <1>3, <1>4, <1>5, <1>6, <2>1, <2>2 DEF Grows, M
    <2> QED BY <2>3 DEF d
  <1>7. CASE ~(B < FileData[f]) /\ d.ongoing_send = a.ongoing_send \ {s}
    <2>1. /\ B <= FileData[f] => FileData[f] + 1 = B + 1
          /\ d.pending_handler_event = Append(b.pending_handler_event, M(<<>>))
      BY <1>1, <1>2, <1>7
    <2>2. \A x \in d.ongoing_send : x \in b.ongoing_send /\ x.local_send_id # id
      BY <1>3, <1>7
    <2>3. Grows(b, d, s, <<>>)
      BY <1>2, <1>3, <1>4, <1>5, <2>1, <2>2 DEF Grows, M
    <2> QED BY <2>3 DEF d
  <1> QED BY <1>2, <1>6, <1>7

\* OnSendProgressed
LEMMA OnSendProgressedOrder ==
  ASSUME Ripe, NEW p \in Peers, NEW q \in Peers, NEW c \in Conns,
         OnSendProgressed(p, q, c)
  PROVE  OrderInv'
  <1> DEFINE b == node[p]
             l == <<p, q, c>>
             e == NextEvent(p, q, c)
             a(s) == Emit(b, "SendProgressed", e.id, s.bytes_sent)
  <1>1. /\ HasEvent(p, q, c, "SendProgressed")
        /\ TakeEvent(p, q, c) /\ UNCHANGED restarts
    BY DEF OnSendProgressed, lifeVars
  <1>2. \/ UNCHANGED node
        \/ \E s \in {x \in b.ongoing_send : x.local_send_id = e.id} :
             \/ Set(p, progress_ongoing_send(a(s), s))
             \/ Set(p, fail_ongoing_send(a(s), s))
    BY Zenon DEF OnSendProgressed
  <1>3. /\ l \in Links /\ l[1] = p /\ Draws(link, link', l)
        /\ Head(link[l].ev) = e /\ e.type = "SendProgressed"
    BY <1>1, TakeEventDraws DEF Ripe
  <1>4. b \in Behaviour /\ Ids(b) /\ link \in [Links -> Handler] /\ e.id \in Nat
    BY <1>1, NextEventType, InvTypes DEF Ripe, Inv
  <1> HIDE DEF l, e
  <1>5. CASE UNCHANGED node
    BY <1>1, <1>5, IgnoredEvent
  <1>6. ASSUME NEW s \in b.ongoing_send, s.local_send_id = e.id
        PROVE  /\ a(s) \in Behaviour /\ Ids(a(s)) /\ s \in a(s).ongoing_send
               /\ a(s).pending_handler_event = b.pending_handler_event
               /\ a(s).ongoing_send = b.ongoing_send
               /\ a(s).ongoing_recv = b.ongoing_recv
    <2>1. /\ a(s).pending_handler_event = b.pending_handler_event
          /\ a(s).send_counter = b.send_counter
          /\ a(s).recv_counter = b.recv_counter
          /\ a(s).pending_send = b.pending_send
          /\ a(s).ongoing_send = b.ongoing_send
          /\ a(s).pending_recv = b.pending_recv
          /\ a(s).ongoing_recv = b.ongoing_recv
      BY <1>4 DEF Emit, Behaviour
    <2>2. "SendProgressed" \in OutType /\ s.bytes_sent \in Nat
      BY <1>4 DEF OutType, Behaviour, OngoingSend
    <2>3. a(s) \in Behaviour
      BY <1>4, <2>2, EmitShrinks DEF Shrinks
    <2> HIDE DEF a
    <2>4. Ids(a(s))
      BY <1>4, <2>1 DEF Ids, Sends, Recvs
    <2> QED BY <2>1, <2>3, <2>4
  <1> HIDE DEF a
  <1>7. ASSUME NEW s \in b.ongoing_send, s.local_send_id = e.id,
               Set(p, progress_ongoing_send(a(s), s))
        PROVE  OrderInv'
    <2>1. PICK body : Grows(b, progress_ongoing_send(a(s), s), s, body)
      BY <1>6, <1>7, ProgressGrows
    <2>2. s \in OngoingSend
      BY <1>4 DEF Behaviour
    <2>3. Acked(e, s.local_send_id)
      BY <1>3, <1>7 DEF Acked
    <2>4. ~On(node, link', p, s.local_send_id)
      <3>1. Sole(node, link, p)
        BY DEF Ripe, Paced, PacedAt
      <3> QED BY <1>3, <1>4, <2>3, <3>1, DrawFewer
    <2>5. Rung(link, l, s.local_send_id)
      <3>1. 1 \in DOMAIN link[l].ev /\ link[l].ev[1] = e
        <4>1. link[l].ev \in Seq(Event) /\ link[l].ev # <<>>
          BY <1>3, <1>4 DEF Handler, Draws
        <4> QED BY <1>3, <4>1
      <3> QED BY <2>3, <3>1 DEF Rung
    <2>6. restarts = 0 => Due(p, s)
      BY <1>3, <2>5, DueAcked
    <2>7. "SendProgressed" # "RecvProgressed"
      OBVIOUS
    <2> HIDE DEF b
    <2> QED BY <1>1, <1>7, <2>1, <2>2, <2>4, <2>6, <2>7, FeedOrder DEF b
  <1>8. ASSUME NEW s \in b.ongoing_send, s.local_send_id = e.id,
               Set(p, fail_ongoing_send(a(s), s))
        PROVE  OrderInv'
    <2> DEFINE d == fail_ongoing_send(a(s), s)
    <2>1. /\ d.pending_handler_event = b.pending_handler_event
          /\ d.ongoing_send \subseteq b.ongoing_send
          /\ d.ongoing_recv = b.ongoing_recv
      BY <1>6, <1>8 DEF fail_ongoing_send, Behaviour
    <2> HIDE DEF d
    <2> QED BY <1>1, <1>8, <2>1, LullEvent DEF d
  <1> QED BY <1>2, <1>5, <1>7, <1>8, Zenon

\* Emit touches none of it.
LEMMA EmitGrows ==
  ASSUME NEW b, NEW d \in Behaviour, NEW s, NEW body, Grows(b, d, s, body),
         NEW t, NEW j, NEW n
  PROVE  Grows(b, Emit(d, t, j, n), s, body)
  <1> DEFINE a == Emit(d, t, j, n)
  <1>1. /\ a.pending_handler_event = d.pending_handler_event
        /\ a.pending_send = d.pending_send
        /\ a.ongoing_send = d.ongoing_send
        /\ a.ongoing_recv = d.ongoing_recv
    BY DEF Emit, Behaviour
  <1> HIDE DEF a
  <1>2. Grows(b, a, s, body)
    BY <1>1 DEF Grows
  <1> QED BY <1>2 DEF a

\* The answer to a request was a letter.
LEMMA AnswerLetter ==
  ASSUME Ripe, restarts = 0, NEW p \in Peers, NEW q \in Peers, NEW c \in Conns,
         HasEvent(p, q, c, "FileSendAccepted"), TakeEvent(p, q, c)
  PROVE  \E m \in Letter : /\ m.type = "AcceptFile" /\ m.id = NextEvent(p, q, c).id
                           /\ Aloft(node, link, wire, m, q, p)
  <1> DEFINE e == NextEvent(p, q, c)
  <1>1. e \in Event /\ e.type = "FileSendAccepted"
    BY NextEventType DEF Ripe, Inv
  <1> HIDE DEF e
  <1>2. PICK m \in Letter : on_message(m) = e
    BY <1>1, EventLetter
  <1>3. Takes(link, link', p, q, c)
    BY TakeEventTakes DEF Ripe
  <1>4. Lone(node, link, wire, q, p) /\ link \in [Links -> Handler]
    BY InvTypes DEF Ripe, FlowInv, Flow
  <1>5. Head(link[<<p, q, c>>].ev) = on_message(m)
    BY <1>2 DEF NextEvent, e
  <1>6. Aloft(node, link, wire, m, q, p)
    BY <1>3, <1>4, <1>5, ReadLetter
  <1>7. m.type \in {"IncomingFile", "AcceptFile"}
    BY DEF Letter
  <1>8. m.type = "AcceptFile" /\ m.id = e.id
    BY <1>1, <1>2, <1>7 DEF on_message
  <1> QED BY <1>6, <1>8 DEF e

\* OnFileSendAccepted
LEMMA OnFileSendAcceptedOrder ==
  ASSUME Ripe, NEW p \in Peers, NEW q \in Peers, NEW c \in Conns,
         OnFileSendAccepted(p, q, c)
  PROVE  OrderInv'
  <1> DEFINE b == node[p]
             l == <<p, q, c>>
             e == NextEvent(p, q, c)
             a(s) == pending_send_accepted(b, s)
             ok(s) == Emit(progress_ongoing_send(a(s), started(s)),
                           "SendProgressed", e.id, 0)
             bad(s) == Emit(fail_ongoing_send(a(s), started(s)),
                            "SendProgressed", e.id, 0)
  <1>1. /\ HasEvent(p, q, c, "FileSendAccepted")
        /\ TakeEvent(p, q, c) /\ UNCHANGED restarts
    BY DEF OnFileSendAccepted, lifeVars
  <1>2. \/ UNCHANGED node
        \/ \E s \in b.pending_send :
             s.local_send_id = e.id /\ (Set(p, ok(s)) \/ Set(p, bad(s)))
    BY Zenon DEF OnFileSendAccepted
  <1>3. CASE UNCHANGED node
    BY <1>1, <1>3, IgnoredEvent
  <1>4. b \in Behaviour /\ Ids(b) /\ link \in [Links -> Handler]
    BY InvTypes DEF Ripe
  <1>5. l \in Links /\ Draws(link, link', l)
    BY <1>1, TakeEventDraws DEF Ripe
  <1>6. ASSUME NEW s \in b.pending_send
        PROVE  /\ a(s) \in Behaviour /\ Ids(a(s))
               /\ started(s) \in a(s).ongoing_send
               /\ a(s).pending_handler_event = b.pending_handler_event
               /\ a(s).ongoing_send = b.ongoing_send \cup {started(s)}
               /\ a(s).ongoing_recv = b.ongoing_recv
               /\ started(s).local_send_id = s.local_send_id
               /\ started(s).remote = s.remote /\ started(s).file = s.file
               /\ started(s).bytes_sent = 0
    <2>1. a(s) \in Behaviour /\ Ids(a(s)) /\ started(s) \in a(s).ongoing_send
      BY GoodNode, PendingSendAcceptedGood, Zenon DEF Ripe, Good
    <2>2. /\ a(s).pending_handler_event = b.pending_handler_event
          /\ a(s).ongoing_send = b.ongoing_send \cup {started(s)}
          /\ a(s).ongoing_recv = b.ongoing_recv
      BY <1>4 DEF pending_send_accepted, Behaviour
    <2> QED BY <2>1, <2>2 DEF started
  <1> HIDE DEF a, e, l
  <1>7. ASSUME NEW s \in b.pending_send, s.local_send_id = e.id, Set(p, ok(s))
        PROVE  OrderInv'
    <2> DEFINE d == progress_ongoing_send(a(s), started(s))
    <2>1. PICK body : Grows(b, d, started(s), body)
      BY <1>6, <1>7, ProgressGrows
    <2>2. d \in Behaviour
      BY <1>6, <1>7, ProgressIdle DEF Idle
    <2>3. started(s) \in OngoingSend
      BY <1>6, <1>7 DEF Behaviour
    <2> HIDE DEF d
    <2>4. Grows(b, ok(s), started(s), body)
      BY <2>1, <2>2, EmitGrows DEF d
    <2>5. ~On(node, link', p, started(s).local_send_id)
      <3>1. ~On(node, link, p, started(s).local_send_id)
        BY <1>6, <1>7 DEF Ripe, Paced, PacedAt
      <3>2. Fewer(node, link, node, link', p)
        BY <1>4, <1>5, DrawFewer
      <3> QED BY <3>1, <3>2 DEF Fewer
    <2>6. ASSUME restarts = 0
          PROVE  Due(p, started(s))
      <3>1. PICK m \in Letter : /\ m.type = "AcceptFile" /\ m.id = e.id
                                /\ Aloft(node, link, wire, m, q, p)
        BY <1>1, <2>6, AnswerLetter DEF e
      <3> QED BY <1>6, <1>7, <2>6, <3>1, DueAccepted
    <2>7. "FileSendAccepted" # "RecvProgressed"
      OBVIOUS
    <2> HIDE DEF ok, b
    <2> QED BY <1>1, <1>7, <2>3, <2>4, <2>5, <2>6, <2>7, FeedOrder DEF b
  <1>8. ASSUME NEW s \in b.pending_send, Set(p, bad(s))
        PROVE  OrderInv'
    <2>1. /\ bad(s).pending_handler_event = b.pending_handler_event
          /\ bad(s).ongoing_send \subseteq b.ongoing_send
          /\ bad(s).ongoing_recv = b.ongoing_recv
      BY <1>6, <1>8 DEF fail_ongoing_send, Emit, Behaviour
    <2> HIDE DEF bad
    <2> QED BY <1>1, <1>8, <2>1, LullEvent
  <1> HIDE DEF ok, bad
  <1> QED BY <1>2, <1>3, <1>7, <1>8, Zenon

-----------------------------------------------------------------------------
(* Handlers and connections. *)

\* Handlers and streams move chunks, and reports keep their order.
LEMMA NetOrder ==
  ASSUME Ripe, UNCHANGED <<node, restarts>>,
         AllStill(node, link, wire, node, link', wire'),
         \A l \in Links : \A id : Even(link, link', l, id)
  PROVE  OrderInv'
  <1>1. \A x \in Peers : Meek(node[x], node'[x])
    BY MeekSame
  <1>2. ASSUME NEW q \in Peers, NEW o \in node'[q].ongoing_recv, NEW c \in Conns
        PROVE  Even(link, link', <<q, o.remote, c>>, o.remote_send_id)
    <2>1. o.remote \in Peers
      BY RecvType, InvTypes DEF Ripe
    <2>2. <<q, o.remote, c>> \in Links
      BY <2>1 DEF Links
    <2> QED BY <2>2
  <1> QED BY <1>1, <1>2, MeekStep

\* Handlers lose chunks, or nothing, and report the same ones.
LEMMA SoftOrder ==
  ASSUME Ripe, UNCHANGED <<node, restarts>>,
         \A l \in Links :
           /\ Softer(link[l], link'[l])
           /\ Hears(link[l], link'[l]) /\ Hears(link'[l], link[l])
           /\ wire'[l] = wire[l] \/ (wire'[l] = <<>> /\ link'[l].busy = <<>>)
  PROVE  OrderInv'
  <1>1. AllStill(node, link, wire, node, link', wire')
    BY StillSoft
  <1>2. \A l \in Links : \A id : Even(link, link', l, id)
    BY EvenHears
  <1> QED BY <1>1, <1>2, NetOrder

\* What a handler reports of its streams is no chunk.
LEMMA ReportPlain ==
  ASSUME NEW L \in [Links -> Handler], NEW l \in Links, NEW t,
         t \in {"OutboundNegotiated", "InboundNegotiated", "Error"}
  PROVE  LET L2 == Tell(L, l, Report(t))
         IN  /\ L2 \in [Links -> Handler]
             /\ \A j \in Links : /\ Softer(L[j], L2[j])
                                 /\ Hears(L[j], L2[j]) /\ Hears(L2[j], L[j])
                                 /\ L2[j].busy = L[j].busy
                                 /\ L2[j].open = L[j].open
  <1> DEFINE e == Report(t)
             L2 == Tell(L, l, e)
  <1>1. e \in Event /\ e.type # "SendProgressed" /\ e.type # "RecvProgressed"
    BY ReportEvents DEF Report
  <1>2. \A j \in Links : L2[j].busy = L[j].busy /\ L2[j].open = L[j].open
    BY DEF Tell, Handler
  <1> HIDE DEF e
  <1>3. L2 \in [Links -> Handler]
    BY <1>1, LinkReportType
  <1>4. \A j \in Links : Softer(L[j], L2[j])
    BY <1>1, TellSofter
  <1>5. \A j \in Links : Hears(L[j], L2[j]) /\ Hears(L2[j], L[j])
    BY <1>1, TellHears
  <1> QED BY <1>2, <1>3, <1>4, <1>5 DEF e

\* OpenStream
LEMMA OpenStreamOrder ==
  ASSUME Ripe, NEW p \in Peers, NEW q \in Peers, NEW c \in Conns,
         OpenStream(p, q, c)
  PROVE  OrderInv' /\ Shut(link, wire)'
  <1> DEFINE l == <<p, q, c>>
             k == <<q, p, c>>
             L0 == [link EXCEPT ![l].open = TRUE]
             L1 == Tell(L0, l, Report("OutboundNegotiated"))
             L2 == Tell(L1, k, Report("InboundNegotiated"))
  <1>1. l \in Links /\ k \in Links
    BY DEF Links
  <1>2. /\ link' = L2 /\ UNCHANGED <<node, restarts>>
        /\ ~link[l].open /\ wire' = [wire EXCEPT ![l] = <<>>]
    BY DEF OpenStream, lifeVars
  <1>3. link \in [Links -> Handler] /\ wire \in [Links -> Slot]
    BY InvTypes DEF Ripe
  <1> HIDE DEF l, k
  <1>4. link[l].busy = <<>>
    BY <1>1, <1>2 DEF Ripe, Shut
  <1>5. /\ L0 \in [Links -> Handler]
        /\ \A j \in Links : /\ L0[j].inq = link[j].inq /\ L0[j].ev = link[j].ev
                            /\ L0[j].busy = link[j].busy
                            /\ j # l => L0[j].open = link[j].open
    <2>1. [link[l] EXCEPT !.open = TRUE] \in Handler
      BY <1>1, <1>3 DEF Handler
    <2> QED BY <1>1, <1>3, <2>1 DEF Handler
  <1> HIDE DEF L0
  <1>6. \A j \in Links : /\ Softer(link[j], L0[j])
                         /\ Hears(link[j], L0[j]) /\ Hears(L0[j], link[j])
    BY <1>5 DEF Softer, Hears
  <1>7. /\ L1 \in [Links -> Handler]
        /\ \A j \in Links : /\ Softer(L0[j], L1[j])
                            /\ Hears(L0[j], L1[j]) /\ Hears(L1[j], L0[j])
                            /\ L1[j].busy = L0[j].busy /\ L1[j].open = L0[j].open
    BY <1>1, <1>5, ReportPlain
  <1> HIDE DEF L1
  <1>8. \A j \in Links : /\ Softer(L1[j], L2[j])
                         /\ Hears(L1[j], L2[j]) /\ Hears(L2[j], L1[j])
                         /\ L2[j].busy = L1[j].busy /\ L2[j].open = L1[j].open
    BY <1>1, <1>7, ReportPlain
  <1> HIDE DEF L2
  <1>9. \A j \in Links : /\ Softer(link[j], L1[j])
                         /\ Hears(link[j], L1[j]) /\ Hears(L1[j], link[j])
    BY <1>6, <1>7, SofterTrans, HearsTrans
  <1>10. \A j \in Links : /\ Softer(link[j], link'[j])
                          /\ Hears(link[j], link'[j]) /\ Hears(link'[j], link[j])
    BY <1>2, <1>8, <1>9, SofterTrans, HearsTrans
  <1>11. \A j \in Links : /\ link'[j].busy = link[j].busy
                          /\ j # l => link'[j].open = link[j].open
    BY <1>2, <1>5, <1>7, <1>8
  <1>12. wire'[l] = <<>> /\ \A j \in Links : j # l => wire'[j] = wire[j]
    BY <1>1, <1>2, <1>3
  <1>13. \A j \in Links :
           wire'[j] = wire[j] \/ (wire'[j] = <<>> /\ link'[j].busy = <<>>)
    BY <1>1, <1>4, <1>11, <1>12
  <1>14. OrderInv'
    BY <1>2, <1>10, <1>13, SoftOrder
  <1>15. Shut(link', wire')
    BY <1>4, <1>11, <1>12 DEF Shut, Ripe
  <1> QED BY <1>14, <1>15

\* Fail
LEMMA FailOrder ==
  ASSUME Ripe, NEW p \in Peers, NEW q \in Peers, NEW c \in Conns, Fail(p, q, c)
  PROVE  OrderInv' /\ Shut(link, wire)'
  <1> DEFINE l == <<p, q, c>>
             k == <<q, p, c>>
             L0 == [link EXCEPT ![l].open = FALSE, ![l].busy = <<>>]
             L1 == Tell(L0, l, Report("Error"))
             L2 == Tell(L1, k, Report("Error"))
  <1>1. l \in Links /\ k \in Links
    BY DEF Links
  <1>2. /\ link' = L1 \/ link' = L2
        /\ UNCHANGED <<node, restarts>>
        /\ UNCHANGED wire \/ wire' = [wire EXCEPT ![l] = <<>>]
    BY DEF Fail, lifeVars
  <1>3. link \in [Links -> Handler] /\ wire \in [Links -> Slot]
    BY InvTypes DEF Ripe
  <1> HIDE DEF l, k
  <1>5. /\ L0 \in [Links -> Handler]
        /\ \A j \in Links : L0[j].inq = link[j].inq /\ L0[j].ev = link[j].ev
        /\ \A j \in Links : j # l => L0[j].busy = link[j].busy
                                     /\ L0[j].open = link[j].open
        /\ L0[l].busy = <<>>
    <2>1. [link[l] EXCEPT !.open = FALSE, !.busy = <<>>] \in Handler
      BY <1>1, <1>3, SlotType DEF Handler
    <2> QED BY <1>1, <1>3, <2>1 DEF Handler
  <1> HIDE DEF L0
  <1>6. \A j \in Links : /\ Softer(link[j], L0[j])
                         /\ Hears(link[j], L0[j]) /\ Hears(L0[j], link[j])
    BY <1>5 DEF Softer, Hears
  <1>7. /\ L1 \in [Links -> Handler]
        /\ \A j \in Links : /\ Softer(L0[j], L1[j])
                            /\ Hears(L0[j], L1[j]) /\ Hears(L1[j], L0[j])
                            /\ L1[j].busy = L0[j].busy /\ L1[j].open = L0[j].open
    BY <1>1, <1>5, ReportPlain
  <1> HIDE DEF L1
  <1>8. \A j \in Links : /\ Softer(L1[j], L2[j])
                         /\ Hears(L1[j], L2[j]) /\ Hears(L2[j], L1[j])
                         /\ L2[j].busy = L1[j].busy /\ L2[j].open = L1[j].open
    BY <1>1, <1>7, ReportPlain
  <1> HIDE DEF L2
  <1>9. \A j \in Links : /\ Softer(link[j], L1[j])
                         /\ Hears(link[j], L1[j]) /\ Hears(L1[j], link[j])
    BY <1>6, <1>7, SofterTrans, HearsTrans
  <1>10. \A j \in Links : /\ Softer(link[j], link'[j])
                          /\ Hears(link[j], link'[j]) /\ Hears(link'[j], link[j])
    BY <1>2, <1>8, <1>9, SofterTrans, HearsTrans
  <1>11. /\ \A j \in Links : j # l => link'[j].busy = link[j].busy
                                      /\ link'[j].open = link[j].open
         /\ link'[l].busy = <<>>
    BY <1>1, <1>2, <1>5, <1>7, <1>8
  <1>12. /\ wire'[l] = <<>> \/ wire'[l] = wire[l]
         /\ \A j \in Links : j # l => wire'[j] = wire[j]
    BY <1>1, <1>2, <1>3
  <1>13. \A j \in Links :
           wire'[j] = wire[j] \/ (wire'[j] = <<>> /\ link'[j].busy = <<>>)
    BY <1>1, <1>11, <1>12
  <1>14. OrderInv'
    BY <1>2, <1>10, <1>13, SoftOrder
  <1>15. Shut(link', wire')
    BY <1>11, <1>12 DEF Shut, Ripe
  <1> QED BY <1>14, <1>15

\* Transmit
LEMMA TransmitOrder ==
  ASSUME Ripe, NEW p \in Peers, NEW q \in Peers, NEW c \in Conns,
         Transmit(p, q, c)
  PROVE  OrderInv' /\ Shut(link, wire)'
  <1> DEFINE l == <<p, q, c>>
             i == Tail(link[l].inq)
             m == <<Head(link[l].inq)>>
  <1>1. l \in Links
    BY DEF Links
  <1>2. /\ link[l].busy = <<>> /\ link[l].inq # <<>> /\ link[l].open
        /\ link' = [link EXCEPT ![l].inq = i, ![l].busy = m]
        /\ wire' = [wire EXCEPT ![l] = m]
        /\ UNCHANGED <<node, restarts>>
    BY DEF Transmit, lifeVars
  <1>3. link \in [Links -> Handler] /\ wire \in [Links -> Slot]
    BY InvTypes DEF Ripe
  <1> HIDE DEF i, m, l
  <1>4. /\ link'[l].inq = i /\ link'[l].busy = m
        /\ \A j \in Links : j # l => /\ link'[j].inq = link[j].inq
                                     /\ link'[j].busy = link[j].busy
        /\ \A j \in Links : link'[j].ev = link[j].ev /\ link'[j].open = link[j].open
    BY <1>1, <1>2, <1>3 DEF Handler
  <1>5. wire'[l] = m /\ \A j \in Links : j # l => wire'[j] = wire[j]
    BY <1>1, <1>2, <1>3
  <1>6. Leaves(link, link', l)
    BY <1>2, <1>4 DEF Leaves, i, m
  <1>7. AllStill(node, link, wire, node, link', wire')
    BY <1>1, <1>3, <1>5, <1>6, StillLeave DEF m
  <1>8. \A j \in Links : \A id : Even(link, link', j, id)
    BY <1>4 DEF Even, Got
  <1>9. OrderInv'
    BY <1>2, <1>7, <1>8, NetOrder
  <1>10. Shut(link', wire')
    BY <1>2, <1>4, <1>5, ZenonT(60) DEF Shut, Ripe
  <1> QED BY <1>9, <1>10

\* Complete
LEMMA CompleteOrder ==
  ASSUME Ripe, NEW p \in Peers, NEW q \in Peers, NEW c \in Conns,
         Complete(p, q, c)
  PROVE  OrderInv' /\ Shut(link, wire)'
  <1> DEFINE l == <<p, q, c>>
             h == link[l]
             d == [type |-> "SendProgressed", id |-> h.busy[1].id, body |-> <<>>]
             s == IF h.busy[1].type = "FileChunk" THEN Append(h.ev, d) ELSE h.ev
  <1>1. l \in Links
    BY DEF Links
  <1>2. /\ h.busy # <<>> /\ wire[l] = <<>>
        /\ link' = [link EXCEPT ![l].busy = <<>>, ![l].ev = s]
        /\ UNCHANGED <<node, wire, restarts>>
    BY DEF Complete, lifeVars
  <1>3. d.type = "SendProgressed" /\ d.id = h.busy[1].id
    OBVIOUS
  <1>4. link \in [Links -> Handler]
    BY InvTypes DEF Ripe
  <1> HIDE DEF l, s, d
  <1>5. /\ link'[l].ev = s /\ link'[l].busy = <<>>
        /\ \A j \in Links : j # l => /\ link'[j].ev = link[j].ev
                                     /\ link'[j].busy = link[j].busy
        /\ \A j \in Links : link'[j].inq = link[j].inq /\ link'[j].open = link[j].open
    BY <1>1, <1>2, <1>4 DEF Handler
  <1>6. Ends(link, link', l, d)
    BY <1>2, <1>3, <1>5 DEF Ends, s
  <1>7. /\ AllStill(node, link, wire, node, link', wire)
        /\ \A j \in Links : \A id : Even(link, link', j, id)
    BY <1>1, <1>2, <1>4, <1>6, StillEnd
  <1>8. OrderInv'
    BY <1>2, <1>7, NetOrder
  <1>9. Shut(link', wire')
    BY <1>2, <1>5 DEF Shut, Ripe
  <1> QED BY <1>8, <1>9

\* Connect
LEMMA ConnectOrder ==
  ASSUME Ripe, NEW p \in Peers, NEW q \in Peers, NEW c \in Conns, Connect(p, q, c)
  PROVE  OrderInv' /\ Shut(link, wire)'
  <1> DEFINE l == <<p, q, c>>
             k == <<q, p, c>>
  <1>1. l \in Links /\ k \in Links
    BY DEF Links
  <1>2. /\ link' = [link EXCEPT ![l] = NewHandler, ![k] = NewHandler]
        /\ wire' = [wire EXCEPT ![l] = <<>>, ![k] = <<>>]
        /\ UNCHANGED <<node, restarts>>
        /\ c \notin conn[p][q] /\ c \notin conn[q][p]
    BY DEF Connect, lifeVars
  <1>3. link[l] = NewHandler /\ link[k] = NewHandler
    BY <1>1, <1>2 DEF Ripe, Plugged
  <1>4. link \in [Links -> Handler] /\ wire \in [Links -> Slot]
    BY InvTypes DEF Ripe
  <1> HIDE DEF l, k
  <1>5. \A j \in Links : link'[j] = link[j]
    BY <1>1, <1>2, <1>3, <1>4
  <1>6. \A j \in Links : \/ wire'[j] = wire[j]
                         \/ wire'[j] = <<>> /\ link[j] = NewHandler
    BY <1>1, <1>2, <1>3, <1>4
  <1>7. NewHandler.busy = <<>>
    BY DEF NewHandler
  <1>8. \A j \in Links :
          /\ Softer(link[j], link'[j])
          /\ Hears(link[j], link'[j]) /\ Hears(link'[j], link[j])
          /\ wire'[j] = wire[j] \/ (wire'[j] = <<>> /\ link'[j].busy = <<>>)
    BY <1>5, <1>6, <1>7, SofterSame, HearsSame
  <1>9. OrderInv'
    BY <1>2, <1>8, SoftOrder
  <1>10. Shut(link', wire')
    BY <1>5, <1>6, <1>7 DEF Shut, Ripe
  <1> QED BY <1>9, <1>10

\* Handlers of p are as new and p keeps no recv of their remotes.
LEMMA GoneOrder ==
  ASSUME Ripe, UNCHANGED <<wire, restarts>>, NEW p \in Peers,
         \A x \in Peers : Meek(node[x], node'[x]),
         \A l \in Links : \/ link'[l] = link[l]
                          \/ /\ link'[l] = NewHandler /\ l[1] = p
                             /\ \A o \in node'[p].ongoing_recv : o.remote # l[2]
  PROVE  OrderInv' /\ Shut(link, wire)'
  <1>1. \A l \in Links : Softer(link[l], link'[l]) /\ Hears(link[l], link'[l])
    BY SofterSame, HearsSame
  <1>2. AllStill(node, link, wire, node, link', wire')
    BY <1>1, StillSoft
  <1>3. ASSUME NEW x \in Peers, NEW o \in node'[x].ongoing_recv, NEW c \in Conns
        PROVE  Even(link, link', <<x, o.remote, c>>, o.remote_send_id)
    <2> DEFINE l == <<x, o.remote, c>>
    <2>1. node' \in [Peers -> Behaviour]
      BY DEF Ripe, Inv, NodeInv
    <2>2. o.remote \in Peers
      BY <2>1, RecvType
    <2>3. l \in Links /\ l[1] = x /\ l[2] = o.remote
      BY <2>2 DEF Links
    <2> HIDE DEF l
    <2>4. link'[l] = link[l]
      BY <1>3, <2>3
    <2>5. Even(link, link', l, o.remote_send_id)
      BY <2>4 DEF Even, Got
    <2> QED BY <2>5 DEF l
  <1>4. OrderInv'
    BY <1>2, <1>3, MeekStep
  <1>5. NewHandler.busy = <<>>
    BY DEF NewHandler
  <1>6. Shut(link', wire')
    BY <1>5 DEF Shut, Ripe
  <1> QED BY <1>4, <1>6

\* ConnectionLost and ConnectionNoticed: it was the last connection.
LEMMA CloseOrder ==
  ASSUME Ripe, OneConnection, NEW p \in Peers, NEW q \in Peers, NEW c \in Conns,
         ConnectionLost(p, q, c) \/ ConnectionNoticed(p, q, c)
  PROVE  OrderInv' /\ Shut(link, wire)'
  <1> DEFINE l == <<p, q, c>>
             a == on_disconnect(node[p], q)
  <1>1. /\ c \in conn[p][q] /\ link' = [link EXCEPT ![l] = NewHandler]
        /\ IF conn[p][q] = {c} THEN Set(p, a) ELSE UNCHANGED node
        /\ UNCHANGED <<wire, restarts>>
    BY Zenon DEF ConnectionLost, ConnectionNoticed, Close, lifeVars
  <1>2. conn[p][q] \subseteq Conns
    BY DEF Ripe, Inv, NetType
  <1>3. conn[p][q] = {c}
    BY <1>1, <1>2 DEF OneConnection
  <1>4. Set(p, a)
    BY <1>1, <1>3
  <1>5. /\ a.pending_handler_event = node[p].pending_handler_event
        /\ a.ongoing_send \subseteq node[p].ongoing_send
        /\ a.ongoing_recv \subseteq node[p].ongoing_recv
        /\ \A o \in a.ongoing_recv : o.remote # q
    <2>1. node[p] \in Behaviour
      BY InvTypes DEF Ripe
    <2> QED BY <2>1 DEF on_disconnect, Behaviour
  <1> HIDE DEF a
  <1>6. Meek(node[p], a)
    BY <1>5 DEF Meek
  <1>7. \A x \in Peers : Meek(node[x], node'[x])
    BY <1>4, <1>6, SetMeek DEF Ripe
  <1>8. \A o \in node'[p].ongoing_recv : o.remote # q
    BY <1>4, <1>5, SetAt DEF Ripe
  <1>9. l \in Links /\ l[1] = p /\ l[2] = q
    BY DEF Links
  <1> HIDE DEF l
  <1>10. \A j \in Links : link'[j] = link[j] \/ (j = l /\ link'[j] = NewHandler)
    BY <1>1, <1>9, InvTypes DEF Ripe
  <1> QED BY <1>1, <1>7, <1>8, <1>9, <1>10, GoneOrder

\* SendFileLate and AcceptedTwice: the swarm of p is gone.
LEMMA DropOrder ==
  ASSUME Ripe, NEW p \in Peers, Drop(p), UNCHANGED restarts
  PROVE  OrderInv' /\ Shut(link, wire)'
  <1>1. Set(p, NewBehaviour) /\ UNCHANGED wire
    BY DEF Drop
  <1>2. /\ NewBehaviour.pending_handler_event = <<>>
        /\ NewBehaviour.ongoing_send = {} /\ NewBehaviour.ongoing_recv = {}
    BY DEF NewBehaviour
  <1>3. Meek(node[p], NewBehaviour)
    BY <1>2 DEF Meek
  <1>4. \A x \in Peers : Meek(node[x], node'[x])
    BY <1>1, <1>3, SetMeek DEF Ripe
  <1>5. node'[p] = NewBehaviour
    BY <1>1, SetAt DEF Ripe
  <1>6. \A l \in Links : link'[l] = IF l[1] = p THEN NewHandler ELSE link[l]
    BY DEF Drop
  <1> QED BY <1>1, <1>2, <1>4, <1>5, <1>6, GoneOrder

\* Restart: nothing is claimed of a program in which a peer was restarted.
LEMMA RestartOrder ==
  ASSUME Ripe, NEW p \in Peers, Restart(p)
  PROVE  OrderInv' /\ Shut(link, wire)'
  <1>1. restarts' # 0
    <2>1. restarts \in Nat
      BY DEF Ripe, Inv, GhostType
    <2>2. restarts' = restarts + 1
      BY DEF Restart
    <2> QED BY <2>1, <2>2
  <1>2. /\ \A l \in Links : link'[l] = IF l[1] = p THEN NewHandler ELSE link[l]
        /\ UNCHANGED wire
    BY DEF Restart, Drop
  <1>3. NewHandler.busy = <<>>
    BY DEF NewHandler
  <1>4. Shut(link', wire')
    BY <1>2, <1>3 DEF Shut, Ripe
  <1> QED BY <1>1, <1>4 DEF OrderInv

\* Poll and PollExpiry: a message may go from the queue to a handler.
LEMMA PollOrder ==
  ASSUME Ripe, NEW p \in Peers,
         NEW x \in Expiries(node[p]) \cup {NotThrottled}, PollWith(p, x)
  PROVE  OrderInv' /\ Shut(link, wire)'
  <1> DEFINE b == check_expiry(node[p], x)
             h == Head(b.pending_handler_event)
             o1 == [b EXCEPT !.out_events = Tail(@)]
             q1 == [b EXCEPT !.pending_handler_event = Tail(@)]
  <1>1. UNCHANGED <<wire, restarts>>
    BY DEF PollWith, lifeVars
  <1>2. \/ b.out_events # <<>> /\ Set(p, o1) /\ UNCHANGED link
        \/ /\ b.pending_handler_event # <<>> /\ Set(p, q1)
           /\ \/ UNCHANGED link
              \/ \E c \in conn[p][h.to] :
                   link' = [link EXCEPT ![<<p, h.to, c>>].inq = Append(@, h.msg)]
    BY Zenon DEF PollWith, PollOutEvent, PollHandlerEvent
  <1>3. node[p] \in Behaviour /\ link \in [Links -> Handler]
        /\ node \in [Peers -> Behaviour]
    BY InvTypes DEF Ripe
  <1>4. b \in Behaviour /\ Mute(node[p], b) /\ Shrinks(node[p], b)
    BY <1>3, CheckExpiryMute, CheckExpiryShrinks
  <1> HIDE DEF b
  <1>5. Meek(node[p], b)
    BY <1>4 DEF Meek, Mute, Docile, Shrinks
  <1>6. CASE b.out_events # <<>> /\ Set(p, o1) /\ UNCHANGED link
    <2>1. /\ o1.pending_handler_event = b.pending_handler_event
          /\ o1.ongoing_send = b.ongoing_send
          /\ o1.ongoing_recv = b.ongoing_recv
      BY <1>4 DEF Behaviour
    <2> HIDE DEF o1
    <2>2. Meek(node[p], o1)
      BY <1>5, <2>1 DEF Meek
    <2>3. \A y \in Peers : Meek(node[y], node'[y])
      BY <1>6, <2>2, SetMeek DEF Ripe

    <2>5. /\ AllStill(node, link, wire, node, link', wire')
          /\ \A l, id : Even(link, link', l, id)
      BY <1>1, <1>6, StillSame
    <2>6. OrderInv'
      BY <1>1, <2>3, <2>5, MeekStep
    <2> QED BY <1>1, <1>6, <2>6 DEF Ripe, Shut
  <1>7. CASE /\ b.pending_handler_event # <<>> /\ Set(p, q1)
             /\ \/ UNCHANGED link
                \/ \E c \in conn[p][h.to] :
                     link' = [link EXCEPT ![<<p, h.to, c>>].inq = Append(@, h.msg)]
    <2> DEFINE N1 == [node EXCEPT ![p] = b]
    <2>1. /\ N1 \in [Peers -> Behaviour] /\ N1[p] = b
          /\ \A y \in Peers : y # p => N1[y] = node[y]
      BY <1>3, <1>4
    <2> HIDE DEF N1
    <2>2. ASSUME NEW y \in Peers, NEW id
          PROVE  Dim(node, N1, y, id)
      <3>1. Meek(node[y], N1[y])
        BY <1>5, <2>1, MeekSame
      <3> QED BY <3>1, MeekDim
    <2>3. /\ q1.pending_handler_event = Tail(b.pending_handler_event)
          /\ q1.ongoing_send = b.ongoing_send
          /\ q1.ongoing_recv = b.ongoing_recv
          /\ b.pending_handler_event \in Seq(Notification)
      BY <1>4 DEF Behaviour
    <2>4. node'[p] = q1 /\ \A y \in Peers : y # p => node'[y] = node[y]
      BY <1>7, SetAt DEF Ripe
    <2> HIDE DEF q1
    <2>5. Pops(N1, node', p)
      BY <1>7, <2>1, <2>3, <2>4 DEF Pops
    <2>6. \A y \in Peers : /\ node'[y].ongoing_send \subseteq node[y].ongoing_send
                           /\ node'[y].ongoing_recv \subseteq node[y].ongoing_recv
      BY <1>5, <2>3, <2>4 DEF Meek
    <2>7. ASSUME AllStill(N1, link, wire, node', link', wire'),
                 \A l \in Links : /\ link'[l].ev = link[l].ev
                                  /\ link'[l].busy = link[l].busy
                                  /\ link'[l].open = link[l].open
          PROVE  OrderInv' /\ Shut(link, wire)'
      <3>1. ASSUME NEW y \in Peers, NEW id
            PROVE  Still(node, link, wire, node', link', wire', y, id)
        BY <2>2, <2>7, StillDim DEF AllStill
      <3>2. AllStill(node, link, wire, node', link', wire')
        BY <3>1 DEF AllStill
      <3>3. ASSUME NEW y \in Peers, NEW o \in node'[y].ongoing_recv, NEW c \in Conns
            PROVE  Even(link, link', <<y, o.remote, c>>, o.remote_send_id)
        <4>1. o \in node[y].ongoing_recv
          BY <2>6
        <4>2. o.remote \in Peers
          BY <1>3, <4>1, RecvType
        <4>3. <<y, o.remote, c>> \in Links
          BY <4>2 DEF Links
        <4> QED BY <2>7, <4>3 DEF Even, Got
      <3>4. OrderInv'
        BY <1>1, <2>6, <3>2, <3>3, PlainStep
      <3>5. Shut(link', wire')
        BY <1>1, <2>7 DEF Ripe, Shut
      <3> QED BY <3>4, <3>5
    <2>8. CASE UNCHANGED link
      <3>1. AllStill(N1, link, wire, N1, link', wire')
        BY <1>1, <2>8, StillSame
      <3>2. ASSUME NEW y \in Peers, NEW id
            PROVE  Still(N1, link, wire, node', link', wire', y, id)
        <4>1. Dim(N1, node', y, id)
          BY <2>1, <2>5, DimPop
        <4> QED BY <3>1, <4>1, StillDim DEF AllStill
      <3>3. AllStill(N1, link, wire, node', link', wire')
        BY <3>2 DEF AllStill
      <3> QED BY <2>7, <2>8, <3>3
    <2>9. ASSUME NEW c \in conn[p][h.to],
                 link' = [link EXCEPT ![<<p, h.to, c>>].inq = Append(@, h.msg)]
          PROVE  OrderInv' /\ Shut(link, wire)'
      <3> DEFINE l == <<p, h.to, c>>
                 i == Append(link[l].inq, h.msg)
      <3>1. h \in Notification
        BY <1>7, <2>3, SMTT(30)
      <3>2. l \in Links /\ l[1] = p /\ l[2] = h.to
        <4>1. h.to \in Peers
          BY <3>1 DEF Notification
        <4>2. c \in Conns
          BY <2>9, <4>1 DEF Ripe, Inv, NetType
        <4> QED BY <4>1, <4>2 DEF Links
      <3>3. link' = [link EXCEPT ![l].inq = i]
        BY <2>9
      <3> HIDE DEF l, i
      <3>4. /\ link'[l].inq = i
            /\ \A j \in Links : j # l => link'[j].inq = link[j].inq
            /\ \A j \in Links : /\ link'[j].busy = link[j].busy
                                /\ link'[j].ev = link[j].ev
                                /\ link'[j].open = link[j].open
        BY <1>3, <3>2, <3>3 DEF Handler
      <3>5. Enters(link, link', l, h.msg)
        BY <3>4 DEF Enters, i
      <3>6. h = Head(N1[p].pending_handler_event)
        BY <2>1
      <3> HIDE DEF h
      <3>7. AllStill(N1, link, wire, node', link', wire')
        BY <1>1, <1>3, <2>1, <2>5, <3>2, <3>5, <3>6, StillPost
      <3> QED BY <2>7, <3>4, <3>7
    <2> QED BY <1>7, <2>8, <2>9
  <1> QED BY <1>2, <1>6, <1>7

\* Arrive: the chunk, if it is one, was the only one of its send under way, so
\* it is the last that q is told of.
LEMMA ArriveOrder ==
  ASSUME Ripe, OneConnection, NEW p \in Peers, NEW q \in Peers, NEW c \in Conns,
         Arrive(p, q, c)
  PROVE  OrderInv' /\ Shut(link, wire)'
  <1> DEFINE l == <<p, q, c>>
             k == <<q, p, c>>
             m == wire[l][1]
  <1>1. l \in Links /\ k \in Links /\ l[1] = p /\ k[2] = p
    BY DEF Links
  <1>2. /\ wire[l] # <<>> /\ link' = Tell(link, k, on_message(m))
        /\ wire' = [wire EXCEPT ![l] = <<>>]
        /\ UNCHANGED <<node, restarts>>
    BY DEF Arrive, lifeVars
  <1>3. /\ link \in [Links -> Handler] /\ wire \in [Links -> Slot]
        /\ node \in [Peers -> Behaviour]
    BY InvTypes DEF Ripe
  <1>4. m \in Msg
    BY <1>1, <1>2, <1>3 DEF Slot
  <1>5. wire[l][1] = m
    OBVIOUS
  <1> HIDE DEF m
  <1>6. Lands(link, wire, link', wire', l, k, m)
    <2> HIDE DEF l, k
    <2> QED BY <1>1, <1>2, <1>3, <1>4, <1>5, LandTell
  <1>7. Shut(link', wire')
    <2>1. \A j \in Links : link'[j].busy = link[j].busy /\ link'[j].open = link[j].open
      <3> HIDE DEF l, k
      <3> QED BY <1>1, <1>2, <1>3 DEF Tell, Handler
    <2>2. \A j \in Links : wire'[j] = <<>> \/ wire'[j] = wire[j]
      <3> HIDE DEF l, k
      <3> QED BY <1>6 DEF Lands
    <2> QED BY <2>1, <2>2 DEF Ripe, Shut
  <1>8. ASSUME restarts' = 0
        PROVE  Order(node', link', wire', panic')
    <2>1. /\ Order(node, link, wire, panic)
          /\ Heir(node, link, wire, panic, node', link', wire', panic')
          /\ \A x, y \in Peers : Waiting(node, panic, x, y)
          /\ node' \in [Peers -> Behaviour]
      BY <1>2, <1>8, RipeOrder
    <2>2. /\ \A g \in Links : link'[g].inq = link[g].inq /\ link'[g].busy = link[g].busy
          /\ \A g \in Links : \A id : Rung(link', g, id) => Rung(link, g, id)
          /\ wire'[l] = <<>> /\ \A g \in Links : g # l => wire'[g] = wire[g]
      <3> HIDE DEF l, k
      <3> QED BY <1>6 DEF Lands
    <2>3. \A g \in Links : \A id, b : /\ Boxed(link', g, id, b) <=> Boxed(link, g, id, b)
                                      /\ Loaded(link', g, id, b) <=> Loaded(link, g, id, b)
                                      /\ Float(wire', g, id, b) => Float(wire, g, id, b)
      <3> HIDE DEF l
      <3> QED BY <2>2 DEF Boxed, Loaded, Float
    <2>4. Tied(node', link', wire')
      <3> SUFFICES ASSUME NEW g \in Links, NEW id, NEW b, Float(wire', g, id, b)
                   PROVE  /\ \A x \in Peers : \A b2 : ~Queued(node', g[1], x, id, b2)
                          /\ \A j \in Links : j[1] = g[1] =>
                               /\ ~Rung(link', j, id)
                               /\ \A b2 : /\ ~Boxed(link', j, id, b2)
                                          /\ Loaded(link', j, id, b2)
                                               => j = g /\ b2 = b
        BY DEF Tied
      <3>1. Float(wire, g, id, b) /\ Tied(node, link, wire)
        BY <2>1, <2>3 DEF Order
      <3>2. /\ \A x \in Peers : \A b2 : ~Queued(node, g[1], x, id, b2)
            /\ \A j \in Links : j[1] = g[1] =>
                 /\ ~Rung(link, j, id)
                 /\ \A b2 : /\ ~Boxed(link, j, id, b2)
                            /\ Loaded(link, j, id, b2) => j = g /\ b2 = b
        BY <3>1 DEF Tied
      <3> QED BY <1>2, <2>2, <2>3, <3>2
    <2>5. ASSUME NEW a \in Peers, NEW x \in Peers, NEW id, NEW b,
                 Under(node', link', wire', a, x, id, b)
          PROVE  Under(node, link, wire, a, x, id, b)
      <3>1. \A d \in Conns : <<a, x, d>> \in Links /\ <<x, a, d>> \in Links
        BY DEF Links
      <3>2. CASE Rear(node', link', wire', a, x, id, b)
        BY <1>2, <2>3, <3>1, <3>2 DEF Under, Rear, Queued
      <3>3. ASSUME NEW d \in Conns, NEW i, Got(link', <<x, a, d>>, i, id, b)
            PROVE  Under(node, link, wire, a, x, id, b)
        <4>1. \/ Got(link, <<x, a, d>>, i, id, b)
              \/ <<x, a, d>> = k /\ IsPart(m, id, b)
          BY <1>6, <3>1, <3>3 DEF Lands
        <4>2. CASE Got(link, <<x, a, d>>, i, id, b)
          BY <4>2 DEF Under, Seen
        <4>3. CASE <<x, a, d>> = k /\ IsPart(m, id, b)
          <5>1. x = q /\ a = p /\ d = c
            BY <4>3
          <5>2. Float(wire, l, id, b)
            BY <1>2, <1>5, <4>3 DEF Float
          <5> QED BY <5>1, <5>2 DEF Under, Rear
        <4> QED BY <4>1, <4>2, <4>3
      <3> QED BY <2>5, <3>2, <3>3 DEF Under, Seen
    <2>6. Spent(node', link', wire', panic')
      BY <1>3, <2>1, <2>5, SpentAll DEF Order
    <2>7. Match(node')
      BY <1>2, <2>1 DEF Order, Match
    <2>8. ASSUME NEW x \in Peers, NEW o \in node'[x].ongoing_recv
          PROVE  Row(node', link', wire', x, o)
      <3>1. o \in node[x].ongoing_recv /\ o \in OngoingRecv /\ o.remote \in Peers
        BY <2>1, <2>8, <1>2, RecvType
      <3>2. Row(node, link, wire, x, o)
        BY <2>1, <3>1 DEF Order, Rows
      <3>3. CASE o.remote = p /\ IsPart(m, o.remote_send_id, m.body)
        <4>1. Lands(link, wire, link', wire', <<o.remote, q, c>>, <<q, o.remote, c>>, m)
          BY <1>6, <3>3
        <4>2. \A c1, c2 \in Conns : c1 = c2
          BY DEF OneConnection
        <4>3. Tied(node, link, wire)
          BY <2>1 DEF Order
        <4> HIDE DEF l, k
        <4>4. Row(node, link', wire', x, o)
          BY <1>3, <3>1, <3>2, <3>3, <4>1, <4>2, <4>3, RowLanded
        <4> QED BY <1>2, <4>4
      <3>4. CASE ~(o.remote = p /\ IsPart(m, o.remote_send_id, m.body))
        <4>1. ~(o.remote = l[1] /\ \E b : IsPart(m, o.remote_send_id, b))
          BY <1>1, <3>4 DEF IsPart
        <4>2. Shut(link, wire)
          BY DEF Ripe
        <4>3. Still(node, link, wire, node, link', wire', o.remote, o.remote_send_id)
          <5> HIDE DEF l, k
          <5> QED BY <1>1, <1>6, <4>1, <4>2, LandStill
        <4>4. ASSUME NEW d \in Conns
              PROVE  Even(link, link', <<x, o.remote, d>>, o.remote_send_id)
          <5> DEFINE g == <<x, o.remote, d>>
          <5>1. g \in Links /\ g[2] = o.remote
            BY <3>1 DEF Links
          <5> HIDE DEF g, l, k
          <5>2. ~(g = k /\ \E b : IsPart(m, o.remote_send_id, b))
            BY <1>1, <4>1, <5>1
          <5>3. Even(link, link', g, o.remote_send_id)
            BY <1>6, <5>1, <5>2, LandEven
          <5> QED BY <5>3 DEF g
        <4> QED BY <1>2, <1>3, <2>1, <3>1, <3>2, <4>3, <4>4, RowAll
      <3> QED BY <3>3, <3>4
    <2> QED BY <2>4, <2>6, <2>7, <2>8 DEF Order, Rows
  <1> QED BY <1>7, <1>8 DEF OrderInv

-----------------------------------------------------------------------------
(* All steps together. *)

\* The user and the Behaviours do not touch streams.
LEMMA EventShut ==
  ASSUME Ripe, UNCHANGED wire, NEW l, NEW e,
         UNCHANGED link \/ link' = [link EXCEPT ![l].ev = e]
  PROVE  Shut(link, wire)'
  <1>1. link \in [Links -> Handler]
    BY InvTypes DEF Ripe
  <1>2. \A j \in Links : link'[j].busy = link[j].busy /\ link'[j].open = link[j].open
    BY <1>1, ZenonT(60) DEF Handler
  <1> QED BY <1>2 DEF Ripe, Shut

\* User, but for SendFileLate
LEMMA UserSteps ==
  ASSUME Ripe, NEW p \in Peers,
         \/ \E q \in Peers, f \in Files : SendFile(p, q, f)
         \/ \E q \in Peers : SendFileNotFound(p, q) \/ SendFileNoMetadata(p, q)
         \/ AcceptFile(p)
         \/ \E id \in Nat : CancelRecv(p, id) \/ CancelSend(p, id)
  PROVE  OrderInv' /\ Shut(link, wire)'
  <1>1. UNCHANGED connVars
    BY Zenon DEF SendFile, SendFileNotFound, SendFileNoMetadata, AcceptFile,
       CancelRecv, CancelSend
  <1>2. UNCHANGED <<link, wire>>
    BY <1>1 DEF connVars
  <1>3. Shut(link, wire)'
    BY <1>2, EventShut
  <1>4. OrderInv'
    BY SendFileOrder, SendFileNothingOrder, AcceptFileOrder, CancelRecvOrder,
       CancelSendOrder, ZenonT(60)
  <1> QED BY <1>3, <1>4

\* HandlerEvent, but for AcceptedTwice
LEMMA EventSteps ==
  ASSUME Ripe, OneConnection, KeysApart,
         NEW p \in Peers, NEW q \in Peers, NEW c \in Conns,
         \/ OnIncomingFile(p, q, c) \/ OnRecvProgressed(p, q, c)
         \/ OnFileSendAccepted(p, q, c) \/ OnSendProgressed(p, q, c)
         \/ OnRemoteCancelSend(p, q, c) \/ OnRemoteCancelRecv(p, q, c)
         \/ OnOutboundNegotiated(p, q, c)
         \/ \E t \in {"Error", "InboundNegotiated"} : OnReport(p, q, c, t)
  PROVE  OrderInv' /\ Shut(link, wire)'
  <1>1. TakeEvent(p, q, c)
    BY Zenon DEF OnIncomingFile, OnRecvProgressed, OnFileSendAccepted,
       OnSendProgressed, OnRemoteCancelSend, OnRemoteCancelRecv,
       OnOutboundNegotiated, OnReport
  <1>2. UNCHANGED wire /\ \E e : link' = [link EXCEPT ![<<p, q, c>>].ev = e]
    BY <1>1 DEF TakeEvent
  <1>3. Shut(link, wire)'
    BY <1>2, EventShut
  <1>4. OrderInv'
    BY OnIncomingFileOrder, OnRecvProgressedOrder, OnFileSendAcceptedOrder,
       OnSendProgressedOrder, OnRemoteCancelSendOrder, OnRemoteCancelRecvOrder,
       OnReportOrder, ZenonT(60)
  <1> QED BY <1>3, <1>4

\* Nothing is on its way when the program starts.
LEMMA InitOrder == Init => OrderInv /\ Shut(link, wire)
  <1> SUFFICES ASSUME Init
               PROVE  OrderInv /\ Shut(link, wire)
    OBVIOUS
  <1>1. \A p \in Peers : /\ node[p].pending_handler_event = <<>>
                         /\ node[p].ongoing_recv = {}
    BY DEF Init, InitBehaviour, NewBehaviour
  <1>2. \A l \in Links : /\ link[l].inq = <<>> /\ link[l].ev = <<>>
                         /\ link[l].busy = <<>> /\ wire[l] = <<>>
    BY DEF Init, NewHandler
  <1>3. Shut(link, wire) /\ Tied(node, link, wire)
    BY <1>2 DEF Shut, Tied, Float
  <1>4. \A p, x \in Peers : \A id, b : ~Under(node, link, wire, p, x, id, b)
    <2>1. \A p, x \in Peers : \A c \in Conns : <<p, x, c>> \in Links
      BY DEF Links
    <2>2. \A l \in Links : \A id, b : /\ ~Boxed(link, l, id, b)
                                      /\ ~Float(wire, l, id, b)
                                      /\ \A i : ~Got(link, l, i, id, b)
      BY <1>2 DEF Boxed, Float, Got
    <2>3. \A p, x \in Peers : \A id, b : ~Queued(node, p, x, id, b)
      BY <1>1 DEF Queued
    <2> QED BY <2>1, <2>2, <2>3 DEF Under, Rear, Seen
  <1>5. Spent(node, link, wire, panic)
    BY <1>4 DEF Spent
  <1>6. Match(node) /\ Rows(node, link, wire)
    BY <1>1 DEF Match, Rows
  <1> QED BY <1>3, <1>5, <1>6 DEF OrderInv, Order

\* Every step keeps the invariant.
LEMMA NextOrder ==
  ASSUME Inv, Inv', FlowInv, ChunkInv, ChunkInv', OneConnection, KeysApart,
         Shut(link, wire), OrderInv, [Next]_vars
  PROVE  OrderInv' /\ Shut(link, wire)'
  <1> DEFINE Upheld == OrderInv' /\ Shut(link, wire)'
  <1>1. Ripe
    BY NextFlow DEF Ripe, ChunkInv
  <1>2. ASSUME NEW p \in Peers, User(p)
        PROVE  Upheld
    <2>1. /\ \A id \in 0..(node[p].recv_counter - 1) : id \in Nat
          /\ \A id \in 0..(node[p].send_counter - 1) : id \in Nat
      BY InvTypes DEF Behaviour
    <2>2. ASSUME NEW q \in Peers, SendFileLate(p, q)
          PROVE  Upheld
      BY <1>1, <2>2, DropOrder DEF SendFileLate
    <2>3. CASE \/ \E q \in Peers, f \in Files : SendFile(p, q, f)
               \/ \E q \in Peers : SendFileNotFound(p, q) \/ SendFileNoMetadata(p, q)
               \/ AcceptFile(p)
               \/ \E id \in Nat : CancelRecv(p, id) \/ CancelSend(p, id)
      BY <1>1, <2>3, UserSteps, Zenon
    <2> HIDE DEF Upheld
    <2> QED BY <1>2, <2>1, <2>2, <2>3, ZenonT(60) DEF User
  <1>3. ASSUME NEW p \in Peers, Poll(p) \/ PollExpiry(p)
        PROVE  Upheld
    BY <1>1, <1>3, PollOrder DEF Poll, PollExpiry
  <1>4. ASSUME NEW p \in Peers, NEW q \in Peers, NEW c \in Conns,
               HandlerEvent(p, q, c)
        PROVE  Upheld
    <2>1. CASE AcceptedTwice(p, q, c)
      BY <1>1, <2>1, DropOrder DEF AcceptedTwice
    <2>2. CASE \/ OnIncomingFile(p, q, c) \/ OnRecvProgressed(p, q, c)
               \/ OnFileSendAccepted(p, q, c) \/ OnSendProgressed(p, q, c)
               \/ OnRemoteCancelSend(p, q, c) \/ OnRemoteCancelRecv(p, q, c)
               \/ OnOutboundNegotiated(p, q, c)
               \/ \E t \in {"Error", "InboundNegotiated"} : OnReport(p, q, c, t)
      BY <1>1, <2>2, EventSteps, Zenon
    <2> HIDE DEF Upheld
    <2> QED BY <1>4, <2>1, <2>2, Zenon DEF HandlerEvent
  <1>5. ASSUME NEW p \in Peers, NEW q \in Peers, NEW c \in Conns,
               Transport(p, q, c) \/ Failure(p, q, c) \/ Connect(p, q, c)
        PROVE  Upheld
    <2>1. CASE \/ OpenStream(p, q, c) \/ Transmit(p, q, c) \/ Arrive(p, q, c)
               \/ Complete(p, q, c) \/ Fail(p, q, c) \/ Connect(p, q, c)
      BY <1>1, <2>1, OpenStreamOrder, TransmitOrder, ArriveOrder, CompleteOrder,
         FailOrder, ConnectOrder, ZenonT(60)
    <2>2. CASE ConnectionLost(p, q, c) \/ ConnectionNoticed(p, q, c)
      BY <1>1, <2>2, CloseOrder, Zenon
    <2> HIDE DEF Upheld
    <2> QED BY <1>5, <2>1, <2>2, Zenon DEF Transport, Failure
  <1>6. ASSUME NEW p \in Peers, Restart(p)
        PROVE  Upheld
    BY <1>1, <1>6, RestartOrder
  <1>7. ASSUME UNCHANGED vars
        PROVE  Upheld
    <2>1. UNCHANGED <<node, link, wire, panic, restarts>>
      BY <1>7 DEF vars
    <2>2. OrderInv'
      BY <2>1 DEF OrderInv
    <2>3. Shut(link, wire)'
      BY <2>1
    <2> QED BY <2>2, <2>3
  <1> HIDE DEF Upheld
  <1>8. Upheld
    BY <1>2, <1>3, <1>4, <1>5, <1>6, <1>7, Zenon DEF Next
  <1> QED BY <1>8 DEF Upheld

-----------------------------------------------------------------------------
(* The theorems. *)

\* What has been written is a beginning of the file.
LEMMA WrotePrefix ==
  ASSUME NEW o \in OngoingRecv, Wrote(o)
  PROVE  /\ Len(o.data) <= FileData[o.file]
         /\ o.data = SubSeq(Content(o.file), 1, Len(o.data))
  <1> DEFINE d == o.data
             f == o.file
             n == Len(d)
             t == SubSeq(Content(f), 1, n)
  <1>1. d \in Seq(Chunk) /\ f \in Files /\ FileData[f] \in Nat /\ n \in Nat
    BY FilesAssumption DEF OngoingRecv
  <1>2. n <= FileData[f] /\ \A i \in 1..n : d[i] = <<f, i>>
    BY DEF Wrote
  <1> HIDE DEF d, f, n
  <1>3. \A i \in 1..n : Content(f)[i] = <<f, i>>
    BY <1>1, <1>2 DEF Content
  <1>4. \A i \in 1..n : <<f, i>> \in Chunk
    BY <1>1 DEF Chunk
  <1>5. \A i \in 1..n : Content(f)[i] \in Chunk
    BY <1>3, <1>4
  <1>6. /\ t \in Seq(Chunk) /\ Len(t) = IF 1 <= n THEN n - 1 + 1 ELSE 0
        /\ \A i \in 1..(n - 1 + 1) : t[i] = Content(f)[1 + i - 1]
    <2> DEFINE s == Content(f)
    <2>1. 1 \in Int /\ n \in Int /\ \A i \in 1..n : s[i] \in Chunk
      BY <1>1, <1>5
    <2> HIDE DEF s
    <2>2. /\ SubSeq(s, 1, n) \in Seq(Chunk)
          /\ Len(SubSeq(s, 1, n)) = IF 1 <= n THEN n - 1 + 1 ELSE 0
          /\ \A i \in 1..(n - 1 + 1) : SubSeq(s, 1, n)[i] = s[1 + i - 1]
      BY <2>1, SubSeqProperties
    <2> QED BY <2>2 DEF s
  <1> HIDE DEF t
  <1>7. Len(t) = n /\ \A i \in 1..n : t[i] = d[i]
    <2>1. Len(t) = n
      BY <1>1, <1>6
    <2>2. n - 1 + 1 = n /\ \A i \in 1..n : 1 + i - 1 = i
      BY <1>1
    <2>3. \A i \in 1..n : t[i] = Content(f)[i]
      BY <1>6, <2>2
    <2> QED BY <1>2, <1>3, <2>1, <2>3
  <1>8. d = t
    BY <1>1, <1>6, <1>7, SeqEqual DEF n
  <1> QED BY <1>2, <1>8 DEF d, f, n, t

\* The order of the chunks, with any number of peers and files, whatever is
\* cancelled, expires or fails: as long as two peers have one connection at a
\* time (OneConnection), no two senders share a key of ongoing_recv
\* (KeysApart) and no peer is restarted, what a receiver has written is a
\* beginning of the file that was announced.
THEOREM WrittenInOrder ==
  ASSUME OneConnection
  PROVE  Spec /\ []KeysApart => [](restarts = 0 => WrittenIsPrefix)
  <1>1. Spec => []Inv
    BY InvHolds
  <1>2. Spec => []FlowInv
    BY FlowHolds
  <1>3. Spec => []ChunkInv
    BY ChunksHold
  <1>4. Init => OrderInv /\ Shut(link, wire)
    BY InitOrder
  <1>5. Inv /\ Inv' /\ FlowInv /\ ChunkInv /\ ChunkInv' /\ KeysApart
        /\ OrderInv /\ Shut(link, wire) /\ [Next]_vars
        => OrderInv' /\ Shut(link, wire)'
    BY NextOrder
  <1>6. Inv /\ OrderInv => (restarts = 0 => WrittenIsPrefix)
    <2> SUFFICES ASSUME Inv, OrderInv, restarts = 0,
                        NEW p \in Peers, NEW o \in node[p].ongoing_recv
                 PROVE  /\ Len(o.data) <= FileData[o.file]
                        /\ o.data = SubSeq(Content(o.file), 1, Len(o.data))
      BY DEF WrittenIsPrefix
    <2>1. o \in OngoingRecv
      BY InvTypes, RecvType
    <2>2. Wrote(o)
      BY DEF OrderInv, Order, Rows, Row
    <2> QED BY <2>1, <2>2, WrotePrefix
  <1> QED BY <1>1, <1>2, <1>3, <1>4, <1>5, <1>6, PTL DEF Spec

\* No peer is connected to itself.
Apart == \A p \in Peers : conn[p][p] = {}

\* Up and Connect are about two peers.
LEMMA ApartHolds == Spec => []Apart
  <1>1. Init => Apart
    <2> SUFFICES ASSUME Init, NEW p \in Peers
                 PROVE  conn[p][p] = {}
      BY DEF Apart
    <2>1. conn[p][p] = {c \in Conns : <<p, p, c>> \in Up}
      BY DEF Init
    <2>2. ASSUME NEW c \in Conns, <<p, p, c>> \in Up
          PROVE  FALSE
      BY <2>2, UpAssumption
    <2> QED BY <2>1, <2>2
  <1>2. Inv /\ Apart /\ [Next]_vars => Apart'
    <2> SUFFICES ASSUME Inv, Apart, [Next]_vars
                 PROVE  Apart'
      OBVIOUS
    <2>1. conn \in [Peers -> [Peers -> SUBSET Conns]]
      BY DEF Inv, NetType
    <2>2. ASSUME NEW p \in Peers, NEW q \in Peers, NEW c \in Conns, Connect(p, q, c)
          PROVE  Apart'
      BY <2>1, <2>2 DEF Connect, Apart
    <2>3. ASSUME NEW p \in Peers, NEW q \in Peers, NEW c \in Conns,
                 ConnectionLost(p, q, c) \/ ConnectionNoticed(p, q, c)
          PROVE  Apart'
      BY <2>1, <2>3 DEF ConnectionLost, ConnectionNoticed, Close, Apart
    <2>4. ASSUME NEW p \in Peers, Drop(p)
          PROVE  Apart'
      BY <2>1, <2>4 DEF Drop, Apart
    <2>5. ASSUME UNCHANGED conn
          PROVE  Apart'
      BY <2>5 DEF Apart
    <2>6. ASSUME NEW p \in Peers, User(p) \/ Restart(p)
          PROVE  UNCHANGED conn \/ Drop(p)
      BY <2>6, ZenonT(60) DEF User, Restart, SendFile, SendFileNotFound, SendFileLate,
         SendFileNoMetadata, AcceptFile, CancelRecv, CancelSend, connVars
    <2>7. ASSUME NEW p \in Peers, Poll(p) \/ PollExpiry(p)
          PROVE  UNCHANGED conn
      BY <2>7 DEF Poll, PollExpiry, PollWith
    <2>8. ASSUME NEW p \in Peers, NEW q \in Peers, NEW c \in Conns,
                 HandlerEvent(p, q, c)
          PROVE  UNCHANGED conn \/ Drop(p)
      BY <2>8, ZenonT(60) DEF HandlerEvent, OnIncomingFile, OnRecvProgressed,
         OnFileSendAccepted, AcceptedTwice, OnSendProgressed, OnRemoteCancelSend,
         OnRemoteCancelRecv, OnOutboundNegotiated, OnReport, TakeEvent
    <2>9. ASSUME NEW p \in Peers, NEW q \in Peers, NEW c \in Conns,
                 Transport(p, q, c) \/ Failure(p, q, c)
          PROVE  \/ UNCHANGED conn
                 \/ ConnectionLost(p, q, c) \/ ConnectionNoticed(p, q, c)
      BY <2>9, ZenonT(60) DEF Transport, Failure, OpenStream, Transmit, Arrive,
         Complete, Fail
    <2>10. UNCHANGED vars => UNCHANGED conn
      BY DEF vars
    <2> QED BY <2>2, <2>3, <2>4, <2>5, <2>6, <2>7, <2>8, <2>9, <2>10, ZenonT(60)
         DEF Next
  <1> QED BY <1>1, <1>2, InvHolds, PTL DEF Spec

\* There are two peers at most.
TwoPeers == \A p, a, b \in Peers : a # p /\ b # p => a = b

\* Of two peers, each has only the other one's sends in its ongoing_recv.
LEMMA TwoPeersApart ==
  ASSUME TwoPeers
  PROVE  Spec => []KeysApart
  <1>1. Inv /\ ChunkInv /\ Apart => KeysApart
    <2> SUFFICES ASSUME Inv, ChunkInv, Apart,
                        NEW p \in Peers, NEW q \in Peers, NEW c \in Conns,
                        NEW i \in DOMAIN link[<<p, q, c>>].ev,
                        NEW o \in node[p].ongoing_recv
                 PROVE  o.remote = q
      BY DEF KeysApart
    <2> DEFINE l == <<p, q, c>>
    <2>1. l \in Links /\ l[1] = p /\ l[2] = q /\ l[3] = c
      BY DEF Links
    <2>2. NewHandler.ev = <<>>
      BY DEF NewHandler
    <2>3. link[l] # NewHandler
      BY <2>2
    <2>4. c \in conn[p][q]
      <3> HIDE DEF l
      <3> QED BY <2>1, <2>3 DEF ChunkInv, Plugged
    <2>5. q # p
      BY <2>4 DEF Apart
    <2>6. o.remote \in Linked(p)
      BY DEF Inv, NodeInv, Good, Held, Recvs
    <2>7. o.remote # p /\ o.remote \in Peers
      BY <2>6 DEF Linked, Apart
    <2> QED BY <2>5, <2>7 DEF TwoPeers
  <1> QED BY <1>1, InvHolds, ChunksHold, ApartHolds, PTL

\* The same for two peers, without a condition on keys: of two peers, each has
\* only the other one's sends in its ongoing_recv.
THEOREM TwoPeersWriteInOrder ==
  ASSUME OneConnection, TwoPeers
  PROVE  Spec => [](restarts = 0 => WrittenIsPrefix)
  <1>1. Spec => []KeysApart
    BY TwoPeersApart
  <1>2. Spec /\ []KeysApart => [](restarts = 0 => WrittenIsPrefix)
    BY WrittenInOrder
  <1> QED BY <1>1, <1>2, PTL

-----------------------------------------------------------------------------
(* The end of a recv.  Only OnRecvProgressed tells the user that a recv is *)
(* complete, and what a record says of the size of its file is what the    *)
(* sender announced.                                                       *)

\* What is new in y, if anything, ends with no report of progress.
Coy(z, y) ==
  y # <<>> /\ Len(y) > Len(z) => y[Len(y)].type # "RecvProgressed"

\* Every ongoing recv was there before, with its file and size.
Sizes(b, a) ==
  \A o \in a.ongoing_recv : \E r \in Recvs(b) :
    r.file = o.file /\ r.bytes_total = o.bytes_total

Modest(b, a) == Coy(b.out_events, a.out_events) /\ Sizes(b, a)

\* One event for the user, or none.
Utters(z, y) ==
  \/ y = z
  \/ \E t, id, n : /\ t # "RecvProgressed"
                   /\ y = Append(z, [type |-> t, id |-> id, n |-> n])

\* The last element of a longer sequence.
LEMMA UttersCoy ==
  ASSUME NEW S, NEW z \in Seq(S), NEW y, Utters(z, y)
  PROVE  Coy(z, y)
  <1>1. CASE y = z
    <2>1. Len(z) \in Nat
      OBVIOUS
    <2> QED BY <1>1, <2>1 DEF Coy
  <1>2. ASSUME NEW t, NEW id, NEW n, t # "RecvProgressed",
               y = Append(z, [type |-> t, id |-> id, n |-> n])
        PROVE  Coy(z, y)
    <2> DEFINE e == [type |-> t, id |-> id, n |-> n]
    <2>1. e.type # "RecvProgressed"
      BY <1>2
    <2> HIDE DEF e
    <2>2. Append(z, e)[Len(Append(z, e))] = e
      OBVIOUS
    <2> QED BY <1>2, <2>1, <2>2 DEF Coy, e
  <1> QED BY <1>1, <1>2, Zenon DEF Utters

\* A method that keeps the ongoing recvs, or ends some.
LEMMA SizesLess ==
  ASSUME NEW b, NEW a, a.ongoing_recv \subseteq b.ongoing_recv
  PROVE  Sizes(b, a)
  BY DEF Sizes, Recvs

\* Nothing happens to a Behaviour.
LEMMA ModestSame ==
  ASSUME NEW b \in Behaviour
  PROVE  Modest(b, b)
  <1>1. b.out_events \in Seq(OutEvent)
    BY DEF Behaviour
  <1>2. Coy(b.out_events, b.out_events)
    BY <1>1, UttersCoy DEF Utters
  <1> QED BY <1>2, SizesLess DEF Modest

\* One method of p.
LEMMA SetModest ==
  ASSUME Inv, NEW p \in Peers, NEW a, Set(p, a),
         Utters(node[p].out_events, a.out_events), Sizes(node[p], a)
  PROVE  \A x \in Peers : Modest(node[x], node'[x])
  <1>1. node[p].out_events \in Seq(OutEvent)
    BY InvTypes DEF Behaviour
  <1>2. Modest(node[p], a)
    BY <1>1, UttersCoy DEF Modest
  <1> QED BY <1>2, SetAt, InvTypes, ModestSame

\* A method that says nothing and keeps the ongoing recvs, or ends some.
LEMMA HushModest ==
  ASSUME Inv, NEW p \in Peers, NEW a, Set(p, a),
         a.out_events = node[p].out_events,
         a.ongoing_recv \subseteq node[p].ongoing_recv
  PROVE  \A x \in Peers : Modest(node[x], node'[x])
  <1>1. Utters(node[p].out_events, a.out_events)
    BY DEF Utters
  <1> QED BY <1>1, SizesLess, SetModest

\* The same, but it says t.
LEMMA SayModest ==
  ASSUME Inv, NEW p \in Peers, NEW a, Set(p, a), NEW t, NEW id, NEW n,
         t # "RecvProgressed",
         a.out_events = Append(node[p].out_events,
                               [type |-> t, id |-> id, n |-> n]),
         a.ongoing_recv \subseteq node[p].ongoing_recv
  PROVE  \A x \in Peers : Modest(node[x], node'[x])
  <1>1. Utters(node[p].out_events, a.out_events)
    BY Zenon DEF Utters
  <1> QED BY <1>1, SizesLess, SetModest

\* User, but for SendFileLate
LEMMA UserModest ==
  ASSUME Inv, NEW p \in Peers,
         \/ \E q \in Peers, f \in Files : SendFile(p, q, f)
         \/ \E q \in Peers : SendFileNotFound(p, q) \/ SendFileNoMetadata(p, q)
         \/ AcceptFile(p)
         \/ \E id \in Nat : CancelRecv(p, id) \/ CancelSend(p, id)
  PROVE  \A x \in Peers : Modest(node[x], node'[x])
  <1> DEFINE b == node[p]
             Goal == \A x \in Peers : Modest(node[x], node'[x])
  <1>1. b \in Behaviour
    BY InvTypes
  <1>2. ASSUME NEW q, NEW f, Set(p, queue_send(b, q, f))
        PROVE  Goal
    <2> DEFINE a == queue_send(b, q, f)
    <2>1. a.out_events = b.out_events /\ a.ongoing_recv = b.ongoing_recv
      BY <1>1 DEF queue_send, next_send_id, Notify, Behaviour
    <2> HIDE DEF a
    <2> QED BY <1>2, <2>1, HushModest DEF a, b
  <1>3. ASSUME Set(p, next_send_id(b))
        PROVE  Goal
    <2> DEFINE a == next_send_id(b)
    <2>1. a.out_events = b.out_events /\ a.ongoing_recv = b.ongoing_recv
      BY <1>1 DEF next_send_id, Behaviour
    <2> HIDE DEF a
    <2> QED BY <1>3, <2>1, HushModest DEF a, b
  <1>4. ASSUME NEW r \in b.pending_recv, Set(p, accept_pending_recv(b, r))
        PROVE  Goal
    <2> DEFINE a == accept_pending_recv(b, r)
               o == [local_recv_id |-> r.local_recv_id,
                     remote_send_id |-> r.remote_send_id, remote |-> r.remote,
                     file |-> r.file, bytes_total |-> r.bytes_total,
                     data |-> <<>>]
    <2>1. /\ a.out_events = b.out_events
          /\ \A y \in a.ongoing_recv : y \in b.ongoing_recv \/ y = o
      BY <1>1 DEF accept_pending_recv, Notify, Behaviour
    <2>2. o.file = r.file /\ o.bytes_total = r.bytes_total
      OBVIOUS
    <2> HIDE DEF a, o
    <2>3. Sizes(b, a)
      BY <2>1, <2>2 DEF Sizes, Recvs
    <2>4. Utters(b.out_events, a.out_events)
      BY <2>1 DEF Utters
    <2> QED BY <1>4, <2>3, <2>4, SetModest DEF a, b
  <1>5. ASSUME NEW id, NEW r, Set(p, cancel_recv_by_local_recv_id(b, id, r))
        PROVE  Goal
    <2> DEFINE a == cancel_recv_by_local_recv_id(b, id, r)
    <2>1. /\ a.out_events = Append(b.out_events, [type |-> "CancelledRecv",
                                                  id |-> id, n |-> 0])
          /\ a.ongoing_recv = b.ongoing_recv \ {r}
      BY <1>1 DEF cancel_recv_by_local_recv_id, Emit, Notify, Behaviour
    <2>2. "CancelledRecv" # "RecvProgressed"
      OBVIOUS
    <2> HIDE DEF a
    <2>3. a.ongoing_recv \subseteq b.ongoing_recv
      BY <2>1
    <2> QED BY <1>5, <2>1, <2>2, <2>3, SayModest DEF a, b
  <1>6. ASSUME NEW s, Set(p, cancel_send_by_local_send_id(b, s))
        PROVE  Goal
    <2> DEFINE a == cancel_send_by_local_send_id(b, s)
    <2>1. a.out_events = b.out_events /\ a.ongoing_recv = b.ongoing_recv
      BY <1>1 DEF cancel_send_by_local_send_id, Notify, Behaviour
    <2> HIDE DEF a
    <2> QED BY <1>6, <2>1, HushModest DEF a, b
  <1> HIDE DEF Goal, b
  <1>7. Goal
    BY <1>2, <1>3, <1>4, <1>5, <1>6, ZenonT(60) DEF SendFile, SendFileNotFound,
       SendFileNoMetadata, AcceptFile, CancelRecv, CancelSend, b
  <1> QED BY <1>7 DEF Goal

\* HandlerEvent, but for AcceptedTwice and OnRecvProgressed
LEMMA EventModest ==
  ASSUME Inv, NEW p \in Peers, NEW q \in Peers, NEW c \in Conns,
         \/ OnIncomingFile(p, q, c) \/ OnFileSendAccepted(p, q, c)
         \/ OnSendProgressed(p, q, c) \/ OnRemoteCancelSend(p, q, c)
         \/ OnRemoteCancelRecv(p, q, c) \/ OnOutboundNegotiated(p, q, c)
         \/ \E t \in {"Error", "InboundNegotiated"} : OnReport(p, q, c, t)
  PROVE  \A x \in Peers : Modest(node[x], node'[x])
  <1> DEFINE b == node[p]
             e == NextEvent(p, q, c)
             Goal == \A x \in Peers : Modest(node[x], node'[x])
  <1>1. b \in Behaviour
    BY InvTypes
  <1>2. ASSUME UNCHANGED node
        PROVE  Goal
    BY <1>2, InvTypes, ModestSame
  <1>3. /\ "IncomingFile" # "RecvProgressed" /\ "SendProgressed" # "RecvProgressed"
        /\ "CancelledSend" # "RecvProgressed" /\ "CancelledRecv" # "RecvProgressed"
        /\ "OutboundNegotiated" # "RecvProgressed" /\ "Error" # "RecvProgressed"
        /\ "InboundNegotiated" # "RecvProgressed"
    OBVIOUS
  <1> HIDE DEF Goal
  <1>4. ASSUME OnIncomingFile(p, q, c)
        PROVE  Goal
    <2> DEFINE a == on_new_pending_recv(b, q, e.id, e.body[1][1], e.body[1][2])
    <2>1. Set(p, a)
      BY <1>4, Zenon DEF OnIncomingFile
    <2>2. /\ a.out_events = Append(b.out_events, [type |-> "IncomingFile", id |-> b.recv_counter, n |-> e.body[1][2]])
          /\ a.ongoing_recv = b.ongoing_recv
      BY <1>1 DEF on_new_pending_recv, Emit, Behaviour
    <2> HIDE DEF a
    <2>3. a.ongoing_recv \subseteq node[p].ongoing_recv
      BY <2>2
    <2> QED BY <1>3, <2>1, <2>2, <2>3, SayModest DEF Goal
  <1>5. ASSUME OnFileSendAccepted(p, q, c)
        PROVE  Goal
    <2> DEFINE d(s) == pending_send_accepted(b, s)
               ok(s) == Emit(progress_ongoing_send(d(s), started(s)),
                             "SendProgressed", e.id, 0)
               bad(s) == Emit(fail_ongoing_send(d(s), started(s)),
                              "SendProgressed", e.id, 0)
    <2>1. \/ UNCHANGED node
          \/ \E s \in b.pending_send : Set(p, ok(s)) \/ Set(p, bad(s))
      BY <1>5, Zenon DEF OnFileSendAccepted
    <2>2. ASSUME NEW s, NEW a, a = ok(s) \/ a = bad(s)
          PROVE  /\ a.out_events = Append(b.out_events, [type |-> "SendProgressed", id |-> e.id, n |-> 0])
                 /\ a.ongoing_recv = b.ongoing_recv
      <3>1. /\ d(s).out_events = b.out_events /\ d(s).ongoing_recv = b.ongoing_recv
            /\ DOMAIN d(s) = DOMAIN b
        BY <1>1 DEF pending_send_accepted, Behaviour
      <3> HIDE DEF d
      <3>2. /\ "out_events" \in DOMAIN d(s) /\ "ongoing_recv" \in DOMAIN d(s)
            /\ "pending_handler_event" \in DOMAIN d(s)
            /\ "ongoing_send" \in DOMAIN d(s)
        BY <1>1, <3>1 DEF Behaviour
      <3> QED BY <2>2, <3>1, <3>2 DEF progress_ongoing_send, fail_ongoing_send,
                Emit, Notify
    <2> HIDE DEF ok, bad, e
    <2>3. ASSUME NEW s, NEW a, a = ok(s) \/ a = bad(s), Set(p, a)
          PROVE  Goal
      <3> HIDE DEF b
      <3>1. /\ a.ongoing_recv = b.ongoing_recv
            /\ \E n : a.out_events = Append(b.out_events, [type |-> "SendProgressed",
                                                         id |-> e.id, n |-> n])
        BY <2>2, <2>3, Zenon
      <3>2. a.ongoing_recv \subseteq b.ongoing_recv
        BY <3>1
      <3> QED BY <1>3, <2>3, <3>1, <3>2, SayModest DEF Goal, b
    <2> QED BY <1>2, <2>1, <2>3, Zenon
  <1>6. ASSUME OnSendProgressed(p, q, c)
        PROVE  Goal
    <2> DEFINE d(s) == Emit(b, "SendProgressed", e.id, s.bytes_sent)
               ok(s) == progress_ongoing_send(d(s), s)
               bad(s) == fail_ongoing_send(d(s), s)
    <2>1. \/ UNCHANGED node
          \/ \E s \in b.ongoing_send : Set(p, ok(s)) \/ Set(p, bad(s))
      BY <1>6, Zenon DEF OnSendProgressed
    <2>2. ASSUME NEW s, NEW a, a = ok(s) \/ a = bad(s)
          PROVE  /\ a.out_events =
                      Append(b.out_events, [type |-> "SendProgressed", id |-> e.id, n |-> s.bytes_sent])
                 /\ a.ongoing_recv = b.ongoing_recv
      <3>1. /\ d(s).out_events =
                 Append(b.out_events, [type |-> "SendProgressed", id |-> e.id, n |-> s.bytes_sent])
            /\ d(s).ongoing_recv = b.ongoing_recv
            /\ DOMAIN d(s) = DOMAIN b
        BY <1>1 DEF Emit, Behaviour
      <3> HIDE DEF d
      <3>2. /\ "out_events" \in DOMAIN d(s) /\ "ongoing_recv" \in DOMAIN d(s)
            /\ "pending_handler_event" \in DOMAIN d(s)
            /\ "ongoing_send" \in DOMAIN d(s)
        BY <1>1, <3>1 DEF Behaviour
      <3> QED BY <2>2, <3>1, <3>2 DEF progress_ongoing_send, fail_ongoing_send,
                Notify
    <2> HIDE DEF ok, bad, e
    <2>3. ASSUME NEW s, NEW a, a = ok(s) \/ a = bad(s), Set(p, a)
          PROVE  Goal
      <3> HIDE DEF b
      <3>1. /\ a.ongoing_recv = b.ongoing_recv
            /\ \E n : a.out_events = Append(b.out_events, [type |-> "SendProgressed",
                                                         id |-> e.id, n |-> n])
        BY <2>2, <2>3, Zenon
      <3>2. a.ongoing_recv \subseteq b.ongoing_recv
        BY <3>1
      <3> QED BY <1>3, <2>3, <3>1, <3>2, SayModest DEF Goal, b
    <2> QED BY <1>2, <2>1, <2>3, Zenon
  <1>7. ASSUME OnRemoteCancelSend(p, q, c)
        PROVE  Goal
    <2> DEFINE d == Emit(b, "CancelledSend", e.id, 0)
               r == send_record(d, e.id)
               a == [d EXCEPT !.pending_send = @ \ r, !.ongoing_send = @ \ r]
    <2>1. Set(p, a)
      BY <1>7, Zenon DEF OnRemoteCancelSend
    <2> HIDE DEF r
    <2>2. /\ a.out_events = Append(b.out_events, [type |-> "CancelledSend", id |-> e.id, n |-> 0])
          /\ a.ongoing_recv = b.ongoing_recv
      BY <1>1 DEF Emit, Behaviour
    <2> HIDE DEF a
    <2>3. a.ongoing_recv \subseteq node[p].ongoing_recv
      BY <2>2
    <2> QED BY <1>3, <2>1, <2>2, <2>3, SayModest DEF Goal
  <1>8. ASSUME OnRemoteCancelRecv(p, q, c)
        PROVE  Goal
    <2> DEFINE drop(r) == Emit([b EXCEPT !.pending_recv = @ \ {r}],
                               "CancelledRecv", r.remote_send_id, 0)
    <2>1. \/ \E o \in b.ongoing_recv : Set(p, end_recv(b, o, "CancelledRecv", 0))
          \/ \E r \in b.pending_recv : Set(p, drop(r))
          \/ UNCHANGED node
      BY <1>8, Zenon DEF OnRemoteCancelRecv
    <2>2. ASSUME NEW r, NEW a, Set(p, a),
                 a = end_recv(b, r, "CancelledRecv", 0) \/ a = drop(r)
          PROVE  Goal
      <3>1. /\ \E id : a.out_events = Append(b.out_events, [type |-> "CancelledRecv", id |-> id, n |-> 0])
            /\ a.ongoing_recv \subseteq b.ongoing_recv
        BY <1>1, <2>2 DEF end_recv, Emit, Behaviour
      <3>2. PICK id : a.out_events = Append(b.out_events, [type |-> "CancelledRecv",
                                                           id |-> id, n |-> 0])
        BY <3>1, Zenon
      <3> QED BY <1>3, <2>2, <3>1, <3>2, SayModest DEF Goal
    <2> HIDE DEF drop
    <2> QED BY <1>2, <2>1, <2>2, Zenon
  <1>9. ASSUME OnOutboundNegotiated(p, q, c)
        PROVE  Goal
    <2> DEFINE a == Emit([b EXCEPT !.connected_peers = @ \cup {q}],
                         "OutboundNegotiated", 0, 0)
    <2>1. Set(p, a)
      BY <1>9, Zenon DEF OnOutboundNegotiated
    <2>2. /\ a.out_events = Append(b.out_events, [type |-> "OutboundNegotiated", id |-> 0, n |-> 0])
          /\ a.ongoing_recv = b.ongoing_recv
      BY <1>1 DEF Emit, Behaviour
    <2> HIDE DEF a
    <2>3. a.ongoing_recv \subseteq node[p].ongoing_recv
      BY <2>2
    <2> QED BY <1>3, <2>1, <2>2, <2>3, SayModest DEF Goal
  <1>10. ASSUME NEW t \in {"Error", "InboundNegotiated"}, OnReport(p, q, c, t)
         PROVE  Goal
    <2> DEFINE a == Emit(b, t, 0, 0)
    <2>1. Set(p, a)
      BY <1>10, Zenon DEF OnReport
    <2>2. /\ a.out_events = Append(b.out_events, [type |-> t, id |-> 0, n |-> 0])
          /\ a.ongoing_recv = b.ongoing_recv
      BY <1>1 DEF Emit, Behaviour
    <2> HIDE DEF a
    <2>3. a.ongoing_recv \subseteq node[p].ongoing_recv
      BY <2>2
    <2>4. t # "RecvProgressed"
      BY <1>3, <1>10
    <2> QED BY <2>1, <2>2, <2>3, <2>4, SayModest DEF Goal
  <1> HIDE DEF b, e
  <1>11. ASSUME \E t \in {"Error", "InboundNegotiated"} : OnReport(p, q, c, t)
         PROVE  Goal
    BY <1>10, <1>11, Zenon
  <1>12. Goal
    BY <1>4, <1>5, <1>6, <1>7, <1>8, <1>9, <1>11
  <1> QED BY <1>12 DEF Goal

\* OnRecvProgressed, in the one case that tells the user that o is complete.
Finishes(p, q, c, o) ==
  /\ HasEvent(p, q, c, "RecvProgressed")
  /\ o.remote_send_id = NextEvent(p, q, c).id
  /\ NextEvent(p, q, c).body = <<>> /\ all_received(o)
  /\ Set(p, end_recv(node[p], o, "RecvProgressed", o.bytes_total))

\* OnRecvProgressed, in the other cases.
LEMMA RecvModest ==
  ASSUME Inv, NEW p \in Peers, NEW q \in Peers, NEW c \in Conns,
         OnRecvProgressed(p, q, c)
  PROVE  \/ \A x \in Peers : Modest(node[x], node'[x])
         \/ \E o \in node[p].ongoing_recv : Finishes(p, q, c, o)
  <1> DEFINE b == node[p]
             e == NextEvent(p, q, c)
             Goal == \/ \A x \in Peers : Modest(node[x], node'[x])
                     \/ \E o \in node[p].ongoing_recv : Finishes(p, q, c, o)
  <1>1. b \in Behaviour
    BY InvTypes
  <1>2. ASSUME UNCHANGED node
        PROVE  Goal
    BY <1>2, InvTypes, ModestSame
  <1>3. ASSUME NEW o \in b.ongoing_recv, NEW t, t # "RecvProgressed",
               Set(p, end_recv(b, o, t, 0))
        PROVE  Goal
    <2> DEFINE a == end_recv(b, o, t, 0)
    <2>1. /\ a.out_events = Append(b.out_events, [type |-> t, id |-> o.local_recv_id,
                                                  n |-> 0])
          /\ a.ongoing_recv = b.ongoing_recv \ {o}
      BY <1>1 DEF end_recv, Emit, Behaviour
    <2> HIDE DEF a
    <2>2. a.ongoing_recv \subseteq b.ongoing_recv
      BY <2>1
    <2> QED BY <1>3, <2>1, <2>2, SayModest DEF a
  <1>4. ASSUME NEW o \in b.ongoing_recv, NEW d, Set(p, write_chunk(b, o, d))
        PROVE  Goal
    <2> DEFINE a == write_chunk(b, o, d)
               r == [o EXCEPT !.data = @ \o d]
    <2>1. o \in OngoingRecv
      BY <1>1 DEF Behaviour
    <2>2. r.file = o.file /\ r.bytes_total = o.bytes_total
      BY <2>1 DEF OngoingRecv
    <2>3. /\ a.out_events = b.out_events
          /\ a.ongoing_recv = (b.ongoing_recv \ {o}) \cup {r}
      BY <1>1 DEF write_chunk, Behaviour
    <2> HIDE DEF a, r
    <2>4. Utters(b.out_events, a.out_events)
      BY <2>3 DEF Utters
    <2>5. Sizes(b, a)
      BY <2>2, <2>3 DEF Sizes, Recvs
    <2> QED BY <1>4, <2>4, <2>5, SetModest DEF a
  <1>5. ASSUME NEW o \in b.ongoing_recv, o.remote_send_id = e.id,
               e.body = <<>>, all_received(o), HasEvent(p, q, c, "RecvProgressed"),
               Set(p, end_recv(b, o, "RecvProgressed", o.bytes_total))
        PROVE  Goal
    BY <1>5, Zenon DEF Finishes
  <1>6. "UnexpectedEOF" # "RecvProgressed" /\ "OngoingRecvError" # "RecvProgressed"
    OBVIOUS
  <1> HIDE DEF Goal
  <1>7. Goal
    BY <1>2, <1>3, <1>4, <1>5, <1>6, ZenonT(60) DEF OnRecvProgressed
  <1> QED BY <1>7 DEF Goal

\* What is added to a sequence is not the report of a recv's progress.
LEMMA GrewCoy ==
  ASSUME NEW S, NEW z \in Seq(S), NEW Q \in SUBSET S, NEW y1 \in Seq(Q),
         NEW y2 \in Seq(Q), \A e \in Q : e.type # "RecvProgressed"
  PROVE  Coy(z, Tail(z \o y1 \o y2)) \/ z \o y1 \o y2 = <<>>
  <1> DEFINE y == y1 \o y2
             t == z \o y1 \o y2
  <1>1. y \in Seq(Q) /\ y \in Seq(S)
    OBVIOUS
  <1>2. t = z \o y /\ t \in Seq(S)
    OBVIOUS
  <1> HIDE DEF y, t
  <1>3. /\ Len(z \o y) = Len(z) + Len(y) /\ Len(z) \in Nat /\ Len(y) \in Nat
        /\ \A i \in 1..Len(y) : (z \o y)[Len(z) + i] = y[i] /\ y[i] \in Q
    BY <1>1
  <1>4. SUFFICES ASSUME t # <<>>, Len(Tail(t)) > Len(z)
                 PROVE  Tail(t)[Len(Tail(t))].type # "RecvProgressed"
    BY DEF Coy, t
  <1>5. Len(Tail(t)) = Len(t) - 1 /\ \A i \in 1..(Len(t) - 1) : Tail(t)[i] = t[i + 1]
    BY <1>2, <1>4
  <1>6. Len(t) - 1 \in 1..(Len(t) - 1) /\ Len(y) \in 1..Len(y)
        /\ Len(t) - 1 + 1 = Len(z) + Len(y)
    BY <1>2, <1>3, <1>4, <1>5
  <1>7. Tail(t)[Len(t) - 1] = y[Len(y)] /\ y[Len(y)] \in Q
    BY <1>2, <1>3, <1>5, <1>6
  <1> QED BY <1>5, <1>7

\* Poll, PollExpiry
LEMMA PollModest ==
  ASSUME Inv, NEW p \in Peers, NEW x \in Expiries(node[p]) \cup {NotThrottled},
         PollWith(p, x)
  PROVE  \A y \in Peers : Modest(node[y], node'[y])
  <1> DEFINE b == node[p]
             d == check_expiry(b, x)
             y1 == [i \in DOMAIN x.pr |-> [type |-> "CancelledRecv",
                      id |-> x.pr[i].local_recv_id, n |-> 0]]
             y2 == [i \in DOMAIN x.or |-> [type |-> "CancelledRecv",
                      id |-> x.or[i].remote_send_id, n |-> 0]]
             Q == {v \in OutEvent : v.type = "CancelledRecv"}
  <1>1. b \in Behaviour /\ b.out_events \in Seq(OutEvent)
    BY InvTypes DEF Behaviour
  <1>2. /\ x.pr \in Seq(b.pending_recv) /\ x.or \in Seq(ongoing_recv_hits(b))
    BY <1>1, ExpiriesSeq, Zenon
  <1>3. /\ \A r \in b.pending_recv : r.local_recv_id \in Nat
        /\ \A r \in ongoing_recv_hits(b) : r.remote_send_id \in Nat
    BY <1>1 DEF Behaviour, PendingRecv, OngoingRecv, ongoing_recv_hits
  <1>4. \A n \in Nat : [type |-> "CancelledRecv", id |-> n, n |-> 0] \in Q
    BY DEF OutEvent, OutType
  <1>5. y1 \in Seq(Q)
    <2>1. \A i \in DOMAIN x.pr : x.pr[i].local_recv_id \in Nat
      BY <1>2, <1>3
    <2>2. DOMAIN x.pr = 1..Len(x.pr) /\ Len(x.pr) \in Nat
      BY <1>2
    <2> HIDE DEF Q
    <2> QED BY <1>4, <2>1, <2>2
  <1>6. y2 \in Seq(Q)
    <2>1. \A i \in DOMAIN x.or : x.or[i].remote_send_id \in Nat
      BY <1>2, <1>3
    <2>2. DOMAIN x.or = 1..Len(x.or) /\ Len(x.or) \in Nat
      BY <1>2
    <2> HIDE DEF Q
    <2> QED BY <1>4, <2>1, <2>2
  <1>7. \A v \in Q : v.type # "RecvProgressed"
    OBVIOUS
  <1>8. Q \in SUBSET OutEvent
    OBVIOUS
  <1>9. /\ d.out_events = b.out_events \o y1 \o y2
        /\ d.ongoing_recv \subseteq b.ongoing_recv
        /\ DOMAIN d = DOMAIN b
    BY <1>1 DEF check_expiry, Behaviour
  <1> HIDE DEF y1, y2, Q
  <1>10. Coy(b.out_events, Tail(d.out_events)) \/ d.out_events = <<>>
    BY <1>1, <1>5, <1>6, <1>7, <1>8, <1>9, GrewCoy, ZenonT(60)
  <1> HIDE DEF d
  <1>11. ASSUME NEW a, Set(p, a), Coy(b.out_events, a.out_events),
                a.ongoing_recv = d.ongoing_recv
         PROVE  \A y \in Peers : Modest(node[y], node'[y])
    <2>1. a.ongoing_recv \subseteq b.ongoing_recv
      BY <1>9, <1>11
    <2>2. Modest(b, a)
      BY <1>11, <2>1, SizesLess DEF Modest
    <2> QED BY <1>11, <2>2, SetAt, InvTypes, ModestSame
  <1>12. /\ "out_events" \in DOMAIN d /\ "ongoing_recv" \in DOMAIN d
         /\ "pending_handler_event" \in DOMAIN d
    BY <1>1, <1>9 DEF Behaviour
  <1>13. CASE PollOutEvent(p, x)
    <2> DEFINE a == [d EXCEPT !.out_events = Tail(@)]
    <2>1. Set(p, a) /\ d.out_events # <<>>
      BY <1>13 DEF PollOutEvent, d
    <2>2. a.out_events = Tail(d.out_events) /\ a.ongoing_recv = d.ongoing_recv
      BY <1>12
    <2> HIDE DEF a
    <2> QED BY <1>10, <1>11, <2>1, <2>2
  <1>14. CASE PollHandlerEvent(p, x)
    <2> DEFINE a == [d EXCEPT !.pending_handler_event = Tail(@)]
    <2>1. Set(p, a) /\ d.out_events = <<>>
      BY <1>14 DEF PollHandlerEvent, d
    <2>2. a.out_events = <<>> /\ a.ongoing_recv = d.ongoing_recv
      BY <1>12, <2>1
    <2> HIDE DEF a
    <2>3. Coy(b.out_events, a.out_events)
      BY <2>2 DEF Coy
    <2> QED BY <1>11, <2>1, <2>2, <2>3
  <1> QED BY <1>13, <1>14 DEF PollWith

\* ConnectionLost, ConnectionNoticed
LEMMA CloseModest ==
  ASSUME Inv, NEW p \in Peers, NEW q \in Peers, NEW c \in Conns, Close(p, q, c)
  PROVE  \A x \in Peers : Modest(node[x], node'[x])
  <1>1. CASE UNCHANGED node
    BY <1>1, InvTypes, ModestSame
  <1>2. CASE Set(p, on_disconnect(node[p], q))
    <2> DEFINE a == on_disconnect(node[p], q)
    <2>1. /\ a.out_events = node[p].out_events
          /\ a.ongoing_recv \subseteq node[p].ongoing_recv
      BY InvTypes DEF on_disconnect, Behaviour
    <2> HIDE DEF a
    <2> QED BY <1>2, <2>1, HushModest DEF a
  <1> QED BY <1>1, <1>2 DEF Close

\* SendFileLate, AcceptedTwice, Restart
LEMMA DropModest ==
  ASSUME Inv, NEW p \in Peers, Drop(p)
  PROVE  \A x \in Peers : Modest(node[x], node'[x])
  <1>1. Set(p, NewBehaviour)
    BY DEF Drop
  <1>2. NewBehaviour.out_events = <<>> /\ NewBehaviour.ongoing_recv = {}
    BY DEF NewBehaviour
  <1>3. Modest(node[p], NewBehaviour)
    BY <1>2 DEF Modest, Coy, Sizes
  <1> QED BY <1>1, <1>3, SetAt, InvTypes, ModestSame

\* A step tells nobody that a recv is complete, or is Finishes.
LEMMA NextModest ==
  ASSUME Inv, [Next]_vars
  PROVE  \/ \A x \in Peers : Modest(node[x], node'[x])
         \/ \E p, q \in Peers, c \in Conns : \E o \in node[p].ongoing_recv :
              Finishes(p, q, c, o)
  <1> DEFINE Mod == \A x \in Peers : Modest(node[x], node'[x])
             Fin == \E p, q \in Peers, c \in Conns :
                      \E o \in node[p].ongoing_recv : Finishes(p, q, c, o)
  <1>1. ASSUME UNCHANGED node
        PROVE  Mod
    BY <1>1, InvTypes, ModestSame
  <1>2. ASSUME NEW p \in Peers, Drop(p)
        PROVE  Mod
    BY <1>2, DropModest
  <1>3. ASSUME NEW p \in Peers, User(p)
        PROVE  Mod
    <2>1. /\ \A id \in 0..(node[p].recv_counter - 1) : id \in Nat
          /\ \A id \in 0..(node[p].send_counter - 1) : id \in Nat
      BY InvTypes DEF Behaviour
    <2>2. ASSUME NEW q \in Peers, SendFileLate(p, q)
          PROVE  Mod
      BY <1>2, <2>2, Zenon DEF SendFileLate
    <2>3. ASSUME \/ \E q \in Peers, f \in Files : SendFile(p, q, f)
                 \/ \E q \in Peers : SendFileNotFound(p, q) \/ SendFileNoMetadata(p, q)
                 \/ AcceptFile(p)
                 \/ \E id \in Nat : CancelRecv(p, id) \/ CancelSend(p, id)
          PROVE  Mod
      BY <2>3, UserModest, Zenon
    <2> HIDE DEF Mod
    <2> QED BY <1>3, <2>1, <2>2, <2>3, ZenonT(60) DEF User
  <1>4. ASSUME NEW p \in Peers, Poll(p) \/ PollExpiry(p)
        PROVE  Mod
    BY <1>4, PollModest DEF Poll, PollExpiry
  <1>5. ASSUME NEW p \in Peers, NEW q \in Peers, NEW c \in Conns,
               HandlerEvent(p, q, c)
        PROVE  Mod \/ Fin
    <2>1. ASSUME AcceptedTwice(p, q, c)
          PROVE  Mod
      BY <1>2, <2>1, Zenon DEF AcceptedTwice
    <2>2. ASSUME OnRecvProgressed(p, q, c)
          PROVE  Mod \/ Fin
      BY <2>2, RecvModest
    <2>3. ASSUME \/ OnIncomingFile(p, q, c) \/ OnFileSendAccepted(p, q, c)
                 \/ OnSendProgressed(p, q, c) \/ OnRemoteCancelSend(p, q, c)
                 \/ OnRemoteCancelRecv(p, q, c) \/ OnOutboundNegotiated(p, q, c)
                 \/ \E t \in {"Error", "InboundNegotiated"} : OnReport(p, q, c, t)
          PROVE  Mod
      BY <2>3, EventModest, Zenon
    <2> HIDE DEF Mod, Fin
    <2> QED BY <1>5, <2>1, <2>2, <2>3, Zenon DEF HandlerEvent
  <1>6. ASSUME NEW p \in Peers, NEW q \in Peers, NEW c \in Conns,
               Transport(p, q, c) \/ Failure(p, q, c) \/ Connect(p, q, c)
        PROVE  Mod
    <2>1. \/ UNCHANGED node
          \/ ConnectionLost(p, q, c) \/ ConnectionNoticed(p, q, c)
      BY <1>6, ZenonT(60) DEF Transport, Failure, OpenStream, Transmit, Arrive,
         Complete, Fail, Connect
    <2>2. ASSUME Close(p, q, c)
          PROVE  Mod
      BY <2>2, CloseModest
    <2> HIDE DEF Mod
    <2> QED BY <1>1, <2>1, <2>2, Zenon DEF ConnectionLost, ConnectionNoticed
  <1>7. ASSUME NEW p \in Peers, Restart(p)
        PROVE  Mod
    BY <1>2, <1>7, Zenon DEF Restart
  <1>8. UNCHANGED vars => UNCHANGED node
    BY DEF vars
  <1> HIDE DEF Mod, Fin
  <1>9. Mod \/ Fin
    BY <1>1, <1>3, <1>4, <1>5, <1>6, <1>7, <1>8, ZenonT(60) DEF Next
  <1> QED BY <1>9 DEF Mod, Fin

\* What was announced is the size of the file, in every request that has not
\* been read and in every record that was made of one.
Sized(N, L, W) ==
  /\ \A p, q \in Peers : \A m \in Letter :
       m.type = "IncomingFile" /\ Aloft(N, L, W, m, p, q)
         => m.body[1][2] = FileLen[m.body[1][1]]
  /\ \A q \in Peers : \A r \in Recvs(N[q]) : r.bytes_total = FileLen[r.file]

\* Every step keeps it: a new request is Heir's, a new record is made of a
\* request, and an ongoing recv has the size of the record it was before.
LEMMA SizedStep ==
  ASSUME NEW N, NEW L, NEW W, NEW P, NEW N2 \in [Peers -> Behaviour], NEW L2,
         NEW W2, NEW P2, Sized(N, L, W), Heir(N, L, W, P, N2, L2, W2, P2),
         \A x \in Peers : Sizes(N[x], N2[x])
  PROVE  Sized(N2, L2, W2)
  <1>1. ASSUME NEW p \in Peers, NEW q \in Peers, NEW m \in Letter,
               m.type = "IncomingFile", Aloft(N2, L2, W2, m, p, q)
        PROVE  m.body[1][2] = FileLen[m.body[1][1]]
    <2>1. \/ Aloft(N, L, W, m, p, q)
          \/ m.body[1][2] = FileLen[m.body[1][1]]
      BY <1>1, Zenon DEF Heir
    <2> QED BY <1>1, <2>1, Zenon DEF Sized
  <1>2. ASSUME NEW q \in Peers, NEW r \in N2[q].pending_recv
        PROVE  r.bytes_total = FileLen[r.file]
    <2>1. r.remote \in Peers
      BY <1>2 DEF Behaviour, PendingRecv
    <2>2. CASE r \in N[q].pending_recv
      BY <2>2 DEF Sized, Recvs
    <2>3. ASSUME NEW m \in Letter, m.type = "IncomingFile",
                 Aloft(N, L, W, m, r.remote, q),
                 r.file = m.body[1][1], r.bytes_total = m.body[1][2]
          PROVE  r.bytes_total = FileLen[r.file]
      <3>1. m.body[1][2] = FileLen[m.body[1][1]]
        BY <2>1, <2>3, Zenon DEF Sized
      <3> QED BY <2>3, <3>1
    <2> QED BY <1>2, <2>2, <2>3, Zenon DEF Heir
  <1>3. ASSUME NEW q \in Peers, NEW o \in N2[q].ongoing_recv
        PROVE  o.bytes_total = FileLen[o.file]
    <2>1. PICK r \in Recvs(N[q]) : r.file = o.file /\ r.bytes_total = o.bytes_total
      BY <1>3, Zenon DEF Sizes
    <2>2. r.bytes_total = FileLen[r.file]
      BY <2>1, Zenon DEF Sized
    <2> QED BY <2>1, <2>2
  <1> QED BY <1>1, <1>2, <1>3 DEF Sized, Recvs

\* The last event and the record that goes.
LEMMA FinishesSays ==
  ASSUME Inv, NEW p \in Peers, NEW q, NEW c, NEW o \in node[p].ongoing_recv,
         Finishes(p, q, c, o)
  PROVE  /\ node'[p].out_events =
              Append(node[p].out_events, [type |-> "RecvProgressed",
                                          id |-> o.local_recv_id,
                                          n |-> o.bytes_total])
         /\ node'[p].ongoing_recv \subseteq node[p].ongoing_recv
         /\ \A x \in Peers : x # p => node'[x] = node[x]
         /\ \A x \in Peers : Sizes(node[x], node'[x])
  <1> DEFINE a == end_recv(node[p], o, "RecvProgressed", o.bytes_total)
  <1>1. Set(p, a)
    BY DEF Finishes
  <1>2. /\ a.out_events = Append(node[p].out_events, [type |-> "RecvProgressed",
                                                      id |-> o.local_recv_id,
                                                      n |-> o.bytes_total])
        /\ a.ongoing_recv \subseteq node[p].ongoing_recv
    BY InvTypes DEF end_recv, Emit, Behaviour
  <1> HIDE DEF a
  <1>3. node'[p] = a /\ \A x \in Peers : x # p => node'[x] = node[x]
    BY <1>1, SetAt
  <1>4. \A x \in Peers : node'[x].ongoing_recv \subseteq node[x].ongoing_recv
    BY <1>2, <1>3
  <1> QED BY <1>2, <1>3, <1>4, SizesLess

\* The empty chunk is the last one, and every one before it was written.
LEMMA FinishesWhole ==
  ASSUME Inv, OneConnection, KeysApart, Rows(node, link, wire),
         Sized(node, link, wire), NEW p \in Peers, NEW q \in Peers,
         NEW c \in Conns, NEW o \in node[p].ongoing_recv, Finishes(p, q, c, o)
  PROVE  o.data = Content(o.file) /\ Len(o.data) = FileLen[o.file]
  <1> DEFINE l == <<p, q, c>>
             id == o.remote_send_id
             f == o.file
             n == Len(o.data)
             t == FileData[f]
  <1>1. /\ o \in OngoingRecv /\ f \in Files /\ t \in Nat
        /\ o.data \in Seq(Chunk) /\ n \in Nat
    <2>1. o \in OngoingRecv
      BY InvTypes, RecvType
    <2> QED BY <2>1, FilesAssumption DEF OngoingRecv
  <1>2. l \in Links /\ link[l].ev \in Seq(Event) /\ link[l].ev # <<>>
    <2>1. l \in Links
      BY DEF Links
    <2>2. link[l].ev # <<>>
      BY DEF Finishes, HasEvent
    <2> HIDE DEF l
    <2> QED BY <2>1, <2>2, InvTypes DEF Handler
  <1>3. /\ 1 \in DOMAIN link[l].ev /\ link[l].ev[1] = Head(link[l].ev)
        /\ link[l].ev[1].type = "RecvProgressed" /\ link[l].ev[1].id = id
        /\ link[l].ev[1].body = <<>>
    <2>1. 1 \in DOMAIN link[l].ev /\ link[l].ev[1] = Head(link[l].ev)
      BY <1>2
    <2> QED BY <2>1 DEF Finishes, HasEvent, NextEvent
  <1>4. o.remote = q
    BY <1>3 DEF KeysApart
  <1>5. Got(link, l, 1, id, <<>>)
    BY <1>3 DEF Got, IsGot
  <1>6. Row(node, link, wire, p, o)
    BY DEF Rows
  <1>7. Under(node, link, wire, o.remote, p, id, <<>>)
    BY <1>4, <1>5, Zenon DEF Under, Seen
  <1>8. No(f, <<>>) = t + 1
    BY DEF No
  <1> HIDE DEF id, f, n, t, l
  <1>9. n <= t
    BY <1>6 DEF Row, Wrote, n, t, f
  <1>10. ~(t + 1 > n + 1)
    <2> SUFFICES ASSUME t + 1 > n + 1
                 PROVE  FALSE
      OBVIOUS
    <2>1. PICK b2 : /\ Seen(link, o.remote, p, id, b2)
                    /\ No(f, b2) = No(f, <<>>) - 1
      BY <1>6, <1>7, <1>8 DEF Row, Whole, id, f, n
    <2>2. PICK j : Got(link, l, j, id, b2)
      <3>1. PICK d \in Conns : \E j : Got(link, <<p, o.remote, d>>, j, id, b2)
        BY <2>1, Zenon DEF Seen
      <3>2. d = c
        BY DEF OneConnection
      <3> QED BY <1>4, <3>1, <3>2 DEF l
    <2>3. j \in Nat /\ j >= 1
      BY <1>2, <2>2, GotIndex, InvTypes
    <2>4. No(f, b2) = t
      BY <1>1, <1>8, <2>1
    <2>5. j # 1
      <3> SUFFICES ASSUME j = 1
                   PROVE  FALSE
        OBVIOUS
      <3>1. b2 = <<>>
        BY <1>3, <2>2 DEF Got, IsGot
      <3> QED BY <1>1, <1>8, <2>4, <3>1
    <2>6. 1 < j
      BY <2>3, <2>5
    <2>7. No(f, <<>>) < No(f, b2)
      BY <1>4, <1>5, <1>6, <2>2, <2>6 DEF Row, Lined, id, f, l
    <2> QED BY <1>1, <1>8, <2>4, <2>7
  <1>11. n = t
    BY <1>1, <1>9, <1>10
  <1>12. /\ Content(f) \in Seq(Chunk) /\ Len(Content(f)) = t
         /\ \A i \in 1..t : Content(f)[i] = <<f, i>>
    <2>1. \A i \in 1..t : <<f, i>> \in Chunk
      BY <1>1 DEF Chunk
    <2> QED BY <1>1, <2>1 DEF Content, t
  <1>13. \A i \in 1..n : o.data[i] = <<f, i>>
    BY <1>6 DEF Row, Wrote, n, f
  <1>14. o.data = Content(f)
    BY <1>1, <1>11, <1>12, <1>13, SeqEqual DEF n
  <1>15. n = FileLen[f]
    <2>1. o.bytes_total = FileLen[o.file]
      BY DEF Sized, Recvs
    <2> QED BY <2>1 DEF Finishes, all_received, n, f
  <1> QED BY <1>14, <1>15 DEF n, f

\* Nothing is announced at first.
LEMMA InitSized == Init => Sized(node, link, wire)
  <1> SUFFICES ASSUME Init
               PROVE  Sized(node, link, wire)
    OBVIOUS
  <1>1. \A p \in Peers : /\ node[p].pending_handler_event = <<>>
                         /\ node[p].pending_recv = {} /\ node[p].ongoing_recv = {}
    BY DEF Init, InitBehaviour, NewBehaviour
  <1>2. \A l \in Links : /\ link[l].inq = <<>> /\ link[l].ev = <<>>
                         /\ wire[l] = <<>>
    BY DEF Init, NewHandler
  <1>3. ASSUME NEW p \in Peers, NEW q \in Peers, NEW m, NEW k, NEW c, NEW i,
               At(node, link, wire, m, p, q, k, c, i)
        PROVE  FALSE
    <2>1. ASSUME c \in Conns
          PROVE  <<p, q, c>> \in Links /\ <<q, p, c>> \in Links
      BY <2>1 DEF Links
    <2> QED BY <1>1, <1>2, <1>3, <2>1 DEF At
  <1>4. \A p, q \in Peers : \A m : ~Aloft(node, link, wire, m, p, q)
    BY <1>3 DEF Aloft
  <1> QED BY <1>1, <1>4 DEF Sized, Recvs

\* A step that tells the user of p that o is complete.
LEMMA CompletionStep ==
  ASSUME Inv, OneConnection, KeysApart, Rows(node, link, wire),
         Sized(node, link, wire), [Next]_vars,
         NEW p \in Peers, NEW o \in node[p].ongoing_recv,
         node'[p].out_events # <<>>,
         Len(node'[p].out_events) > Len(node[p].out_events),
         node'[p].out_events[Len(node'[p].out_events)].type = "RecvProgressed",
         node'[p].out_events[Len(node'[p].out_events)].id = o.local_recv_id
  PROVE  o.data = Content(o.file) /\ Len(o.data) = FileLen[o.file]
  <1>1. ~Modest(node[p], node'[p])
    BY DEF Modest, Coy
  <1>2. PICK x \in Peers, q \in Peers, c \in Conns :
          \E t \in node[x].ongoing_recv : Finishes(x, q, c, t)
    BY <1>1, NextModest
  <1>3. PICK t \in node[x].ongoing_recv : Finishes(x, q, c, t)
    BY <1>2
  <1>4. x = p
    <2> SUFFICES ASSUME x # p
                 PROVE  FALSE
      OBVIOUS
    <2>1. node'[p] = node[p]
      BY <1>3, FinishesSays
    <2> QED BY <1>1, <2>1, InvTypes, ModestSame
  <1>5. o = t
    <2> DEFINE z == node[p].out_events
               e == [type |-> "RecvProgressed", id |-> t.local_recv_id,
                     n |-> t.bytes_total]
    <2>1. node'[p].out_events = Append(z, e)
      BY <1>3, <1>4, FinishesSays
    <2>2. z \in Seq(OutEvent)
      BY InvTypes DEF Behaviour
    <2>3. e.id = t.local_recv_id
      OBVIOUS
    <2> HIDE DEF z, e
    <2>4. Append(z, e)[Len(Append(z, e))] = e
      BY <2>2
    <2>5. o.local_recv_id = t.local_recv_id
      BY <2>1, <2>3, <2>4
    <2> QED BY <1>3, <1>4, <2>5, InvTypes DEF Ids, Recvs
  <1> QED BY <1>3, <1>4, <1>5, FinishesWhole

\* The end of a recv: as long as two peers have one connection at a time, no
\* two senders share a key of ongoing_recv and no peer is restarted, a user
\* who is told that a recv is complete has the whole file, and the size of it
\* is the one that the sender announced.
THEOREM CompletedIsWhole ==
  ASSUME OneConnection
  PROVE  Spec /\ []KeysApart /\ [](restarts = 0) => CompletionIsWhole
  <1> DEFINE Told ==
        \A p \in Peers : \A o \in node[p].ongoing_recv :
          LET out == node'[p].out_events
          IN  /\ out # <<>> /\ Len(out) > Len(node[p].out_events)
              /\ out[Len(out)].type = "RecvProgressed"
              /\ out[Len(out)].id = o.local_recv_id
              => o.data = Content(o.file) /\ Len(o.data) = FileLen[o.file]
  <1>1. Spec => []Inv
    BY InvHolds
  <1>2. Spec => []FlowInv
    BY FlowHolds
  <1>3. Spec => []ChunkInv
    BY ChunksHold
  <1>4. Init => OrderInv /\ Shut(link, wire) /\ Sized(node, link, wire)
    BY InitOrder, InitSized
  <1>5. Inv /\ Inv' /\ FlowInv /\ ChunkInv /\ ChunkInv' /\ KeysApart
        /\ OrderInv /\ Shut(link, wire) /\ [Next]_vars
        => OrderInv' /\ Shut(link, wire)'
    BY NextOrder
  <1>6. Inv /\ Inv' /\ FlowInv /\ Sized(node, link, wire) /\ (restarts = 0)'
        /\ [Next]_vars
        => Sized(node, link, wire)'
    <2> SUFFICES ASSUME Inv, Inv', FlowInv, Sized(node, link, wire), restarts' = 0,
                        [Next]_vars
                 PROVE  Sized(node', link', wire')
      OBVIOUS
    <2>1. Heir(node, link, wire, panic, node', link', wire', panic')
      BY NextFlow DEF FlowNext
    <2>2. \A x \in Peers : Sizes(node[x], node'[x])
      BY NextModest, FinishesSays DEF Modest
    <2>3. node' \in [Peers -> Behaviour]
      BY DEF Inv, NodeInv
    <2> QED BY <2>1, <2>2, <2>3, SizedStep
  <1>7. Inv /\ KeysApart /\ OrderInv /\ restarts = 0 /\ Sized(node, link, wire)
        /\ [Next]_vars
        => Told
    <2> SUFFICES ASSUME Inv, KeysApart, OrderInv, restarts = 0,
                        Sized(node, link, wire), [Next]_vars
                 PROVE  Told
      OBVIOUS
    <2>1. Rows(node, link, wire)
      BY DEF OrderInv, Order
    <2> QED BY <2>1, CompletionStep
  <1>8. CompletionIsWhole <=> [][Told]_vars
    BY DEF CompletionIsWhole
  <1> HIDE DEF Told
  <1> QED BY <1>1, <1>2, <1>3, <1>4, <1>5, <1>6, <1>7, <1>8, PTL DEF Spec

\* The same for two peers, without a condition on keys.
THEOREM TwoPeersCompleteWhole ==
  ASSUME OneConnection, TwoPeers
  PROVE  Spec /\ [](restarts = 0) => CompletionIsWhole
  <1>1. Spec => []KeysApart
    BY TwoPeersApart
  <1>2. Spec /\ []KeysApart /\ [](restarts = 0) => CompletionIsWhole
    BY CompletedIsWhole
  <1> QED BY <1>1, <1>2, PTL

=============================================================================
