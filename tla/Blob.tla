-------------------------------- MODULE Blob --------------------------------
(***************************************************************************)
(* The file transfer protocol of owlnest-blob: the Behaviour of every peer *)
(* (protocols/owlnest-blob/src/behaviour.rs), the connections between them *)
(* and, reduced to what a Behaviour can observe, the connection handlers   *)
(* (handler.rs, protocol.rs).                                              *)
(*                                                                         *)
(* A sender announces a file (IncomingFile), the receiver's user accepts   *)
(* it (AcceptFile), the sender streams it chunk by chunk, one chunk in     *)
(* flight per send, and an empty chunk ends it.  Either side may cancel.   *)
(*                                                                         *)
(* A Behaviour is a record and its `&mut self' methods are operators from  *)
(* records to records, so that an action is the whole handler.  A map of   *)
(* the code is the set of its values: each value holds its key.  A file is *)
(* a sequence of chunks, one per `read' of the sender; <<f, n>> is chunk n *)
(* of file f.  Calls that only return an error to their caller (an unknown *)
(* id) change nothing and are stuttering steps.                            *)
(***************************************************************************)
EXTENDS Naturals, Sequences, FiniteSets

CONSTANTS
  Peers,       \* the nodes
  Conns,       \* names of the connections two peers may have at a time
  Files,       \* files the users may send
  FileLen,     \* FileLen[f]: length of f in chunks when its metadata is read
  FileData,    \* FileData[f]: chunks that reading f really returns
  Timeouts,    \* the record maps whose configured timeout is not 0
  Up,          \* <<p, q, c>>: connections negotiated when the model starts
  MaxSends,    \* bound: MaxSends[p] SendFile calls by p
  MaxCancels,  \* bound: ids each user cancels, sends and recvs together
  MaxFaults,   \* bound: failures of the environment, restarts included
  MaxRestarts  \* bound: crashes followed by a restart

MapNames == {"pending_send", "pending_recv", "ongoing_send", "ongoing_recv"}
Links    == Peers \X Peers \X Conns

ASSUME FilesAssumption ==
  FileLen \in [Files -> Nat] /\ FileData \in [Files -> Nat]
ASSUME UpAssumption ==
  /\ Up \subseteq Links
  /\ \A l \in Up : l[1] # l[2] /\ <<l[2], l[1], l[3]>> \in Up
ASSUME BoundsAssumption ==
  /\ MaxSends \in [Peers -> Nat]
  /\ {MaxCancels, MaxFaults, MaxRestarts} \subseteq Nat

VARIABLES
  node,       \* node[p]: the Behaviour of p
  conn,       \* conn[p][q]: connections to q that p's swarm holds established
  link,       \* link[<<p, q, c>>]: p's Handler on connection c with q
  wire,       \* wire[<<p, q, c>>]: the message on p's outbound stream, or <<>>
  panic,      \* panic[p]: the assertion that has stopped p's swarm, or "none"
  cancelled,  \* cancelled[p]: ids for which cancel_send/cancel_recv gave Ok
  accepted,   \* <<p, id, f>>: sends of p that a remote user has accepted
  faults,     \* failures so far
  restarts    \* restarts so far

vars == <<node, conn, link, wire, panic, cancelled, accepted, faults, restarts>>

-----------------------------------------------------------------------------
(* Records of the code. *)

Chunk       == Files \X Nat
PendingSend == [local_send_id : Nat, remote : Peers, file : Files]
OngoingSend == [local_send_id : Nat, remote : Peers, file : Files,
                bytes_sent : Nat]
PendingRecv == [local_recv_id : Nat, remote_send_id : Nat, remote : Peers,
                file : Files, bytes_total : Nat]
\* `data' is what file_handle holds; bytes_received is its length.
OngoingRecv == [local_recv_id : Nat, remote_send_id : Nat, remote : Peers,
                file : Files, bytes_total : Nat, data : Seq(Chunk)]

\* Messages on the wire.  `body' is <<<<name, bytes_total>>>> for IncomingFile,
\* the content for FileChunk (<<>> at the end of the file), else <<>>.
MsgType == {"IncomingFile", "AcceptFile", "CancelSend", "CancelRecv",
            "FileChunk"}
Msg     == {m \in [type : MsgType, id : Nat, body : Seq(Chunk)] :
              m.type = "IncomingFile" => m.body # <<>>}
\* At most one message.
Slot    == {s \in Seq(Msg) : Len(s) <= 1}

\* What a handler reports to its Behaviour.
EventType == {"RecvProgressed", "SendProgressed", "IncomingFile",
              "FileSendAccepted", "RemoteCancelSend", "RemoteCancelRecv",
              "Error", "InboundNegotiated", "OutboundNegotiated"}
Event     == {e \in [type : EventType, id : Nat, body : Seq(Chunk)] :
                e.type = "IncomingFile" => e.body # <<>>}

\* What a Behaviour reports to its user; n is the number of bytes, if any.
OutType  == {"IncomingFile", "RecvProgressed", "OngoingRecvError",
             "SendProgressed", "CancelledSend", "CancelledRecv",
             "UnexpectedEOF", "Error", "InboundNegotiated",
             "OutboundNegotiated"}
OutEvent == [type : OutType, id : Nat, n : Nat]

Notification == [to : Peers, msg : Msg]

Behaviour ==
  [connected_peers : SUBSET Peers, send_counter : Nat, recv_counter : Nat,
   pending_send : SUBSET PendingSend, ongoing_send : SUBSET OngoingSend,
   pending_recv : SUBSET PendingRecv, ongoing_recv : SUBSET OngoingRecv,
   pending_handler_event : Seq(Notification), out_events : Seq(OutEvent)]

Handler == [open : BOOLEAN, inq : Seq(Msg), busy : Slot, ev : Seq(Event)]

NewBehaviour ==
  [connected_peers |-> {}, send_counter |-> 0, recv_counter |-> 0,
   pending_send |-> {}, ongoing_send |-> {}, pending_recv |-> {},
   ongoing_recv |-> {}, pending_handler_event |-> <<>>, out_events |-> <<>>]

NewHandler == [open |-> FALSE, inq |-> <<>>, busy |-> <<>>, ev |-> <<>>]

-----------------------------------------------------------------------------
(* Methods of Behaviour.  b is the Behaviour. *)

Message(t, id, body) == [type |-> t, id |-> id, body |-> body]

\* pending_handler_event.push_back(NotifyHandler { q, Any, m })
Notify(b, q, m) ==
  [b EXCEPT !.pending_handler_event = Append(@, [to |-> q, msg |-> m])]

\* out_events.push_back
Emit(b, t, id, n) ==
  [b EXCEPT !.out_events = Append(@, [type |-> t, id |-> id, n |-> n])]

\* The id is taken before anything is checked.
next_send_id(b) == [b EXCEPT !.send_counter = @ + 1]

\* Mutant of queue_send: streaming starts without waiting for the remote.
queue_send_eager(b, q, f) ==
  Notify([next_send_id(b) EXCEPT !.ongoing_send =
            @ \cup {[local_send_id |-> b.send_counter, remote |-> q,
                     file |-> f, bytes_sent |-> 0]}],
         q, Message("IncomingFile", b.send_counter, <<<<f, FileLen[f]>>>>))

\* The request is queued for the remote together with its record.
queue_send(b, q, f) ==
  Notify([next_send_id(b) EXCEPT !.pending_send =
            @ \cup {[local_send_id |-> b.send_counter, remote |-> q,
                     file |-> f]}],
         q, Message("IncomingFile", b.send_counter, <<<<f, FileLen[f]>>>>))

on_new_pending_recv(b, q, id, name, total) ==
  Emit([b EXCEPT
          !.recv_counter = @ + 1,
          !.pending_recv = @ \cup
             {[local_recv_id |-> b.recv_counter, remote_send_id |-> id,
               remote |-> q, file |-> name, bytes_total |-> total]}],
       "IncomingFile", b.recv_counter, total)

\* Mutant of accept_pending_recv: get instead of remove on pending_recv.
accept_pending_recv_keeps(b, r) ==
  Notify([b EXCEPT
            !.ongoing_recv =
               {o \in @ : o.remote_send_id # r.remote_send_id} \cup
               {[local_recv_id |-> r.local_recv_id,
                 remote_send_id |-> r.remote_send_id, remote |-> r.remote,
                 file |-> r.file, bytes_total |-> r.bytes_total,
                 data |-> <<>>]}],
         r.remote, Message("AcceptFile", r.remote_send_id, <<>>))

\* ongoing_recv is indexed by the remote send id alone: the insertion
\* replaces a record with that key, whoever its remote is.
accept_pending_recv(b, r) ==
  Notify([b EXCEPT
            !.pending_recv = @ \ {r},
            !.ongoing_recv =
               {o \in @ : o.remote_send_id # r.remote_send_id} \cup
               {[local_recv_id |-> r.local_recv_id,
                 remote_send_id |-> r.remote_send_id, remote |-> r.remote,
                 file |-> r.file, bytes_total |-> r.bytes_total,
                 data |-> <<>>]}],
         r.remote, Message("AcceptFile", r.remote_send_id, <<>>))

\* What remove_recv_record(id) finds: the pending record with that local id,
\* else the ongoing one whose KEY, a remote send id, equals it.
recv_record(b, id) ==
  LET pending == {r \in b.pending_recv : r.local_recv_id = id}
  IN  IF pending # {} THEN pending
      ELSE {r \in b.ongoing_recv : r.remote_send_id = id}

\* r is the record found for the local id `id'.
cancel_recv_by_local_recv_id(b, id, r) ==
  Emit(Notify([b EXCEPT !.pending_recv = @ \ {r}, !.ongoing_recv = @ \ {r}],
              r.remote, Message("CancelRecv", r.remote_send_id, <<>>)),
       "CancelledRecv", id, 0)

\* What remove_send_record(id) finds.
send_record(b, id) ==
  LET pending == {s \in b.pending_send : s.local_send_id = id}
  IN  IF pending # {} THEN pending
      ELSE {s \in b.ongoing_send : s.local_send_id = id}

\* Mutant of cancel_send_by_local_send_id: only pending sends are removed.
cancel_send_pending_only(b, s) ==
  Notify([b EXCEPT !.pending_send = @ \ {s}],
         s.remote, Message("CancelSend", s.local_send_id, <<>>))

cancel_send_by_local_send_id(b, s) ==
  Notify([b EXCEPT !.pending_send = @ \ {s}, !.ongoing_send = @ \ {s}],
         s.remote, Message("CancelSend", s.local_send_id, <<>>))

\* Mutant of progress_ongoing_send: the chunk is queued twice.
progress_ongoing_send_twice(b, s) ==
  IF s.bytes_sent < FileData[s.file]
    THEN LET m == Message("FileChunk", s.local_send_id,
                          <<<<s.file, s.bytes_sent + 1>>>>)
         IN  Notify(Notify([b EXCEPT !.ongoing_send =
               (@ \ {s}) \cup {[s EXCEPT !.bytes_sent = @ + 1]}],
               s.remote, m), s.remote, m)
    ELSE Notify([b EXCEPT !.ongoing_send = @ \ {s}],
                s.remote, Message("FileChunk", s.local_send_id, <<>>))

\* One read of the file, one FileChunk; the read that returns nothing ends it.
progress_ongoing_send(b, s) ==
  IF s.bytes_sent < FileData[s.file]
    THEN Notify([b EXCEPT !.ongoing_send =
                   (@ \ {s}) \cup {[s EXCEPT !.bytes_sent = @ + 1]}],
                s.remote, Message("FileChunk", s.local_send_id,
                                  <<<<s.file, s.bytes_sent + 1>>>>))
    ELSE Notify([b EXCEPT !.ongoing_send = @ \ {s}],
                s.remote, Message("FileChunk", s.local_send_id, <<>>))

\* The read failed: the record is dropped and nobody is told.
fail_ongoing_send(b, s) == [b EXCEPT !.ongoing_send = @ \ {s}]

started(s) == [local_send_id |-> s.local_send_id, remote |-> s.remote,
               file |-> s.file, bytes_sent |-> 0]

\* Mutant of pending_send_accepted: get instead of remove on pending_send.
pending_send_accepted_keeps(b, s) ==
  [b EXCEPT !.ongoing_send = @ \cup {started(s)}]

\* The move from pending_send to ongoing_send when the remote accepts.
pending_send_accepted(b, s) ==
  [b EXCEPT !.pending_send = @ \ {s},
            !.ongoing_send = @ \cup {started(s)}]

\* Mutant of write_chunk: the cursor is not advanced, a chunk is written twice.
write_chunk_twice(b, o, content) ==
  [b EXCEPT !.ongoing_recv =
     (@ \ {o}) \cup {[o EXCEPT !.data = @ \o content \o content]}]

\* Mutant of write_chunk: recvs are told apart by their remote, not by send id.
write_chunk_by_remote(b, o, content) ==
  [b EXCEPT !.ongoing_recv =
     {IF r.remote = o.remote THEN [r EXCEPT !.data = @ \o content] ELSE r :
        r \in @}]

\* A chunk is written to the file of o and the record goes back in the map.
write_chunk(b, o, content) ==
  [b EXCEPT !.ongoing_recv =
     (@ \ {o}) \cup {[o EXCEPT !.data = @ \o content]}]

\* Mutant of all_received: the check for an unexpected EOF is missing.
all_received_unchecked(o) == o.bytes_total >= 0

\* The empty chunk ends the recv well only if every announced byte came.
all_received(o) == Len(o.data) = o.bytes_total

\* Mutant of end_recv: the record goes back in the map.
end_recv_keeps(b, o, t, n) == Emit(b, t, o.local_recv_id, n)

\* A recv ends: its record leaves the map and the user sees event t.
end_recv(b, o, t, n) ==
  Emit([b EXCEPT !.ongoing_recv = @ \ {o}], t, o.local_recv_id, n)

\* Mutants of on_disconnect: a map, or the set of peers, is forgotten.
on_disconnect_keeps_recv(b, q) ==
  [b EXCEPT !.connected_peers = @ \ {q},
            !.pending_send = {s \in @ : s.remote # q},
            !.pending_recv = {r \in @ : r.remote # q},
            !.ongoing_send = {s \in @ : s.remote # q}]
on_disconnect_keeps_peer(b, q) ==
  [b EXCEPT !.pending_send = {s \in @ : s.remote # q},
            !.pending_recv = {r \in @ : r.remote # q},
            !.ongoing_send = {s \in @ : s.remote # q},
            !.ongoing_recv = {r \in @ : r.remote # q}]

on_disconnect(b, q) ==
  [b EXCEPT !.connected_peers = @ \ {q},
            !.pending_send = {s \in @ : s.remote # q},
            !.pending_recv = {r \in @ : r.remote # q},
            !.ongoing_send = {s \in @ : s.remote # q},
            !.ongoing_recv = {r \in @ : r.remote # q}]

-----------------------------------------------------------------------------
(* check_expiry.  How old a record is when the throttle fires is up to the *)
(* environment: any of the records may have expired, and they are taken in *)
(* any order (the maps are HashMaps).                                      *)

Elements(s) == {s[i] : i \in DOMAIN s}

\* The sequences without repetition over S: which records expired, in order.
Expirable(map, S) ==
  IF map \in Timeouts
    THEN {s \in UNION {[1..n -> S] : n \in 0..Cardinality(S)} :
            \A i, j \in DOMAIN s : s[i] = s[j] => i = j}
    ELSE {<<>>}

\* An expired ongoing recv is cancelled by its local id, which is looked up
\* among the keys of ongoing_recv: the records that can go are these.
ongoing_recv_hits(b) ==
  {o \in b.ongoing_recv :
     \E r \in b.ongoing_recv : r.local_recv_id = o.remote_send_id}

Expiries(b) ==
  [ps : Expirable("pending_send", b.pending_send),
   pr : Expirable("pending_recv", b.pending_recv),
   os : Expirable("ongoing_send", b.ongoing_send),
   or : Expirable("ongoing_recv", ongoing_recv_hits(b))]

NotThrottled == [ps |-> <<>>, pr |-> <<>>, os |-> <<>>, or |-> <<>>]

CancelSends(s) ==
  [i \in DOMAIN s |-> [to |-> s[i].remote,
     msg |-> Message("CancelSend", s[i].local_send_id, <<>>)]]
CancelRecvs(s) ==
  [i \in DOMAIN s |-> [to |-> s[i].remote,
     msg |-> Message("CancelRecv", s[i].remote_send_id, <<>>)]]

\* Mutant of check_expiry: ongoing sends are announced as cancelled, not removed.
check_expiry_keeps_sends(b, x) ==
  [b EXCEPT
     !.pending_send = @ \ Elements(x.ps),
     !.pending_recv = @ \ Elements(x.pr),
     !.ongoing_recv = @ \ Elements(x.or),
     !.pending_handler_event =
        @ \o CancelSends(x.ps) \o CancelRecvs(x.pr)
          \o CancelSends(x.os) \o CancelRecvs(x.or)]

check_expiry(b, x) ==
  [b EXCEPT
     !.pending_send = @ \ Elements(x.ps),
     !.pending_recv = @ \ Elements(x.pr),
     !.ongoing_send = @ \ Elements(x.os),
     !.ongoing_recv = @ \ Elements(x.or),
     !.pending_handler_event =
        @ \o CancelSends(x.ps) \o CancelRecvs(x.pr)
          \o CancelSends(x.os) \o CancelRecvs(x.or),
     !.out_events = @
        \o [i \in DOMAIN x.pr |-> [type |-> "CancelledRecv",
                                   id |-> x.pr[i].local_recv_id, n |-> 0]]
        \o [i \in DOMAIN x.or |-> [type |-> "CancelledRecv",
                                   id |-> x.or[i].remote_send_id, n |-> 0]]]

-----------------------------------------------------------------------------
(* Actions.  Every change of a Behaviour happens in the task that owns the *)
(* swarm, one call at a time; handlers run in the tasks of their           *)
(* connections.                                                            *)

Running(p)  == panic[p] = "none"
Set(p, b)   == node' = [node EXCEPT ![p] = b]
Fault       == faults + restarts < MaxFaults /\ faults' = faults + 1
connVars    == <<conn, link, wire>>
ghostVars   == <<cancelled, accepted>>
lifeVars    == <<panic, restarts>>

\* The swarm of p is gone: its Behaviour, its connections, its handlers.
Drop(p) ==
  /\ Set(p, NewBehaviour)
  /\ conn' = [conn EXCEPT ![p] = [q \in Peers |-> {}]]
  /\ link' = [l \in Links |-> IF l[1] = p THEN NewHandler ELSE link[l]]
  /\ cancelled' = [cancelled EXCEPT ![p] = [send |-> {}, recv |-> {}]]
  /\ accepted' = {a \in accepted : a[1] # p}
  /\ UNCHANGED wire

(* push_event: what the user asks for. *)

SendFile(p, q, f) ==
  /\ Running(p) /\ node[p].send_counter < MaxSends[p]
  /\ q \in node[p].connected_peers
  /\ Set(p, queue_send(node[p], q, f))
  /\ UNCHANGED <<connVars, ghostVars, lifeVars, faults>>

\* Err(PeerNotFound) to the caller; the id is spent.
SendFileNotFound(p, q) ==
  /\ Running(p) /\ node[p].send_counter < MaxSends[p]
  /\ q \notin node[p].connected_peers
  /\ Set(p, next_send_id(node[p]))
  /\ UNCHANGED <<connVars, ghostVars, lifeVars, faults>>

\* The same, but the caller's second is over and nobody holds the receiver of
\* the callback: `.expect("callback to succeed")' takes the swarm down.
SendFileLate(p, q) ==
  /\ Running(p) /\ node[p].send_counter < MaxSends[p]
  /\ q \notin node[p].connected_peers
  /\ Fault
  /\ Drop(p)
  /\ panic' = [panic EXCEPT ![p] = "callback to succeed"]
  /\ UNCHANGED restarts

\* The metadata of the file cannot be read: the request is dropped.
SendFileNoMetadata(p, q) ==
  /\ Running(p) /\ node[p].send_counter < MaxSends[p]
  /\ q \in node[p].connected_peers
  /\ Fault
  /\ Set(p, next_send_id(node[p]))
  /\ UNCHANGED <<connVars, ghostVars, lifeVars>>

AcceptFile(p) ==
  /\ Running(p)
  /\ \E r \in node[p].pending_recv :
       /\ Set(p, accept_pending_recv(node[p], r))
       /\ accepted' = accepted \cup {<<r.remote, r.remote_send_id, r.file>>}
  /\ UNCHANGED <<connVars, cancelled, lifeVars, faults>>

MayCancel(p) ==
  Cardinality(cancelled[p].send) + Cardinality(cancelled[p].recv) < MaxCancels

CancelRecv(p, id) ==
  /\ Running(p) /\ MayCancel(p)
  /\ \E r \in recv_record(node[p], id) :
       Set(p, cancel_recv_by_local_recv_id(node[p], id, r))
  /\ cancelled' = [cancelled EXCEPT ![p].recv = @ \cup {id}]
  /\ UNCHANGED <<connVars, accepted, lifeVars, faults>>

CancelSend(p, id) ==
  /\ Running(p) /\ MayCancel(p)
  /\ \E s \in send_record(node[p], id) :
       Set(p, cancel_send_by_local_send_id(node[p], s))
  /\ cancelled' = [cancelled EXCEPT ![p].send = @ \cup {id}]
  /\ UNCHANGED <<connVars, accepted, lifeVars, faults>>

(* poll: expiry when the throttle fires, then one event, those for the     *)
(* user first.  x is NotThrottled when the throttle has not fired.         *)

PollOutEvent(p, x) ==
  LET b == check_expiry(node[p], x)
  IN  /\ b.out_events # <<>>
      /\ Set(p, [b EXCEPT !.out_events = Tail(@)])
      /\ UNCHANGED link

\* NotifyHandler::Any: the swarm picks a connection; without one it drops
\* the event.
PollHandlerEvent(p, x) ==
  LET b == check_expiry(node[p], x)
      h == Head(b.pending_handler_event)
  IN  /\ b.out_events = <<>> /\ b.pending_handler_event # <<>>
      /\ Set(p, [b EXCEPT !.pending_handler_event = Tail(@)])
      /\ \/ conn[p][h.to] = {} /\ UNCHANGED link
         \/ \E c \in conn[p][h.to] :
              link' = [link EXCEPT ![<<p, h.to, c>>].inq = Append(@, h.msg)]

PollWith(p, x) ==
  /\ Running(p)
  /\ PollOutEvent(p, x) \/ PollHandlerEvent(p, x)
  /\ UNCHANGED <<conn, wire, ghostVars, lifeVars, faults>>

Poll(p) == PollWith(p, NotThrottled)

PollExpiry(p) == \E x \in Expiries(node[p]) \ {NotThrottled} : PollWith(p, x)

(* on_connection_handler_event: p takes the next event of type t that its  *)
(* handler on connection c with q has reported.                            *)

HasEvent(p, q, c, t) ==
  /\ Running(p) /\ c \in conn[p][q]
  /\ link[<<p, q, c>>].ev # <<>>
  /\ Head(link[<<p, q, c>>].ev).type = t

NextEvent(p, q, c) == Head(link[<<p, q, c>>].ev)

TakeEvent(p, q, c) ==
  /\ link' = [link EXCEPT ![<<p, q, c>>].ev = Tail(@)]
  /\ UNCHANGED <<conn, wire>>

OnIncomingFile(p, q, c) ==
  /\ HasEvent(p, q, c, "IncomingFile")
  /\ LET e == NextEvent(p, q, c)
     IN  Set(p, on_new_pending_recv(node[p], q, e.id,
                                    e.body[1][1], e.body[1][2]))
  /\ TakeEvent(p, q, c)
  /\ UNCHANGED <<ghostVars, lifeVars, faults>>

\* progress_ongoing_recv, in the four ways it may end.
OnRecvProgressed(p, q, c) ==
  LET e   == NextEvent(p, q, c)
      b   == node[p]
      hit == {o \in b.ongoing_recv : o.remote_send_id = e.id}
  IN  /\ HasEvent(p, q, c, "RecvProgressed")
      /\ \/ hit = {} /\ UNCHANGED <<node, faults>>
         \/ \E o \in hit :
              /\ e.body = <<>> /\ UNCHANGED faults
              /\ \/ /\ ~all_received(o)
                    /\ Set(p, end_recv(b, o, "UnexpectedEOF", 0))
                 \/ /\ all_received(o)
                    /\ Set(p, end_recv(b, o, "RecvProgressed", o.bytes_total))
         \/ \E o \in hit :
              /\ e.body # <<>>
              /\ \/ Set(p, write_chunk(b, o, e.body)) /\ UNCHANGED faults
                 \/ Set(p, end_recv(b, o, "OngoingRecvError", 0)) /\ Fault
      /\ TakeEvent(p, q, c)
      /\ UNCHANGED <<ghostVars, lifeVars>>

OnFileSendAccepted(p, q, c) ==
  LET e == NextEvent(p, q, c)
      b == node[p]
  IN  /\ HasEvent(p, q, c, "FileSendAccepted")
      /\ \/ send_record(b, e.id) = {} /\ UNCHANGED <<node, faults>>
         \/ \E s \in b.pending_send :
              /\ s.local_send_id = e.id
              /\ LET a == pending_send_accepted(b, s)
                 IN  \/ /\ Set(p, Emit(progress_ongoing_send(a, started(s)),
                                       "SendProgressed", e.id, 0))
                        /\ UNCHANGED faults
                     \/ /\ Set(p, Emit(fail_ongoing_send(a, started(s)),
                                       "SendProgressed", e.id, 0))
                        /\ Fault
      /\ TakeEvent(p, q, c)
      /\ UNCHANGED <<ghostVars, lifeVars>>

\* The id is not in pending_send but in ongoing_send:
\* `.expect("Already handled")' takes the swarm down.
AcceptedTwice(p, q, c) ==
  /\ HasEvent(p, q, c, "FileSendAccepted")
  /\ \A s \in node[p].pending_send :
       s.local_send_id # NextEvent(p, q, c).id
  /\ \E s \in node[p].ongoing_send :
       s.local_send_id = NextEvent(p, q, c).id
  /\ Drop(p)
  /\ panic' = [panic EXCEPT ![p] = "Already handled"]
  /\ UNCHANGED <<restarts, faults>>

\* The remote has acknowledged a chunk: report it, read the next one.
OnSendProgressed(p, q, c) ==
  LET e   == NextEvent(p, q, c)
      b   == node[p]
      hit == {s \in b.ongoing_send : s.local_send_id = e.id}
  IN  /\ HasEvent(p, q, c, "SendProgressed")
      /\ \/ hit = {} /\ UNCHANGED <<node, faults>>
         \/ \E s \in hit :
              LET a == Emit(b, "SendProgressed", e.id, s.bytes_sent)
              IN  \/ Set(p, progress_ongoing_send(a, s)) /\ UNCHANGED faults
                  \/ Set(p, fail_ongoing_send(a, s)) /\ Fault
      /\ TakeEvent(p, q, c)
      /\ UNCHANGED <<ghostVars, lifeVars>>

OnRemoteCancelSend(p, q, c) ==
  LET id == NextEvent(p, q, c).id
      b  == Emit(node[p], "CancelledSend", id, 0)
      r  == send_record(b, id)
  IN  /\ HasEvent(p, q, c, "RemoteCancelSend")
      /\ Set(p, [b EXCEPT !.pending_send = @ \ r, !.ongoing_send = @ \ r])
      /\ TakeEvent(p, q, c)
      /\ UNCHANGED <<ghostVars, lifeVars, faults>>

\* remove_recv_by_remote_send_id: the ongoing record with that key, whoever
\* its remote is, else ONE pending record with that remote send id, which is
\* reported under the remote's id.
OnRemoteCancelRecv(p, q, c) ==
  LET id  == NextEvent(p, q, c).id
      b   == node[p]
      ong == {o \in b.ongoing_recv : o.remote_send_id = id}
      pen == {r \in b.pending_recv : r.remote_send_id = id}
  IN  /\ HasEvent(p, q, c, "RemoteCancelRecv")
      /\ \/ \E o \in ong : Set(p, end_recv(b, o, "CancelledRecv", 0))
         \/ /\ ong = {}
            /\ \E r \in pen :
                 Set(p, Emit([b EXCEPT !.pending_recv = @ \ {r}],
                             "CancelledRecv", r.remote_send_id, 0))
         \/ ong = {} /\ pen = {} /\ UNCHANGED node
      /\ TakeEvent(p, q, c)
      /\ UNCHANGED <<ghostVars, lifeVars, faults>>

OnOutboundNegotiated(p, q, c) ==
  /\ HasEvent(p, q, c, "OutboundNegotiated")
  /\ Set(p, Emit([node[p] EXCEPT !.connected_peers = @ \cup {q}],
                 "OutboundNegotiated", 0, 0))
  /\ TakeEvent(p, q, c)
  /\ UNCHANGED <<ghostVars, lifeVars, faults>>

\* Events that are only passed on to the user.
OnReport(p, q, c, t) ==
  /\ HasEvent(p, q, c, t)
  /\ Set(p, Emit(node[p], t, 0, 0))
  /\ TakeEvent(p, q, c)
  /\ UNCHANGED <<ghostVars, lifeVars, faults>>

-----------------------------------------------------------------------------
(* Handlers.  One message is outstanding per handler: it is written to the *)
(* stream (Transmit), read and acknowledged by the remote's handler        *)
(* (Arrive), and done when the acknowledgement is back (Complete).  It may *)
(* fail in between (Fail): the handler drops it, cannot know whether it    *)
(* was read, and opens a new stream.                                       *)

\* on_message: what the receiving handler makes of a message.
on_message(m) ==
  [type |-> CASE m.type = "IncomingFile" -> "IncomingFile"
              [] m.type = "AcceptFile"   -> "FileSendAccepted"
              [] m.type = "CancelSend"   -> "RemoteCancelRecv"
              [] m.type = "CancelRecv"   -> "RemoteCancelSend"
              [] m.type = "FileChunk"    -> "RecvProgressed",
   id |-> m.id, body |-> m.body]

Report(t) == [type |-> t, id |-> 0, body |-> <<>>]

\* pending_out_events.push_back, in the handler l of L
Tell(L, l, e) == [L EXCEPT ![l].ev = Append(@, e)]

\* A new outbound stream, negotiated at both ends; the remote's handler stops
\* reading the stream it replaces.
OpenStream(p, q, c) ==
  /\ c \in conn[p][q] /\ c \in conn[q][p]
  /\ ~link[<<p, q, c>>].open
  /\ LET opened == [link EXCEPT ![<<p, q, c>>].open = TRUE]
         here   == Tell(opened, <<p, q, c>>, Report("OutboundNegotiated"))
     IN  link' = Tell(here, <<q, p, c>>, Report("InboundNegotiated"))
  /\ wire' = [wire EXCEPT ![<<p, q, c>>] = <<>>]
  /\ UNCHANGED <<node, conn, ghostVars, lifeVars, faults>>

\* Mutant of Transmit: the next message is written to the stream without
\* waiting for the verifier of the last one.
Transmit_ahead(p, q, c) ==
  LET h == link[<<p, q, c>>]
  IN  /\ c \in conn[p][q]
      /\ h.open /\ h.inq # <<>>
      /\ link' = [link EXCEPT ![<<p, q, c>>].inq = Tail(@),
                              ![<<p, q, c>>].busy = <<Head(h.inq)>>]
      /\ wire' = [wire EXCEPT ![<<p, q, c>>] = Append(@, Head(h.inq))]
      /\ UNCHANGED <<node, conn, ghostVars, lifeVars, faults>>

\* progress_outbound
Transmit(p, q, c) ==
  LET h == link[<<p, q, c>>]
  IN  /\ c \in conn[p][q]
      /\ h.open /\ h.busy = <<>> /\ h.inq # <<>>
      /\ link' = [link EXCEPT ![<<p, q, c>>].inq = Tail(@),
                              ![<<p, q, c>>].busy = <<Head(h.inq)>>]
      /\ wire' = [wire EXCEPT ![<<p, q, c>>] = <<Head(h.inq)>>]
      /\ UNCHANGED <<node, conn, ghostVars, lifeVars, faults>>

\* poll_inbound at q, once q has read p's message and written the verifier.
Arrive(p, q, c) ==
  /\ wire[<<p, q, c>>] # <<>> /\ c \in conn[q][p]
  /\ link' = Tell(link, <<q, p, c>>, on_message(wire[<<p, q, c>>][1]))
  /\ wire' = [wire EXCEPT ![<<p, q, c>>] = <<>>]
  /\ UNCHANGED <<node, conn, ghostVars, lifeVars, faults>>

\* Mutant of Complete: the Behaviour is not told that a chunk is through.
CompleteSilently(p, q, c) ==
  /\ c \in conn[p][q] /\ link[<<p, q, c>>].busy # <<>>
  /\ wire[<<p, q, c>>] = <<>>
  /\ link' = [link EXCEPT ![<<p, q, c>>].busy = <<>>]
  /\ UNCHANGED <<node, conn, wire, ghostVars, lifeVars, faults>>

\* poll_outbound, the verifier is back.  Only a FileChunk has a consequence
\* for the Behaviour; the others answer a callback or are logged.
Complete(p, q, c) ==
  LET h == link[<<p, q, c>>]
  IN  /\ c \in conn[p][q] /\ h.busy # <<>> /\ wire[<<p, q, c>>] = <<>>
      /\ link' = [link EXCEPT
            ![<<p, q, c>>].busy = <<>>,
            ![<<p, q, c>>].ev =
               IF h.busy[1].type = "FileChunk"
                 THEN Append(@, [type |-> "SendProgressed",
                                 id |-> h.busy[1].id, body |-> <<>>])
                 ELSE @]
      /\ UNCHANGED <<node, conn, wire, ghostVars, lifeVars, faults>>

\* poll_outbound, timeout or I/O error: the stream is dropped.  What is on it
\* may still be read, or is lost and the remote's poll_inbound fails as well.
Fail(p, q, c) ==
  LET failed == [link EXCEPT ![<<p, q, c>>].open = FALSE,
                             ![<<p, q, c>>].busy = <<>>]
      here   == Tell(failed, <<p, q, c>>, Report("Error"))
  IN  /\ c \in conn[p][q] /\ link[<<p, q, c>>].busy # <<>>
      /\ Fault
      /\ \/ link' = here /\ UNCHANGED wire
         \/ /\ link' = IF c \in conn[q][p]
                         THEN Tell(here, <<q, p, c>>, Report("Error"))
                         ELSE here
            /\ wire' = [wire EXCEPT ![<<p, q, c>>] = <<>>]
      /\ UNCHANGED <<node, conn, ghostVars, lifeVars>>

-----------------------------------------------------------------------------
(* Connections.  Each end learns of the end of a connection by itself. *)

Connect(p, q, c) ==
  /\ p # q /\ Running(p) /\ Running(q)
  /\ c \notin conn[p][q] /\ c \notin conn[q][p]
  /\ conn' = [conn EXCEPT ![p][q] = @ \cup {c}, ![q][p] = @ \cup {c}]
  /\ link' = [link EXCEPT ![<<p, q, c>>] = NewHandler,
                          ![<<q, p, c>>] = NewHandler]
  /\ wire' = [wire EXCEPT ![<<p, q, c>>] = <<>>, ![<<q, p, c>>] = <<>>]
  /\ UNCHANGED <<node, ghostVars, lifeVars, faults>>

\* FromSwarm::ConnectionClosed at p; on_disconnect acts on the last one.
Close(p, q, c) ==
  /\ c \in conn[p][q]
  /\ conn' = [conn EXCEPT ![p][q] = @ \ {c}]
  /\ link' = [link EXCEPT ![<<p, q, c>>] = NewHandler]
  /\ IF conn[p][q] = {c} THEN Set(p, on_disconnect(node[p], q))
                         ELSE UNCHANGED node
  /\ UNCHANGED <<wire, ghostVars, lifeVars>>

ConnectionLost(p, q, c)    == Close(p, q, c) /\ Fault
ConnectionNoticed(p, q, c) == Close(p, q, c) /\ c \notin conn[q][p]
                              /\ UNCHANGED faults

\* The process of p dies and is started again, with the same identity.
Restart(p) ==
  /\ restarts < MaxRestarts /\ faults + restarts < MaxFaults
  /\ restarts' = restarts + 1
  /\ Drop(p)
  /\ panic' = [panic EXCEPT ![p] = "none"]
  /\ UNCHANGED faults

-----------------------------------------------------------------------------
InitBehaviour(p) ==
  [NewBehaviour EXCEPT !.connected_peers =
     {q \in Peers : \E c \in Conns : <<p, q, c>> \in Up}]

Init ==
  /\ node = [p \in Peers |-> InitBehaviour(p)]
  /\ conn = [p \in Peers |-> [q \in Peers |->
               {c \in Conns : <<p, q, c>> \in Up}]]
  /\ link = [l \in Links |-> [NewHandler EXCEPT !.open = (l \in Up)]]
  /\ wire = [l \in Links |-> <<>>]
  /\ panic = [p \in Peers |-> "none"]
  /\ cancelled = [p \in Peers |-> [send |-> {}, recv |-> {}]]
  /\ accepted = {}
  /\ faults = 0
  /\ restarts = 0

User(p) ==
  \/ \E q \in Peers, f \in Files : SendFile(p, q, f)
  \/ \E q \in Peers : SendFileNotFound(p, q)
  \/ \E q \in Peers : SendFileLate(p, q)
  \/ \E q \in Peers : SendFileNoMetadata(p, q)
  \/ AcceptFile(p)
  \/ \E id \in 0..(node[p].recv_counter - 1) : CancelRecv(p, id)
  \/ \E id \in 0..(node[p].send_counter - 1) : CancelSend(p, id)

\* on_connection_handler_event
HandlerEvent(p, q, c) ==
  \/ OnIncomingFile(p, q, c)
  \/ OnRecvProgressed(p, q, c)
  \/ OnFileSendAccepted(p, q, c)
  \/ AcceptedTwice(p, q, c)
  \/ OnSendProgressed(p, q, c)
  \/ OnRemoteCancelSend(p, q, c)
  \/ OnRemoteCancelRecv(p, q, c)
  \/ OnOutboundNegotiated(p, q, c)
  \/ \E t \in {"Error", "InboundNegotiated"} : OnReport(p, q, c, t)

Transport(p, q, c) ==
  \/ OpenStream(p, q, c)
  \/ Transmit(p, q, c)
  \/ Arrive(p, q, c)
  \/ Complete(p, q, c)
  \/ ConnectionNoticed(p, q, c)

Failure(p, q, c) ==
  \/ Fail(p, q, c)
  \/ ConnectionLost(p, q, c)

Next ==
  \/ \E p \in Peers : User(p) \/ Poll(p) \/ PollExpiry(p) \/ Restart(p)
  \/ \E p, q \in Peers, c \in Conns :
       \/ HandlerEvent(p, q, c)
       \/ Transport(p, q, c)
       \/ Failure(p, q, c)
       \/ Connect(p, q, c)

Spec == Init /\ [][Next]_vars

-----------------------------------------------------------------------------
(* Fairness.  As long as some task has work, some task does it: swarm      *)
(* tasks keep polling the Behaviour and handing it what the handlers       *)
(* report, connection tasks keep polling their handlers, and a connection  *)
(* that is gone at one end is noticed at the other.  Users and the         *)
(* environment owe nothing.                                                *)

System ==
  \E p \in Peers :
    \/ Poll(p)
    \/ \E q \in Peers \ {p}, c \in Conns :
         HandlerEvent(p, q, c) \/ Transport(p, q, c)

\* An ongoing send that nothing touches any more grows older than its timeout:
\* this step is due at the first poll five seconds after the last check.  The
\* throttle is reset without being polled again (behaviour.rs:785-788) and so
\* need not wake anybody; what brings the poll is the timer of the swarm's
\* loop (swarm/mod.rs:188-193), Timer in Swarm.
ExpireSends ==
  \E p \in Peers : \E x \in Expiries(node[p]) :
    x.os # <<>> /\ PollWith(p, x)

FairSpec == Spec /\ WF_vars(System)

-----------------------------------------------------------------------------
(* Properties. *)

\* The type of every variable: the structs of behaviour.rs and handler.rs,
\* with at most one message outstanding per handler.
TypeOK ==
  /\ node \in [Peers -> Behaviour]
  /\ conn \in [Peers -> [Peers -> SUBSET Conns]]
  /\ link \in [Links -> Handler]
  /\ wire \in [Links -> Slot]
  /\ panic \in [Peers -> {"none", "Already handled", "callback to succeed"}]
  /\ cancelled \in [Peers -> [send : SUBSET Nat, recv : SUBSET Nat]]
  /\ accepted \subseteq Peers \X Nat \X Files
  /\ faults \in Nat
  /\ restarts \in Nat

Sends(b) == b.pending_send \cup b.ongoing_send
Recvs(b) == b.pending_recv \cup b.ongoing_recv

\* The ids of one Behaviour.
Ids(b) ==
  /\ \A s, t \in Sends(b) : s.local_send_id = t.local_send_id => s = t
  /\ \A s \in Sends(b) : s.local_send_id < b.send_counter
  /\ \A r, t \in Recvs(b) : r.local_recv_id = t.local_recv_id => r = t
  /\ \A r \in Recvs(b) : r.local_recv_id < b.recv_counter
  /\ \A r, t \in b.ongoing_recv : r.remote_send_id = t.remote_send_id => r = t

\* An id of Behaviour names one operation: no two records, pending or ongoing,
\* share a local id, no record has an id that was not handed out yet, and the
\* keys of ongoing_recv (remote send ids) name one record each.
IdsConsistent == \A p \in Peers : Ids(node[p])

\* on_disconnect leaves nothing behind and nothing comes back: every record,
\* and every member of connected_peers, is about a peer to which the swarm
\* still holds a connection, whatever is still queued for or from that peer.
NoOrphanRecords ==
  \A p \in Peers, q \in Peers :
    conn[p][q] = {} =>
      /\ q \notin node[p].connected_peers
      /\ \A r \in Sends(node[p]) \cup Recvs(node[p]) : r.remote # q

\* Once cancel_send has returned Ok no record of that send exists again, even
\* if the remote's AcceptFile or the acknowledgement of a chunk was already on
\* its way: no more bytes are read from the file.
CancelledSendStays ==
  \A p \in Peers : \A s \in Sends(node[p]) :
    s.local_send_id \notin cancelled[p].send

\* Where chunks of send id of p are queued, being transmitted, or acknowledged
\* without the Behaviour having seen it.
Outstanding(p, id) ==
  LET chunk(m) == m.type = "FileChunk" /\ m.id = id
      done(e)  == e.type = "SendProgressed" /\ e.id = id
      q        == node[p].pending_handler_event
      mine     == {l \in Links : l[1] = p}
      inq(l)   == {i \in DOMAIN link[l].inq : chunk(link[l].inq[i])}
      ev(l)    == {i \in DOMAIN link[l].ev : done(link[l].ev[i])}
      busy(l)  == link[l].busy # <<>> /\ chunk(link[l].busy[1])
  IN  {<<"queue", p, i>> : i \in {i \in DOMAIN q : chunk(q[i].msg)}}
      \cup (UNION {{<<"inq", l, i>> : i \in inq(l)} : l \in mine})
      \cup {<<"busy", l, 1>> : l \in {l \in mine : busy(l)}}
      \cup (UNION {{<<"ev", l, i>> : i \in ev(l)} : l \in mine})

\* Flow control of progress_ongoing_send: a send never has two chunks on their
\* way, so a fast disk cannot flood a handler, and, as long as nothing fails,
\* an ongoing send always has one, so it cannot stall.
OneChunkInFlight ==
  \A p \in Peers :
    /\ \A id \in 0..node[p].send_counter :
         \A x, y \in Outstanding(p, id) : x = y
    /\ faults = 0 /\ restarts = 0 =>
         \A s \in node[p].ongoing_send :
           Outstanding(p, s.local_send_id) # {}

\* Handle::cancel_send: once it has returned Ok, no more bytes of the file are
\* sent to the remote.
CancelSendStops ==
  [][\A l \in Links :
       wire'[l] # <<>> /\ wire'[l] # wire[l] /\ wire'[l][1].type = "FileChunk"
         => wire'[l][1].id \notin cancelled[l[1]].send]_vars

\* Handle::send_file: no chunk of a file is sent until the remote's user has
\* accepted the request.  Here: none is even read.
AcceptedBeforeSent ==
  \A p \in Peers : \A s \in node[p].ongoing_send :
    <<p, s.local_send_id, s.file>> \in accepted

\* `.expect("Already handled")' of pending_send_accepted is never reached.
AcceptHandledOnce == \A p \in Peers : panic[p] # "Already handled"

\* One send is one recv: an announcement is not turned into two records, so
\* the user is not asked twice and no send is accepted twice.
OneRecvPerSend ==
  \A p \in Peers : \A r, t \in Recvs(node[p]) :
    r.remote = t.remote /\ r.remote_send_id = t.remote_send_id => r = t

Content(f) == [i \in 1..FileData[f] |-> <<f, i>>]

\* What a receiver has written is at all times a beginning of the file that
\* was announced: no chunk is lost, repeated, reordered or of another file.
\* Violated with two senders, whose transfers share keys of ongoing_recv, and
\* with two connections between the peers, which keep no common order.
WrittenIsPrefix ==
  \A p \in Peers : \A o \in node[p].ongoing_recv :
    /\ Len(o.data) <= FileData[o.file]
    /\ o.data = SubSeq(Content(o.file), 1, Len(o.data))

\* When the user is told that a recv is complete (RecvProgressed with
\* bytes_received = bytes_total), the file holds exactly what was announced.
CompletionIsWhole ==
  [][\A p \in Peers : \A o \in node[p].ongoing_recv :
       LET out == node'[p].out_events
       IN  /\ out # <<>> /\ Len(out) > Len(node[p].out_events)
           /\ out[Len(out)].type = "RecvProgressed"
           /\ out[Len(out)].id = o.local_recv_id
           => o.data = Content(o.file) /\ Len(o.data) = FileLen[o.file]]_vars

\* InEvent::CancelRecv cancels the recv operation with the given id: looked up
\* by its local id, every recv, pending or ongoing, is found, and only it.
CancelRecvFinds ==
  \A p \in Peers : \A r \in Recvs(node[p]) :
    recv_record(node[p], r.local_recv_id) = {r}

\* Every transfer ends at both ends unless something has failed: chunk and
\* acknowledgement keep each other going until the empty chunk.
TransfersEnd ==
  \A p \in Peers :
    (node[p].ongoing_send # {} \/ node[p].ongoing_recv # {})
      ~> (\/ node[p].ongoing_send = {} /\ node[p].ongoing_recv = {}
          \/ faults + restarts > 0)

\* Whatever fails, an ongoing send does not stay for ever: its chunk may be
\* lost without the Behaviour learning which one it was, and only the timeout
\* gets the record out of the map.
SendsExpire ==
  WF_vars(ExpireSends) =>
    \A p \in Peers : node[p].ongoing_send # {} ~> node[p].ongoing_send = {}

=============================================================================
