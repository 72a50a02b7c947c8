----------------------------- MODULE Messaging ------------------------------
(***************************************************************************)
(* owlnest-messaging between a local and a remote node                     *)
(* (protocols/owlnest-messaging/src, owlnest-prelude's universal send and  *)
(* recv, owlnest/src/net/p2p/protocols/messaging.rs), in one direction.    *)
(* The other one shares with it the handlers' queues of outgoing events    *)
(* and their State: a remote handler that has given up on its own          *)
(* direction reads nothing more, and here the remote owes no step at all.  *)
(*                                                                         *)
(* A message passes from its caller to the Behaviour, to the handler of    *)
(* some connection, to the stream that handler holds, and the remote       *)
(* handler answers with a hash of what it read.  A frame is written and    *)
(* read in one step; the way of a received message from the remote handler *)
(* to the remote's swarm event loses and reorders nothing and is left out. *)
(***************************************************************************)
EXTENDS Naturals, Sequences, SequencesExt

CONSTANTS
  Messages,      \* calls of send_message, each with its message
  Content,       \* Content[m]: the bytes of m, of which the verifier is the hash
  Conns          \* connections that may be established with the remote

Contents == {Content[m] : m \in Messages}

VARIABLES
  tooLong,    \* the contents that are longer than recv accepts; never changes
  call,       \* call[m]: where the call of send_message is
  inEvents,   \* Behaviour.in_events and the handle's channel in front of it
  connected,  \* whether the remote is in Behaviour.connected_peers
  link,       \* link[k]: the local end of connection k
  up,         \* up[k]: the remote end of connection k is alive
  known,      \* connections the Behaviour has not been told are closed
  handler,    \* handler[k]: the local handler of connection k
  events,     \* events[k]: what the Behaviour has yet to hear of connection k
  streams,    \* streams[k]: the streams opened on connection k
  offered,    \* offered[k]: streams the remote handler has not been given yet
  inbound,    \* inbound[k]: the stream the remote handler reads, or 0
  delivered,  \* IncomingMessage events of the remote, in order
  posted      \* posted[k]: messages handed to the handler of connection k, in order

vars == <<tooLong, call, inEvents, connected, link, up, known, handler,
          events, streams, offered, inbound, delivered, posted>>

localVars  == <<call, inEvents, connected, known, handler, events, posted>>
remoteVars == <<offered, inbound, delivered>>

-----------------------------------------------------------------------------
(* State, OutboundState and Handler::new; task is the message being sent.   *)
Handler ==
  [state : {"Active", "Inactive", "Reported"}, pending : Seq(Messages),
   outbound : {"None", "OpenStream", "Idle", "Busy"}, task : SUBSET Messages]
NewHandler ==
  [state |-> "Active", pending |-> <<>>, outbound |-> "None", task |-> {}]

(* A stream: frames the remote has not read, verifiers the local side has   *)
(* not read, and whether the remote still holds its end.                    *)
Stream == [data : Seq(Messages), ack : Seq(Contents),
           open : BOOLEAN]
NewStream == [data |-> <<>>, ack |-> <<>>, open |-> TRUE]

Answers == {"ok", "timeout", "not_found", "panicked"}

Current(k) == Len(streams[k])
Sending(k) == CHOOSE m \in Messages : handler[k].task = {m}

(* The local handler holds the newest stream while it is Idle or Busy.      *)
Holds(k, s) == s = Current(k) /\ handler[k].outbound \in {"Idle", "Busy"}

Answered(ms, a) == [m \in Messages |-> IF m \in ms THEN a ELSE call[m]]

-----------------------------------------------------------------------------
(* The handle and the Behaviour. *)

(* send_message: the command is sent and the caller waits.                  *)
send_message(m) ==
  /\ call[m] = "none"
  /\ call' = Answered({m}, "waiting")
  /\ inEvents' = Append(inEvents, m)
  /\ UNCHANGED <<connected, known, handler, events, posted, remoteVars,
                 tooLong, link, up, streams>>

(* handle_in_events: NotifyHandler::Any reaches some connection whose task  *)
(* runs; with none, the event is dropped and its callback with it.          *)
handle_in_events ==
  /\ inEvents # <<>>
  /\ inEvents' = Tail(inEvents)
  /\ LET m == Head(inEvents) IN
     \/ /\ ~connected
        /\ call' = Answered({m}, "not_found")
        /\ UNCHANGED <<handler, posted>>
     \/ /\ connected /\ \A k \in Conns : link[k] # "open"
        /\ call' = Answered({m}, "panicked")
        /\ UNCHANGED <<handler, posted>>
     \/ \E k \in Conns :
          /\ connected /\ link[k] = "open"
          /\ handler' = [handler EXCEPT ![k].pending = Append(@, m)]
          /\ posted' = [posted EXCEPT ![k] = Append(@, m)]
          /\ UNCHANGED call
  /\ UNCHANGED <<connected, known, events, remoteVars, tooLong, link, up,
                 streams>>

(* Whether the remote stays listed when connection k is reported closed:    *)
(* on_disconnect looks at the number of connections that remain.            *)
\* Mutant of on_disconnect: a peer is forgotten with any of its connections.
on_disconnect_any(k) == FALSE
on_disconnect(k) == connected /\ known \ {k} # {}

(* on_handler_event and on_swarm_event, for the next event of connection k. *)
(* The events that are only passed on to the swarm are left out.            *)
on_event(k) ==
  /\ events[k] # <<>>
  /\ events' = [events EXCEPT ![k] = Tail(@)]
  /\ LET e == Head(events[k]) IN
     /\ known' = IF e = "ConnectionClosed" THEN known \ {k} ELSE known
     /\ connected' = IF e = "ConnectionClosed" THEN on_disconnect(k) ELSE TRUE
  /\ UNCHANGED <<call, inEvents, handler, posted, remoteVars, tooLong, link,
                 up, streams>>

-----------------------------------------------------------------------------
(* The local handler: one action per branch of poll and of                  *)
(* on_connection_event.                                                     *)

(* The handler of k becomes h, and answers with a the calls in ms.          *)
Handled(k, h, ms, a) ==
  /\ link[k] = "open"
  /\ handler' = [handler EXCEPT ![k] = h]
  /\ call' = Answered(ms, a)
  /\ UNCHANGED <<inEvents, connected, known, posted, tooLong, link, up>>

(* outbound = None: the task, its stream and its callback are gone.         *)
Released(k) == [handler[k] EXCEPT !.outbound = "None", !.task = {}]

ReportUnsupported(k) ==
  /\ handler[k].state = "Inactive"
  /\ Handled(k, [handler[k] EXCEPT !.state = "Reported"], {}, "ok")
  /\ UNCHANGED <<events, streams, remoteVars>>

(* poll_outbound with no outbound: OutboundSubstreamRequest.                *)
\* Mutant of RequestStream: a stream is requested once and never again.
RequestStream_once(k) ==
  /\ handler[k].state = "Active" /\ handler[k].outbound = "None"
  /\ streams[k] = <<>>
  /\ Handled(k, [handler[k] EXCEPT !.outbound = "OpenStream"], {}, "ok")
  /\ UNCHANGED <<events, streams, remoteVars>>
RequestStream(k) ==
  /\ handler[k].state = "Active" /\ handler[k].outbound = "None"
  /\ Handled(k, [handler[k] EXCEPT !.outbound = "OpenStream"], {}, "ok")
  /\ UNCHANGED <<events, streams, remoteVars>>

(* FullyNegotiatedOutbound; the remote's end is given to its handler later. *)
\* Mutant of FullyNegotiatedOutbound: announced as an inbound stream.
FullyNegotiatedOutbound_inbound(k) ==
  /\ handler[k].outbound = "OpenStream" /\ up[k]
  /\ Handled(k, [handler[k] EXCEPT !.outbound = "Idle"], {}, "ok")
  /\ events' = [events EXCEPT ![k] = Append(@, "InboundNegotiated")]
  /\ streams' = [streams EXCEPT ![k] = Append(@, NewStream)]
  /\ offered' = [offered EXCEPT ![k] = Append(@, Len(streams[k]) + 1)]
  /\ UNCHANGED <<inbound, delivered>>
FullyNegotiatedOutbound(k) ==
  /\ handler[k].outbound = "OpenStream" /\ up[k]
  /\ Handled(k, [handler[k] EXCEPT !.outbound = "Idle"], {}, "ok")
  /\ events' = [events EXCEPT ![k] = Append(@, "OutboundNegotiated")]
  /\ streams' = [streams EXCEPT ![k] = Append(@, NewStream)]
  /\ offered' = [offered EXCEPT ![k] = Append(@, Len(streams[k]) + 1)]
  /\ UNCHANGED <<inbound, delivered>>

(* on_dial_upgrade_error: NegotiationFailed, upon which the handler gives   *)
(* up for as long as its connection lasts, or any other error.  Either may  *)
(* come at any negotiation, the first or one that replaces a lost stream.   *)
on_dial_upgrade_error(k) ==
  /\ handler[k].outbound = "OpenStream"
  /\ \/ Handled(k, [Released(k) EXCEPT !.state = "Inactive"], {}, "ok")
     \/ Handled(k, Released(k), {}, "ok")
  /\ UNCHANGED <<events, streams, remoteVars>>

(* progress_in_events, then send writes the frame.                          *)
\* Mutant of progress_in_events: the newest message is sent first.
progress_in_events_newest(k) ==
  /\ handler[k].outbound = "Idle" /\ handler[k].pending # <<>>
  /\ LET m == Last(handler[k].pending) IN
     /\ Handled(k, [handler[k] EXCEPT !.outbound = "Busy", !.task = {m},
                                      !.pending = Front(@)], {}, "ok")
     /\ streams' = [streams EXCEPT ![k][Current(k)].data = Append(@, m)]
  /\ UNCHANGED <<events, remoteVars>>
progress_in_events(k) ==
  /\ handler[k].outbound = "Idle" /\ handler[k].pending # <<>>
  /\ LET m == Head(handler[k].pending) IN
     /\ Handled(k, [handler[k] EXCEPT !.outbound = "Busy", !.task = {m},
                                      !.pending = Tail(@)], {}, "ok")
     /\ streams' = [streams EXCEPT ![k][Current(k)].data = Append(@, m)]
  /\ UNCHANGED <<events, remoteVars>>

(* The verifier has come: Ok and the stream is free, or, when it is not the *)
(* hash of what was sent, an error that drops the callback.                 *)
SendDone(k) ==
  LET s == streams[k][Current(k)] IN
  /\ handler[k].outbound = "Busy" /\ s.ack # <<>>
  /\ streams' = [streams EXCEPT ![k][Current(k)].ack = Tail(@)]
  /\ IF Head(s.ack) = Content[Sending(k)]
     THEN Handled(k, [handler[k] EXCEPT !.outbound = "Idle", !.task = {}],
                  handler[k].task, "ok")
     ELSE Handled(k, Released(k), handler[k].task, "panicked")
  /\ UNCHANGED <<events, remoteVars>>

(* The timer fires while send is pending: the callback is answered and the  *)
(* stream dropped, whatever is under way on it.                             *)
\* Mutant of SendTimeout: the stream is kept for the next message.
SendTimeout_keeps(k) ==
  /\ handler[k].outbound = "Busy" /\ streams[k][Current(k)].ack = <<>>
  /\ Handled(k, [handler[k] EXCEPT !.outbound = "Idle", !.task = {}],
             handler[k].task, "timeout")
  /\ UNCHANGED <<events, streams, remoteVars>>
SendTimeout(k) ==
  /\ handler[k].outbound = "Busy" /\ streams[k][Current(k)].ack = <<>>
  /\ streams[k][Current(k)].open
  /\ Handled(k, Released(k), handler[k].task, "timeout")
  /\ UNCHANGED <<events, streams, remoteVars>>

(* send fails: the remote has dropped the stream.  The callback is dropped  *)
(* with the task.                                                           *)
SendError(k) ==
  /\ handler[k].outbound = "Busy" /\ streams[k][Current(k)].ack = <<>>
  /\ ~streams[k][Current(k)].open
  /\ Handled(k, Released(k), handler[k].task, "panicked")
  /\ UNCHANGED <<events, streams, remoteVars>>

-----------------------------------------------------------------------------
(* The remote handler. *)

(* A stream the remote lets go of.                                          *)
Dropped(ss, s) == IF s = 0 THEN ss
                  ELSE [ss EXCEPT ![s].data = <<>>, ![s].open = FALSE]

(* FullyNegotiatedInbound: the stream takes the place of the one being read *)
(* and of whatever is still unread on it.                                   *)
FullyNegotiatedInbound(k) ==
  /\ up[k] /\ offered[k] # <<>>
  /\ inbound' = [inbound EXCEPT ![k] = Head(offered[k])]
  /\ offered' = [offered EXCEPT ![k] = Tail(@)]
  /\ streams' = [streams EXCEPT ![k] = Dropped(@, inbound[k])]
  /\ UNCHANGED <<localVars, delivered, tooLong, link, up>>

(* recv: the frame is read, its hash written and the message passed on; one *)
(* that is too long ends the stream.                                        *)
recv(k) ==
  LET s == inbound[k] IN
  /\ up[k] /\ s # 0 /\ streams[k][s].data # <<>>
  /\ LET m == Head(streams[k][s].data) IN
     \/ /\ Content[m] \notin tooLong
        /\ streams' = [streams EXCEPT ![k][s].data = Tail(@),
                         ![k][s].ack = Append(@, Content[m])]
        /\ delivered' = Append(delivered, m)
        /\ UNCHANGED inbound
     \/ /\ Content[m] \in tooLong
        /\ streams' = [streams EXCEPT ![k] = Dropped(@, s)]
        /\ inbound' = [inbound EXCEPT ![k] = 0]
        /\ UNCHANGED delivered
  /\ UNCHANGED <<localVars, offered, tooLong, link, up>>

(* The local side has dropped the stream and nothing is left to read.       *)
RecvEof(k) ==
  LET s == inbound[k] IN
  /\ up[k] /\ s # 0 /\ streams[k][s].data = <<>> /\ ~Holds(k, s)
  /\ inbound' = [inbound EXCEPT ![k] = 0]
  /\ streams' = [streams EXCEPT ![k] = Dropped(@, s)]
  /\ UNCHANGED <<localVars, offered, delivered, tooLong, link, up>>

-----------------------------------------------------------------------------
(* Connections. *)

Establish(k) ==
  /\ link[k] = "none"
  /\ link' = [link EXCEPT ![k] = "open"]
  /\ up' = [up EXCEPT ![k] = TRUE]
  /\ known' = known \cup {k}
  /\ UNCHANGED <<call, inEvents, connected, handler, events, posted, streams,
                 remoteVars, tooLong>>

(* The local end closes: the handler goes with the callbacks it holds, and  *)
(* with the events, a suffix of events[k], it has not yet passed on.        *)
Close(k, n) ==
  /\ link[k] = "open" /\ n <= Len(events[k])
  /\ link' = [link EXCEPT ![k] = "closed"]
  /\ call' = Answered(handler[k].task \cup ToSet(handler[k].pending), "panicked")
  /\ handler' = [handler EXCEPT ![k] = NewHandler]
  /\ events' = [events EXCEPT ![k] = Append(SubSeq(@, 1, n), "ConnectionClosed")]
  /\ UNCHANGED <<inEvents, connected, known, posted, streams, remoteVars,
                 tooLong, up>>

(* The remote end goes away, with what it has not read.                     *)
RemoteCloses(k) ==
  /\ up[k]
  /\ up' = [up EXCEPT ![k] = FALSE]
  /\ streams' = [streams EXCEPT ![k] =
                   [s \in DOMAIN @ |-> [@[s] EXCEPT !.data = <<>>, !.open = FALSE]]]
  /\ offered' = [offered EXCEPT ![k] = <<>>]
  /\ inbound' = [inbound EXCEPT ![k] = 0]
  /\ UNCHANGED <<localVars, delivered, tooLong, link>>

-----------------------------------------------------------------------------
Init ==
  /\ tooLong \in SUBSET Contents
  /\ call = [m \in Messages |-> "none"]
  /\ inEvents = <<>>
  /\ connected = FALSE
  /\ link = [k \in Conns |-> "none"]
  /\ up = [k \in Conns |-> FALSE]
  /\ known = {}
  /\ handler = [k \in Conns |-> NewHandler]
  /\ events = [k \in Conns |-> <<>>]
  /\ streams = [k \in Conns |-> <<>>]
  /\ offered = [k \in Conns |-> <<>>]
  /\ inbound = [k \in Conns |-> 0]
  /\ delivered = <<>>
  /\ posted = [k \in Conns |-> <<>>]

Negotiated(k) == FullyNegotiatedOutbound(k) \/ on_dial_upgrade_error(k)

(* The next poll of the handler of k, and whatever it waits for.            *)
Poll(k) ==
  \/ ReportUnsupported(k) \/ RequestStream(k) \/ Negotiated(k)
  \/ progress_in_events(k) \/ SendDone(k) \/ SendTimeout(k) \/ SendError(k)

Remote(k) == FullyNegotiatedInbound(k) \/ recv(k) \/ RecvEof(k)

Next ==
  \/ \E m \in Messages : send_message(m)
  \/ handle_in_events
  \/ \E k \in Conns :
       \/ on_event(k) \/ Poll(k) \/ Remote(k)
       \/ Establish(k) \/ RemoteCloses(k)
       \/ \E n \in 0 .. Len(events[k]) : Close(k, n)

(* The swarm task runs, and so does the task of each connection, woken by   *)
(* ping if by nothing else; the handler's timer and the timeout libp2p puts *)
(* on a negotiation fire.  The remote and the network owe nothing.          *)
Fairness ==
  /\ WF_vars(handle_in_events \/ \E k \in Conns : on_event(k))
  /\ \A k \in Conns : WF_vars(Poll(k))

Spec     == Init /\ [][Next]_vars
LiveSpec == Spec /\ Fairness

-----------------------------------------------------------------------------
(* Properties. *)

TypeOK ==
  /\ tooLong \subseteq Contents
  /\ call \in [Messages -> {"none", "waiting"} \cup Answers]
  /\ inEvents \in Seq(Messages)
  /\ connected \in BOOLEAN
  /\ link \in [Conns -> {"none", "open", "closed"}]
  /\ up \in [Conns -> BOOLEAN]
  /\ known \subseteq Conns
  /\ handler \in [Conns -> Handler]
  /\ events \in [Conns -> Seq({"OutboundNegotiated", "ConnectionClosed"})]
  /\ streams \in [Conns -> Seq(Stream)]
  /\ offered \in [Conns -> Seq(Nat)]
  /\ inbound \in [Conns -> Nat]
  /\ delivered \in Seq(Messages)
  /\ posted \in [Conns -> Seq(Messages)]
  /\ \A k \in Conns : handler[k].outbound = "Busy" <=> handler[k].task # {}

(* send_message keeps the promises of Courier: at most one delivery, no Ok  *)
(* without a delivery, no delivery of what was refused, even for messages   *)
(* of the same bytes and after timeouts (handler.rs:194-243).               *)
Promise == INSTANCE Courier WITH
  answer  <- [m \in Messages |->
                CASE call[m] = "none"      -> "none"
                  [] call[m] = "waiting"   -> "open"
                  [] call[m] = "ok"        -> "ok"
                  [] call[m] = "not_found" -> "refused"
                  [] OTHER                 -> "failed"],
  arrived <- delivered
KeepsPromise == Promise!Spec

(* Messages that took the same connection arrive in the order in which the  *)
(* Behaviour handed them over, with gaps but without overtaking, whatever   *)
(* streams were dropped and replaced on the way (handler.rs:109-122).       *)
InOrder ==
  \A k \in Conns :
    \A i, j \in DOMAIN delivered :
      i < j /\ delivered[i] \in ToSet(posted[k]) /\ delivered[j] \in ToSet(posted[k])
        => \E x, y \in DOMAIN posted[k] :
             x < y /\ posted[k][x] = delivered[i] /\ posted[k][y] = delivered[j]

(* connected_peers is right up to what the Behaviour has not been told: the *)
(* remote is listed only while a connection to it is known, and as long as  *)
(* one that has negotiated is (behaviour.rs:29-33, 131-134).                *)
ConnectedMatches ==
  /\ connected => known # {}
  /\ \A k \in known :
       streams[k] # <<>> =>
         connected \/ \E i \in DOMAIN events[k] :
                         events[k][i] \in {"OutboundNegotiated", "ConnectionClosed"}

(* The help of the network that the code waits for without a timer of its   *)
(* own: a negotiation that is tried again and again succeeds or is refused, *)
(* and a connection whose remote end is gone closes.                        *)
NetworkHelps ==
  \A k \in Conns :
    /\ SF_vars(FullyNegotiatedOutbound(k))
    /\ WF_vars(~up[k] /\ \E n \in 0 .. Len(events[k]) : Close(k, n))

(* m is in the queue of a handler that has given up on the protocol and is  *)
(* never going to look at its queue again (handler.rs:74-83).               *)
Stranded(m) ==
  \E k \in Conns : handler[k].state # "Active" /\ m \in ToSet(handler[k].pending)

(* If the network helps, no call of send_message hangs but in the queue of  *)
(* a handler that has given up: the caller gets an answer or loses its      *)
(* callback, whatever else the remote does (handler.rs:194-243).            *)
CallsEnd ==
  NetworkHelps =>
    \A m \in Messages : call[m] = "waiting" ~> call[m] \in Answers \/ Stranded(m)
=============================================================================
