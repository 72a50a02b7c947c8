-------------------------- MODULE MessagingProofs ---------------------------
(***************************************************************************)
(* Proofs about Messaging, for every set of messages, contents and         *)
(* connections: its types, that connected_peers follows the connections,   *)
(* that no message is overtaken, and that send_message implements Courier. *)
(***************************************************************************)
EXTENDS Messaging, TLAPS

-----------------------------------------------------------------------------
(* The inductive invariant, in five parts beside the types. *)

(* What the Behaviour knows of a connection and has yet to hear of it.      *)
LinkOf(k) ==
  /\ link[k] = "none" =>
       /\ k \notin known /\ ~up[k] /\ handler[k] = NewHandler
       /\ events[k] = <<>> /\ streams[k] = <<>>
  /\ link[k] = "open" =>
       k \in known /\ \A i \in DOMAIN events[k] : events[k][i] = "OutboundNegotiated"
  /\ link[k] = "closed" =>
       /\ handler[k] = NewHandler
       /\ k \notin known => events[k] = <<>>
       /\ k \in known => events[k] # <<>>
       /\ \A i \in DOMAIN events[k] :
            events[k][i] = "ConnectionClosed" <=> i = Len(events[k])
LinkInv == \A k \in Conns : LinkOf(k)

(* A message is before the Behaviour, or has been handed to one connection, *)
(* once.                                                                    *)
QueueInv ==
  /\ \A i \in DOMAIN inEvents :
       /\ call[inEvents[i]] = "waiting"
       /\ \A j \in DOMAIN inEvents : inEvents[i] = inEvents[j] => i = j
       /\ \A k \in Conns : \A j \in DOMAIN posted[k] : inEvents[i] # posted[k][j]
  /\ \A k, l \in Conns : \A i \in DOMAIN posted[k], j \in DOMAIN posted[l] :
       posted[k][i] = posted[l][j] => k = l /\ i = j
  /\ \A k \in Conns : \A i \in DOMAIN posted[k] :
       call[posted[k][i]] \notin {"none", "not_found"}

(* The handler holds the last messages handed over; the task is the one     *)
(* before them.  Sent(k) counts those that have left the queue.             *)
Sent(k) == Len(posted[k]) - Len(handler[k].pending)
HandlerOf(k) ==
  /\ Len(handler[k].pending) <= Len(posted[k])
  /\ \A i \in DOMAIN handler[k].pending :
       /\ handler[k].pending[i] = posted[k][Sent(k) + i]
       /\ call[handler[k].pending[i]] = "waiting"
  /\ \A m \in handler[k].task :
       /\ Sent(k) \in DOMAIN posted[k] /\ m = posted[k][Sent(k)]
       /\ call[m] = "waiting"
HandlerInv == \A k \in Conns : HandlerOf(k)

(* The streams: at most one frame is unread on each.  On the one the        *)
(* handler holds, it is the frame of the task, and a verifier says that the *)
(* task has been delivered.  The remote reads them in the order of their    *)
(* opening and what it has passed over is empty.                            *)
Delivered(m) == \E p \in DOMAIN delivered : delivered[p] = m
HeldOf(k) ==
  /\ handler[k].outbound \in {"Idle", "Busy"} => streams[k] # <<>>
  /\ handler[k].outbound = "Idle" =>
       streams[k][Current(k)].data = <<>> /\ streams[k][Current(k)].ack = <<>>
  /\ handler[k].outbound = "Busy" =>
       /\ streams[k][Current(k)].ack # <<>> =>
            /\ streams[k][Current(k)].data = <<>>
            /\ Len(streams[k][Current(k)].ack) = 1
            /\ \A m \in handler[k].task : Delivered(m)
       /\ streams[k][Current(k)].data # <<>> =>
            streams[k][Current(k)].data[1] \in handler[k].task
ToRead(k, s) == s = inbound[k] \/ \E i \in DOMAIN offered[k] : s = offered[k][i]
ReadOf(k) ==
  /\ inbound[k] <= Len(streams[k])
  /\ \A i \in DOMAIN offered[k] :
       /\ inbound[k] < offered[k][i] /\ offered[k][i] <= Len(streams[k])
       /\ \A j \in DOMAIN offered[k] : i < j => offered[k][i] < offered[k][j]
  /\ \A s \in DOMAIN streams[k] :
       /\ Len(streams[k][s].data) <= 1
       /\ up[k] /\ streams[k][s].data # <<>> => ToRead(k, s)
  /\ up[k] /\ (\/ handler[k].outbound = "Idle"
               \/ handler[k].outbound = "Busy" /\ streams[k][Current(k)].ack # <<>>)
       => ToRead(k, Current(k))
StreamInv == \A k \in Conns : HeldOf(k) /\ ReadOf(k)

(* The order of delivery: the message with index i on connection k is the   *)
(* unread frame of stream s; it has been delivered p-th.                    *)
Frame(k, s, i) ==
  /\ s \in DOMAIN streams[k] /\ i \in DOMAIN posted[k]
  /\ streams[k][s].data # <<>> /\ streams[k][s].data[1] = posted[k][i]
Got(k, p, i) ==
  p \in DOMAIN delivered /\ i \in DOMAIN posted[k] /\ delivered[p] = posted[k][i]
OrderOf(k) ==
  /\ \A s \in DOMAIN streams[k] : streams[k][s].data # <<>> =>
       \E i \in DOMAIN posted[k] : Frame(k, s, i)
  /\ \A s, i \in Nat : Frame(k, s, i) => i <= Sent(k) /\ call[posted[k][i]] # "ok"
  /\ \A p, i \in Nat : Got(k, p, i) => i <= Sent(k)
  /\ \A s, t, i, j \in Nat :
       Frame(k, s, i) /\ Frame(k, t, j) /\ s < t => i < j
  /\ \A s, p, i, j \in Nat : Frame(k, s, i) /\ Got(k, p, j) => j < i
  /\ \A p, q, i, j \in Nat : Got(k, p, i) /\ Got(k, q, j) /\ p < q => i < j
OrderInv ==
  /\ \A k \in Conns : OrderOf(k)
  /\ \A p \in DOMAIN delivered : \E k \in Conns : \E i \in DOMAIN posted[k] : Got(k, p, i)

Inv == /\ TypeOK /\ LinkInv /\ ConnectedMatches
       /\ QueueInv /\ HandlerInv /\ StreamInv /\ OrderInv

-----------------------------------------------------------------------------
(* Facts about the data. *)

EventName == {"OutboundNegotiated", "ConnectionClosed"}

\* One queue of several changes.
LEMMA QueueType ==
  ASSUME NEW I, NEW S, NEW f \in [I -> Seq(S)], NEW i \in I
  PROVE  /\ \A e \in S : [f EXCEPT ![i] = Append(@, e)] \in [I -> Seq(S)]
         /\ f[i] # <<>> => [f EXCEPT ![i] = Tail(@)] \in [I -> Seq(S)]
         /\ \A q \in Seq(S) : [f EXCEPT ![i] = q] \in [I -> Seq(S)]
  OBVIOUS

\* The handlers a step may leave behind.
LEMMA HandlerTypes ==
  ASSUME TypeOK, NEW k \in Conns
  PROVE  /\ handler[k] \in Handler
         /\ NewHandler \in Handler
         /\ Released(k) \in Handler /\ Released(k).outbound = "None"
         /\ Released(k).task = {} /\ Released(k).pending = handler[k].pending
         /\ Released(k).state = handler[k].state
<1>1. handler[k] \in Handler
  BY DEF TypeOK
<1>2. NewHandler \in Handler
  BY DEF NewHandler, Handler
<1>3. QED
  BY <1>1, <1>2 DEF Released, Handler

\* A stream in use.
LEMMA StreamTypes ==
  ASSUME TypeOK, NEW k \in Conns
  PROVE  /\ streams[k] \in Seq(Stream) /\ NewStream \in Stream
         /\ \A s \in DOMAIN streams[k] :
              /\ streams[k][s] \in Stream
              /\ streams[k][s].data \in Seq(Messages)
              /\ streams[k][s].ack \in Seq(Contents)
<1>1. streams[k] \in Seq(Stream)
  BY DEF TypeOK
<1>2. NewStream \in Stream
  BY DEF NewStream, Stream
<1>3. \A s \in DOMAIN streams[k] : streams[k][s] \in Stream
  BY <1>1
<1>4. QED
  BY <1>1, <1>2, <1>3 DEF Stream

\* One stream of a connection changes and the others stay as they are.
LEMMA StreamChanged ==
  ASSUME TypeOK, NEW k \in Conns, NEW s \in DOMAIN streams[k], NEW r \in Stream,
         streams' = [streams EXCEPT ![k] = [@ EXCEPT ![s] = r]]
  PROVE  /\ streams' \in [Conns -> Seq(Stream)]
         /\ \A l \in Conns \ {k} : streams'[l] = streams[l]
         /\ Len(streams'[k]) = Len(streams[k])
         /\ DOMAIN streams'[k] = DOMAIN streams[k]
         /\ streams'[k][s] = r
         /\ \A t \in DOMAIN streams[k] : t # s => streams'[k][t] = streams[k][t]
<1>1. streams[k] \in Seq(Stream)
  BY DEF TypeOK
<1>2. streams'[k] = [streams[k] EXCEPT ![s] = r]
  BY DEF TypeOK
<1>3. streams'[k] \in Seq(Stream) /\ Len(streams'[k]) = Len(streams[k])
  BY <1>1, <1>2
<1>4. QED
  BY <1>1, <1>2, <1>3 DEF TypeOK

\* What a caller may be told.
LEMMA AnsweredType ==
  ASSUME TypeOK, NEW ms, NEW a \in {"waiting"} \cup Answers
  PROVE  Answered(ms, a) \in [Messages -> {"none", "waiting"} \cup Answers]
  BY DEF TypeOK, Answered

\* Who is told and who is not.
LEMMA AnsweredAt ==
  ASSUME NEW ms, NEW a, call' = Answered(ms, a), NEW m \in Messages
  PROVE  call'[m] = IF m \in ms THEN a ELSE call[m]
  BY DEF Answered

\* Nobody is told anything.
LEMMA AnsweredNobody ==
  ASSUME TypeOK, NEW a
  PROVE  Answered({}, a) = call
  BY DEF Answered, TypeOK

-----------------------------------------------------------------------------
(* What the steps do.  Each action is restated once, with its EXCEPTs       *)
(* resolved; the parts of the invariant use these statements.               *)

\* The handler of k becomes h.
LEMMA HandledStep ==
  ASSUME TypeOK, NEW k \in Conns, NEW h \in Handler, NEW ms, NEW a \in Answers,
         Handled(k, h, ms, a)
  PROVE  /\ link[k] = "open"
         /\ handler' \in [Conns -> Handler] /\ handler'[k] = h
         /\ \A l \in Conns \ {k} : handler'[l] = handler[l]
         /\ call' \in [Messages -> {"none", "waiting"} \cup Answers]
         /\ \A m \in Messages : call'[m] = IF m \in ms THEN a ELSE call[m]
         /\ UNCHANGED <<inEvents, connected, known, posted, tooLong, link, up>>
<1>1. call' \in [Messages -> {"none", "waiting"} \cup Answers]
  BY AnsweredType DEF Handled
<1>2. \A m \in Messages : call'[m] = IF m \in ms THEN a ELSE call[m]
  BY AnsweredAt DEF Handled
<1>3. QED
  BY <1>1, <1>2 DEF Handled, TypeOK

\* ReportUnsupported, RequestStream and on_dial_upgrade_error change the
\* handler's state and what it waits for, and nothing else.
WaitStep(k) ==
  /\ link[k] = "open"
  /\ handler' \in [Conns -> Handler]
  /\ \A l \in Conns \ {k} : handler'[l] = handler[l]
  /\ handler[k].outbound \notin {"Idle", "Busy"} \/ UNCHANGED handler[k].outbound
  /\ handler'[k].outbound \in {"None", "OpenStream"} \/ UNCHANGED handler[k].outbound
  /\ UNCHANGED <<handler[k].pending, handler[k].task>>
  /\ UNCHANGED <<call, inEvents, connected, known, posted, tooLong, link, up,
                 events, streams, offered, inbound, delivered>>

LEMMA WaitSteps ==
  ASSUME TypeOK, NEW k \in Conns,
         ReportUnsupported(k) \/ RequestStream(k) \/ on_dial_upgrade_error(k)
  PROVE  WaitStep(k)
<1>1. handler[k] \in Handler /\ "ok" \in Answers
  BY HandlerTypes DEF Answers
<1>2. ASSUME NEW h \in Handler, Handled(k, h, {}, "ok"),
             UNCHANGED <<events, streams, remoteVars>>,
             h.pending = handler[k].pending, h.task = handler[k].task,
             \/ h.outbound = handler[k].outbound
             \/ /\ handler[k].outbound \in {"None", "OpenStream"}
                /\ h.outbound \in {"None", "OpenStream"}
      PROVE  WaitStep(k)
  <2>1. UNCHANGED call
    BY <1>2, AnsweredNobody DEF Handled
  <2>2. QED
    BY <1>1, <1>2, <2>1, HandledStep DEF WaitStep, remoteVars
<1>3. CASE ReportUnsupported(k)
  <2> DEFINE h == [handler[k] EXCEPT !.state = "Reported"]
  <2>1. h \in Handler /\ h.pending = handler[k].pending /\ h.task = handler[k].task
        /\ h.outbound = handler[k].outbound
    BY <1>1 DEF Handler
  <2>2. QED
    BY <1>2, <1>3, <2>1 DEF ReportUnsupported
<1>4. CASE RequestStream(k)
  <2> DEFINE h == [handler[k] EXCEPT !.outbound = "OpenStream"]
  <2>1. h \in Handler /\ h.pending = handler[k].pending /\ h.task = handler[k].task
        /\ h.outbound = "OpenStream" /\ h.state = handler[k].state
    BY <1>1 DEF Handler
  <2>2. QED
    BY <1>2, <1>4, <2>1 DEF RequestStream
<1>5. CASE on_dial_upgrade_error(k)
  <2> DEFINE h == [Released(k) EXCEPT !.state = "Inactive"]
  <2>1. handler[k].task = {} /\ handler[k].outbound = "OpenStream"
    BY <1>5 DEF on_dial_upgrade_error, TypeOK
  <2>2. h \in Handler /\ h.pending = handler[k].pending /\ h.task = {}
        /\ h.outbound = "None"
    BY HandlerTypes DEF Handler
  <2>3. QED
    BY <1>2, <1>5, <2>1, <2>2, HandlerTypes DEF on_dial_upgrade_error
<1>6. QED
  BY <1>3, <1>4, <1>5

\* FullyNegotiatedOutbound opens a stream and tells the Behaviour.
OpenStep(k) ==
  /\ link[k] = "open" /\ up[k]
  /\ handler' \in [Conns -> Handler]
  /\ \A l \in Conns \ {k} : handler'[l] = handler[l]
  /\ handler[k].outbound = "OpenStream" /\ handler'[k].outbound = "Idle"
  /\ UNCHANGED <<handler[k].pending, handler[k].task, handler[k].state>>
  /\ events' = [events EXCEPT ![k] = Append(@, "OutboundNegotiated")]
  /\ streams' = [streams EXCEPT ![k] = Append(@, NewStream)]
  /\ offered' = [offered EXCEPT ![k] = Append(@, Len(streams[k]) + 1)]
  /\ UNCHANGED <<call, inEvents, connected, known, posted, tooLong, link, up,
                 inbound, delivered>>

LEMMA OpenSteps ==
  ASSUME TypeOK, NEW k \in Conns, FullyNegotiatedOutbound(k)
  PROVE  OpenStep(k)
<1> DEFINE h == [handler[k] EXCEPT !.outbound = "Idle"]
<1>1. h \in Handler /\ h.pending = handler[k].pending /\ h.task = handler[k].task
      /\ h.outbound = "Idle" /\ h.state = handler[k].state
  BY HandlerTypes DEF Handler
<1>2. Handled(k, h, {}, "ok") /\ "ok" \in Answers
  BY DEF FullyNegotiatedOutbound, Answers
<1>3. UNCHANGED call
  BY <1>2, AnsweredNobody DEF Handled
<1>4. /\ link[k] = "open"
      /\ handler' \in [Conns -> Handler] /\ handler'[k] = h
      /\ \A l \in Conns \ {k} : handler'[l] = handler[l]
      /\ UNCHANGED <<inEvents, connected, known, posted, tooLong, link, up>>
  BY <1>1, <1>2, HandledStep
<1>5. QED
  BY <1>1, <1>3, <1>4 DEF FullyNegotiatedOutbound, OpenStep

\* Stream s of connection k becomes r.
StreamBecomes(k, s, r) ==
  /\ streams' \in [Conns -> Seq(Stream)]
  /\ \A l \in Conns \ {k} : streams'[l] = streams[l]
  /\ Len(streams'[k]) = Len(streams[k])
  /\ DOMAIN streams'[k] = DOMAIN streams[k]
  /\ streams'[k][s] = r
  /\ \A t \in DOMAIN streams[k] : t # s => streams'[k][t] = streams[k][t]

\* progress_in_events moves the first message of the queue to the stream.
WriteStep(k) ==
  /\ link[k] = "open"
  /\ handler[k].outbound = "Idle" /\ handler[k].pending # <<>>
  /\ handler' \in [Conns -> Handler]
  /\ \A l \in Conns \ {k} : handler'[l] = handler[l]
  /\ handler'[k].outbound = "Busy" /\ UNCHANGED handler[k].state
  /\ handler'[k].task = {Head(handler[k].pending)}
  /\ handler'[k].pending = Tail(handler[k].pending)
  /\ Current(k) \in DOMAIN streams[k]
  /\ StreamBecomes(k, Current(k), [streams[k][Current(k)] EXCEPT
                                     !.data = Append(@, Head(handler[k].pending))])
  /\ UNCHANGED <<call, inEvents, connected, known, posted, tooLong, link, up,
                 events, offered, inbound, delivered>>

LEMMA WriteSteps ==
  ASSUME TypeOK, StreamInv, NEW k \in Conns, progress_in_events(k)
  PROVE  WriteStep(k)
<1> DEFINE m == Head(handler[k].pending)
           c == Current(k)
           h == [handler[k] EXCEPT !.outbound = "Busy", !.task = {m}, !.pending = Tail(@)]
           r == [streams[k][c] EXCEPT !.data = Append(@, m)]
<1>1. handler[k] \in Handler /\ handler[k].pending # <<>> /\ handler[k].outbound = "Idle"
  BY HandlerTypes DEF progress_in_events
<1>2. handler[k].pending \in Seq(Messages)
  BY <1>1 DEF Handler
<1>3. m \in Messages /\ Tail(handler[k].pending) \in Seq(Messages)
  BY <1>1, <1>2
<1>4. h \in Handler /\ h.pending = Tail(handler[k].pending) /\ h.task = {m}
      /\ h.outbound = "Busy" /\ h.state = handler[k].state
  BY <1>1, <1>3 DEF Handler
<1>5. Handled(k, h, {}, "ok") /\ "ok" \in Answers
  BY DEF progress_in_events, Answers
<1>6. UNCHANGED call
  BY <1>5, AnsweredNobody DEF Handled
<1>7. c \in DOMAIN streams[k]
  <2>1. streams[k] # <<>> /\ streams[k] \in Seq(Stream)
    BY <1>1, StreamTypes DEF StreamInv, HeldOf
  <2>2. QED
    BY <2>1 DEF Current
<1>8. r \in Stream
  <2>1. streams[k][c] \in Stream /\ streams[k][c].data \in Seq(Messages)
    BY <1>7, StreamTypes
  <2>2. Append(streams[k][c].data, m) \in Seq(Messages)
    BY <1>3, <2>1
  <2>3. QED
    BY <2>1, <2>2 DEF Stream
<1>9. streams' = [streams EXCEPT ![k] = [@ EXCEPT ![c] = r]]
  BY <1>7 DEF progress_in_events
<1>10. StreamBecomes(k, c, r)
  BY <1>7, <1>8, <1>9, StreamChanged DEF StreamBecomes
<1>11. /\ link[k] = "open"
       /\ handler' \in [Conns -> Handler] /\ handler'[k] = h
       /\ \A l \in Conns \ {k} : handler'[l] = handler[l]
       /\ UNCHANGED <<inEvents, connected, known, posted, tooLong, link, up>>
  BY <1>4, <1>5, HandledStep
<1>12. QED
  BY <1>1, <1>4, <1>6, <1>7, <1>10, <1>11
  DEF progress_in_events, WriteStep, remoteVars

\* The stream the handler holds.
LEMMA HeldStream ==
  ASSUME TypeOK, StreamInv, NEW k \in Conns,
         handler[k].outbound \in {"Idle", "Busy"}
  PROVE  Current(k) \in DOMAIN streams[k]
<1>1. streams[k] # <<>> /\ streams[k] \in Seq(Stream)
  BY StreamTypes DEF StreamInv, HeldOf
<1>2. QED
  BY <1>1 DEF Current

\* The send is over: the handler lets go of the task, and the callers in ms
\* are told a.  The stream may have lost a verifier.
OverStep(k, o, a) ==
  /\ link[k] = "open" /\ handler[k].outbound = "Busy"
  /\ Current(k) \in DOMAIN streams[k]
  /\ handler' \in [Conns -> Handler]
  /\ \A l \in Conns \ {k} : handler'[l] = handler[l]
  /\ handler'[k].outbound = o /\ handler'[k].task = {}
  /\ UNCHANGED <<handler[k].pending, handler[k].state>>
  /\ call' \in [Messages -> {"none", "waiting"} \cup Answers]
  /\ \A m \in Messages : call'[m] = IF m \in handler[k].task THEN a ELSE call[m]
  /\ UNCHANGED <<inEvents, connected, known, posted, tooLong, link, up,
                 events, offered, inbound, delivered>>

\* SendDone takes the verifier and answers Ok, or fails.
DoneStep(k) ==
  /\ OverStep(k, "Idle", "ok") \/ OverStep(k, "None", "panicked")
  /\ streams[k][Current(k)].ack # <<>>
  /\ StreamBecomes(k, Current(k), [streams[k][Current(k)] EXCEPT !.ack = Tail(@)])

LEMMA DoneSteps ==
  ASSUME TypeOK, StreamInv, NEW k \in Conns, SendDone(k)
  PROVE  DoneStep(k)
<1> DEFINE c == Current(k)
           h == [handler[k] EXCEPT !.outbound = "Idle", !.task = {}]
           r == [streams[k][c] EXCEPT !.ack = Tail(@)]
<1>1. c \in DOMAIN streams[k] /\ handler[k].outbound = "Busy"
  BY HeldStream DEF SendDone
<1>2. streams[k][c] \in Stream /\ streams[k][c].ack \in Seq(Contents)
      /\ streams[k][c].ack # <<>>
  BY <1>1, StreamTypes DEF SendDone
<1>3. r \in Stream
  <2>1. Tail(streams[k][c].ack) \in Seq(Contents)
    BY <1>2
  <2>2. QED
    BY <1>2, <2>1 DEF Stream
<1>4. streams' = [streams EXCEPT ![k] = [@ EXCEPT ![c] = r]]
  BY <1>1 DEF SendDone
<1>5. StreamBecomes(k, c, r)
  BY <1>1, <1>3, <1>4, StreamChanged DEF StreamBecomes
<1>6. h \in Handler /\ h.pending = handler[k].pending /\ h.task = {}
      /\ h.outbound = "Idle" /\ h.state = handler[k].state
  BY HandlerTypes DEF Handler
<1>7. "ok" \in Answers /\ "panicked" \in Answers
  BY DEF Answers
<1>8. UNCHANGED <<events, offered, inbound, delivered>>
  BY DEF SendDone, remoteVars
<1>9. CASE Handled(k, h, handler[k].task, "ok")
  <2> HIDE DEF h
  <2>1. OverStep(k, "Idle", "ok")
    BY <1>1, <1>6, <1>7, <1>8, <1>9, HandledStep DEF OverStep
  <2>2. QED
    BY <1>2, <1>5, <2>1 DEF DoneStep
<1>10. CASE Handled(k, Released(k), handler[k].task, "panicked")
  <2>1. OverStep(k, "None", "panicked")
    BY <1>1, <1>7, <1>8, <1>10, HandledStep, HandlerTypes DEF OverStep
  <2>2. QED
    BY <1>2, <1>5, <2>1 DEF DoneStep
<1>11. QED
  BY <1>9, <1>10 DEF SendDone

\* SendTimeout and SendError fail.
FailStep(k) ==
  /\ OverStep(k, "None", "timeout") \/ OverStep(k, "None", "panicked")
  /\ UNCHANGED streams

LEMMA FailSteps ==
  ASSUME TypeOK, StreamInv, NEW k \in Conns, SendTimeout(k) \/ SendError(k)
  PROVE  FailStep(k)
<1>1. Current(k) \in DOMAIN streams[k] /\ handler[k].outbound = "Busy"
  BY HeldStream DEF SendTimeout, SendError
<1>2. "timeout" \in Answers /\ "panicked" \in Answers
  BY DEF Answers
<1>3. UNCHANGED <<events, streams, offered, inbound, delivered>>
  BY DEF SendTimeout, SendError, remoteVars
<1>4. CASE SendTimeout(k)
  <2>1. Handled(k, Released(k), handler[k].task, "timeout")
    BY <1>4 DEF SendTimeout
  <2>2. OverStep(k, "None", "timeout")
    BY <1>1, <1>2, <1>3, <2>1, HandledStep, HandlerTypes DEF OverStep
  <2>3. QED
    BY <1>3, <2>2 DEF FailStep
<1>5. CASE SendError(k)
  <2>1. Handled(k, Released(k), handler[k].task, "panicked")
    BY <1>5 DEF SendError
  <2>2. OverStep(k, "None", "panicked")
    BY <1>1, <1>2, <1>3, <2>1, HandledStep, HandlerTypes DEF OverStep
  <2>3. QED
    BY <1>3, <2>2 DEF FailStep
<1>6. QED
  BY <1>4, <1>5

\* Stream s of connection k is let go of by the remote; 0 is none.
StreamDropped(k, s) ==
  /\ streams' \in [Conns -> Seq(Stream)]
  /\ \A l \in Conns \ {k} : streams'[l] = streams[l]
  /\ Len(streams'[k]) = Len(streams[k])
  /\ DOMAIN streams'[k] = DOMAIN streams[k]
  /\ \A t \in DOMAIN streams[k] :
       /\ streams'[k][t].data = IF t = s THEN <<>> ELSE streams[k][t].data
       /\ streams'[k][t].ack = streams[k][t].ack

LEMMA StreamFields ==
  ASSUME NEW M, NEW C, NEW B, NEW q \in [data : Seq(M), ack : Seq(C), open : B],
         NEW d \in Seq(M), NEW f \in B
  PROVE  LET r == [q EXCEPT !.data = d, !.open = f]
         IN  /\ r \in [data : Seq(M), ack : Seq(C), open : B]
             /\ r.data = d /\ r.ack = q.ack
  OBVIOUS

LEMMA StreamEmptied ==
  ASSUME NEW q \in Stream
  PROVE  LET r == [q EXCEPT !.data = <<>>, !.open = FALSE]
         IN  r \in Stream /\ r.data = <<>> /\ r.ack = q.ack
<1>1. FALSE \in BOOLEAN /\ <<>> \in Seq(Messages)
  OBVIOUS
<1>2. QED
  BY <1>1, StreamFields, Zenon DEF Stream

LEMMA StreamMoved ==
  ASSUME NEW q \in Stream, NEW d \in Seq(Messages), NEW b \in Seq(Contents)
  PROVE  [q EXCEPT !.data = d, !.ack = b] \in Stream
  BY Zenon DEF Stream

\* recv writes two fields of one stream.
FrameRead(k, s, c) ==
  streams' = [streams EXCEPT ![k][s].data = Tail(@), ![k][s].ack = Append(@, c)]

LEMMA FrameTaken ==
  ASSUME TypeOK, NEW k \in Conns, NEW s \in DOMAIN streams[k], NEW c \in Contents,
         streams[k][s].data # <<>>, FrameRead(k, s, c)
  PROVE  StreamBecomes(k, s, [streams[k][s] EXCEPT !.data = Tail(@),
                                                   !.ack = Append(@, c)])
<1> DEFINE q == streams[k][s]
           r == [q EXCEPT !.data = Tail(@), !.ack = Append(@, c)]
           u == [q EXCEPT !.data = Tail(q.data)]
           h == [streams EXCEPT ![k] = [streams[k] EXCEPT ![s] = u]]
<1>1. streams \in [Conns -> Seq(Stream)] /\ streams[k] \in Seq(Stream) /\ q \in Stream
  BY StreamTypes DEF TypeOK
<1>2. h[k] = [streams[k] EXCEPT ![s] = u] /\ h[k][s] = u
  BY <1>1
<1>3. streams' = [h EXCEPT ![k] = [h[k] EXCEPT ![s] =
                                     [h[k][s] EXCEPT !.ack = Append(q.ack, c)]]]
  BY DEF FrameRead
<1>4. streams' = [h EXCEPT ![k] = [h[k] EXCEPT ![s] =
                                     [u EXCEPT !.ack = Append(q.ack, c)]]]
  BY <1>2, <1>3
<1>5. [u EXCEPT !.ack = Append(q.ack, c)] = r
  BY <1>1 DEF Stream
<1>6. streams' = [streams EXCEPT ![k] = [@ EXCEPT ![s] = r]]
  <2> HIDE DEF u, r
  <2>1. QED
    BY <1>1, <1>2, <1>4, <1>5
<1>7. Tail(q.data) \in Seq(Messages) /\ Append(q.ack, c) \in Seq(Contents)
  BY StreamTypes
<1>8. r \in Stream
  BY <1>1, <1>7, StreamMoved
<1>9. QED
  BY <1>6, <1>8, StreamChanged DEF StreamBecomes

LEMMA DroppedStream ==
  ASSUME TypeOK, NEW k \in Conns, NEW s \in Nat, s <= Len(streams[k]),
         streams' = [streams EXCEPT ![k] = Dropped(@, s)]
  PROVE  StreamDropped(k, s)
<1>1. streams[k] \in Seq(Stream)
  BY StreamTypes
<1>2. CASE s = 0
  <2>1. streams' = streams
    BY <1>2 DEF Dropped, TypeOK
  <2>2. \A t \in DOMAIN streams[k] : t # s
    BY <1>1, <1>2
  <2>3. QED
    BY <2>1, <2>2 DEF StreamDropped, TypeOK
<1>3. CASE s # 0
  <2> DEFINE r == [streams[k][s] EXCEPT !.data = <<>>, !.open = FALSE]
  <2>1. s \in DOMAIN streams[k]
    BY <1>1, <1>3
  <2>2. streams[k][s] \in Stream
    BY <2>1, StreamTypes
  <2>3. r \in Stream /\ r.data = <<>> /\ r.ack = streams[k][s].ack
    BY <2>2, StreamEmptied
  <2>4. streams' = [streams EXCEPT ![k] = [@ EXCEPT ![s] = r]]
    BY <1>3 DEF Dropped
  <2> HIDE DEF r
  <2>5. StreamBecomes(k, s, r)
    BY <2>1, <2>3, <2>4, StreamChanged, ZenonT(60) DEF StreamBecomes
  <2>6. QED
    BY <2>3, <2>5 DEF StreamBecomes, StreamDropped
<1>4. QED
  BY <1>2, <1>3

\* The remote handler does not touch what is local.
RemoteFrame == UNCHANGED <<call, inEvents, connected, known, handler, events,
                           posted, tooLong, link, up>>

\* FullyNegotiatedInbound replaces the stream being read.
TakeStep(k) ==
  /\ RemoteFrame /\ up[k] /\ offered[k] # <<>>
  /\ inbound' = [inbound EXCEPT ![k] = Head(offered[k])]
  /\ offered' = [offered EXCEPT ![k] = Tail(@)]
  /\ StreamDropped(k, inbound[k])
  /\ UNCHANGED delivered

\* A frame is read and answered.
ReadStep(k) ==
  LET s == inbound[k]
      m == streams[k][s].data[1]
  IN  /\ RemoteFrame /\ up[k]
      /\ s \in DOMAIN streams[k] /\ streams[k][s].data # <<>> /\ m \in Messages
      /\ StreamBecomes(k, s, [streams[k][s] EXCEPT !.data = Tail(@),
                                 !.ack = Append(@, Content[m])])
      /\ delivered' = Append(delivered, m)
      /\ UNCHANGED <<offered, inbound>>

\* The stream being read ends.
EndStep(k) ==
  /\ RemoteFrame /\ up[k]
  /\ inbound' = [inbound EXCEPT ![k] = 0]
  /\ StreamDropped(k, inbound[k])
  /\ \/ streams[k][inbound[k]].data # <<>>
     \/ ~Holds(k, inbound[k])
  /\ UNCHANGED <<offered, delivered>>

LEMMA RemoteSteps ==
  ASSUME TypeOK, StreamInv, NEW k \in Conns, Remote(k)
  PROVE  TakeStep(k) \/ ReadStep(k) \/ EndStep(k)
<1> DEFINE s == inbound[k]
<1>1. s \in Nat /\ s <= Len(streams[k])
  BY DEF TypeOK, StreamInv, ReadOf
<1>2. CASE FullyNegotiatedInbound(k)
  <2>1. StreamDropped(k, s)
    BY <1>1, <1>2, DroppedStream DEF FullyNegotiatedInbound
  <2>2. QED
    BY <1>2, <2>1 DEF FullyNegotiatedInbound, TakeStep, RemoteFrame, localVars
<1>3. CASE recv(k)
  <2>1. streams[k] \in Seq(Stream) /\ s # 0
    BY <1>3, StreamTypes DEF recv
  <2>2. s \in DOMAIN streams[k]
    BY <1>1, <2>1
  <2> DEFINE q == streams[k][s]
             m == Head(q.data)
             r == [q EXCEPT !.data = Tail(@), !.ack = Append(@, Content[m])]
  <2>3. q \in Stream /\ q.data \in Seq(Messages) /\ q.ack \in Seq(Contents)
        /\ q.data # <<>>
    BY <1>3, <2>2, StreamTypes DEF recv
  <2>4. m \in Messages /\ m = q.data[1] /\ Tail(q.data) \in Seq(Messages)
    BY <2>3
  <2>5. CASE Content[m] \notin tooLong
    <3>1. FrameRead(k, s, Content[m])
      BY <1>3, <2>5 DEF recv, FrameRead
    <3>2. Content[m] \in Contents
      BY <2>4 DEF Contents
    <3>4. StreamBecomes(k, s, r)
      BY <2>2, <2>3, <3>1, <3>2, FrameTaken
    <3>5. delivered' = Append(delivered, m) /\ UNCHANGED inbound
      BY <1>3, <2>5 DEF recv
    <3>6. RemoteFrame /\ up[k] /\ UNCHANGED offered
      BY <1>3 DEF recv, RemoteFrame, localVars
    <3>7. ReadStep(k)
      BY <2>2, <2>3, <2>4, <3>4, <3>5, <3>6 DEF ReadStep
    <3>8. QED
      BY <3>7
  <2>6. CASE Content[m] \in tooLong
    <3>1. StreamDropped(k, s)
      BY <1>1, <1>3, <2>6, DroppedStream DEF recv
    <3>2. QED
      BY <1>3, <2>3, <2>6, <3>1 DEF recv, EndStep, RemoteFrame, localVars
  <2>7. QED
    BY <2>5, <2>6
<1>4. CASE RecvEof(k)
  <2>1. StreamDropped(k, s)
    BY <1>1, <1>4, DroppedStream DEF RecvEof
  <2>2. QED
    BY <1>4, <2>1 DEF RecvEof, EndStep, RemoteFrame, localVars
<1>5. QED
  BY <1>2, <1>3, <1>4 DEF Remote

\* send_message: one more call waits, at the end of the queue.
SendStep(m) ==
  /\ call[m] = "none" /\ m \in Messages
  /\ call' \in [Messages -> {"none", "waiting"} \cup Answers]
  /\ \A n \in Messages : call'[n] = IF n = m THEN "waiting" ELSE call[n]
  /\ inEvents' = Append(inEvents, m)
  /\ UNCHANGED <<connected, known, handler, events, posted, offered, inbound,
                 delivered, tooLong, link, up, streams>>

LEMMA SendSteps ==
  ASSUME TypeOK, NEW m \in Messages, send_message(m)
  PROVE  SendStep(m)
<1>1. call' \in [Messages -> {"none", "waiting"} \cup Answers]
  BY AnsweredType DEF send_message
<1>2. \A n \in Messages : call'[n] = IF n = m THEN "waiting" ELSE call[n]
  BY AnsweredAt DEF send_message
<1>3. QED
  BY <1>1, <1>2 DEF send_message, SendStep, remoteVars

\* handle_in_events without a connection: the first of the queue is told a.
RefuseStep(a) ==
  /\ inEvents # <<>> /\ inEvents' = Tail(inEvents)
  /\ call' \in [Messages -> {"none", "waiting"} \cup Answers]
  /\ \A n \in Messages : call'[n] = IF n = Head(inEvents) THEN a ELSE call[n]
  /\ UNCHANGED <<handler, posted, connected, known, events, offered, inbound,
                 delivered, tooLong, link, up, streams>>

\* handle_in_events with one: the handler of connection k gets it.
PostStep(k) ==
  /\ inEvents # <<>> /\ inEvents' = Tail(inEvents)
  /\ connected /\ link[k] = "open"
  /\ handler' \in [Conns -> Handler]
  /\ \A l \in Conns \ {k} : handler'[l] = handler[l]
  /\ handler'[k].pending = Append(handler[k].pending, Head(inEvents))
  /\ UNCHANGED <<handler[k].state, handler[k].outbound, handler[k].task>>
  /\ posted' \in [Conns -> Seq(Messages)]
  /\ \A l \in Conns \ {k} : posted'[l] = posted[l]
  /\ posted'[k] = Append(posted[k], Head(inEvents))
  /\ UNCHANGED <<call, connected, known, events, offered, inbound,
                 delivered, tooLong, link, up, streams>>

LEMMA HandleSteps ==
  ASSUME TypeOK, handle_in_events
  PROVE  \/ RefuseStep("not_found") \/ RefuseStep("panicked")
         \/ \E k \in Conns : PostStep(k)
<1> DEFINE m == Head(inEvents)
<1>1. inEvents \in Seq(Messages) /\ inEvents # <<>> /\ m \in Messages
  BY DEF handle_in_events, TypeOK
<1>2. UNCHANGED <<connected, known, events, offered, inbound, delivered, tooLong,
                  link, up, streams>> /\ inEvents' = Tail(inEvents)
  BY DEF handle_in_events, remoteVars
<1>3. ASSUME NEW a \in Answers, call' = Answered({m}, a), UNCHANGED <<handler, posted>>
      PROVE  RefuseStep(a)
  <2>1. call' \in [Messages -> {"none", "waiting"} \cup Answers]
    BY <1>3, AnsweredType
  <2>2. \A n \in Messages : call'[n] = IF n = m THEN a ELSE call[n]
    BY <1>3, AnsweredAt
  <2>3. QED
    BY <1>1, <1>2, <1>3, <2>1, <2>2 DEF RefuseStep
<1>4. ASSUME NEW k \in Conns, connected, link[k] = "open",
             handler' = [handler EXCEPT ![k].pending = Append(@, m)],
             posted' = [posted EXCEPT ![k] = Append(@, m)], UNCHANGED call
      PROVE  PostStep(k)
  <2> DEFINE h == [handler[k] EXCEPT !.pending = Append(@, m)]
  <2>1. handler[k] \in Handler /\ handler \in [Conns -> Handler]
    BY HandlerTypes DEF TypeOK
  <2>2. Append(handler[k].pending, m) \in Seq(Messages)
    BY <1>1, <2>1 DEF Handler
  <2>3. h \in Handler /\ h.pending = Append(handler[k].pending, m)
        /\ h.state = handler[k].state /\ h.outbound = handler[k].outbound
        /\ h.task = handler[k].task
    BY <2>1, <2>2 DEF Handler
  <2>4. handler' = [handler EXCEPT ![k] = h]
    BY <1>4
  <2> HIDE DEF h
  <2>5. handler' \in [Conns -> Handler] /\ handler'[k] = h
        /\ \A l \in Conns \ {k} : handler'[l] = handler[l]
    BY <2>1, <2>3, <2>4
  <2>6. posted' \in [Conns -> Seq(Messages)] /\ posted'[k] = Append(posted[k], m)
        /\ \A l \in Conns \ {k} : posted'[l] = posted[l]
    BY <1>1, <1>4 DEF TypeOK
  <2>7. QED
    BY <1>1, <1>2, <1>4, <2>3, <2>5, <2>6 DEF PostStep
<1>5. "not_found" \in Answers /\ "panicked" \in Answers
  BY DEF Answers
<1>6. QED
  BY <1>3, <1>4, <1>5 DEF handle_in_events

\* Close: the handler of k goes, and everyone it was going to answer with it.
Owed(k) == handler[k].task \cup ToSet(handler[k].pending)
CloseStep(k) ==
  /\ link[k] = "open" /\ link' = [link EXCEPT ![k] = "closed"]
  /\ handler' \in [Conns -> Handler] /\ handler'[k] = NewHandler
  /\ \A l \in Conns \ {k} : handler'[l] = handler[l]
  /\ call' \in [Messages -> {"none", "waiting"} \cup Answers]
  /\ \A m \in Messages :
       call'[m] = IF m \in Owed(k) THEN "panicked" ELSE call[m]
  /\ \E n \in 0 .. Len(events[k]) :
       events' = [events EXCEPT ![k] = Append(SubSeq(@, 1, n), "ConnectionClosed")]
  /\ UNCHANGED <<inEvents, connected, known, posted, streams, offered, inbound,
                 delivered, tooLong, up>>

LEMMA CloseSteps ==
  ASSUME TypeOK, NEW k \in Conns, NEW n \in 0 .. Len(events[k]), Close(k, n)
  PROVE  CloseStep(k)
<1>1. "panicked" \in Answers
  BY DEF Answers
<1>2. call' = Answered(Owed(k), "panicked")
  BY DEF Close, Owed
<1>3. call' \in [Messages -> {"none", "waiting"} \cup Answers]
      /\ \A m \in Messages :
           call'[m] = IF m \in Owed(k) THEN "panicked" ELSE call[m]
  BY <1>1, <1>2, AnsweredType, AnsweredAt
<1>4. handler' \in [Conns -> Handler] /\ handler'[k] = NewHandler
      /\ \A l \in Conns \ {k} : handler'[l] = handler[l]
  BY HandlerTypes DEF Close, TypeOK
<1>5. QED
  BY <1>2, <1>3, <1>4 DEF Close, CloseStep, remoteVars

\* RemoteCloses: every stream of k loses its frames.
LostStep(k) ==
  /\ up[k] /\ up' = [up EXCEPT ![k] = FALSE]
  /\ streams' \in [Conns -> Seq(Stream)]
  /\ \A l \in Conns \ {k} : streams'[l] = streams[l]
  /\ Len(streams'[k]) = Len(streams[k])
  /\ DOMAIN streams'[k] = DOMAIN streams[k]
  /\ \A t \in DOMAIN streams[k] :
       streams'[k][t].data = <<>> /\ streams'[k][t].ack = streams[k][t].ack
  /\ offered' = [offered EXCEPT ![k] = <<>>]
  /\ inbound' = [inbound EXCEPT ![k] = 0]
  /\ UNCHANGED <<call, inEvents, connected, known, handler, events, posted,
                 delivered, tooLong, link>>

LEMMA LostSteps ==
  ASSUME TypeOK, NEW k \in Conns, RemoteCloses(k)
  PROVE  LostStep(k)
<1> DEFINE r(s) == [streams[k][s] EXCEPT !.data = <<>>, !.open = FALSE]
           q == [s \in DOMAIN streams[k] |-> r(s)]
<1>1. streams[k] \in Seq(Stream)
  BY StreamTypes
<1>2. \A s \in DOMAIN streams[k] :
        r(s) \in Stream /\ r(s).data = <<>> /\ r(s).ack = streams[k][s].ack
  BY StreamTypes, StreamEmptied
<1>3. streams' = [streams EXCEPT ![k] = q]
  BY DEF RemoteCloses
<1> HIDE DEF r
<1>4. q \in Seq(Stream) /\ Len(q) = Len(streams[k]) /\ DOMAIN q = DOMAIN streams[k]
      /\ \A s \in DOMAIN streams[k] : q[s] = r(s)
  BY <1>1, <1>2
<1> HIDE DEF q
<1>5. streams' \in [Conns -> Seq(Stream)] /\ streams'[k] = q
      /\ \A l \in Conns \ {k} : streams'[l] = streams[l]
  BY <1>3, <1>4 DEF TypeOK
<1>6. QED
  BY <1>2, <1>4, <1>5 DEF RemoteCloses, LostStep, localVars

\* Every step of Messaging is one of these.
StepOf(k) ==
  \/ PostStep(k) \/ on_event(k) \/ WaitStep(k) \/ OpenStep(k) \/ WriteStep(k)
  \/ DoneStep(k) \/ FailStep(k) \/ TakeStep(k) \/ ReadStep(k) \/ EndStep(k)
  \/ Establish(k) \/ CloseStep(k) \/ LostStep(k)

LEMMA Steps ==
  ASSUME TypeOK, StreamInv, Next
  PROVE  \/ \E m \in Messages : SendStep(m)
         \/ RefuseStep("not_found") \/ RefuseStep("panicked")
         \/ \E k \in Conns : StepOf(k)
<1>1. CASE \E m \in Messages : send_message(m)
  BY <1>1, SendSteps
<1>2. CASE handle_in_events
  BY <1>2, HandleSteps DEF StepOf
<1>3. ASSUME NEW k \in Conns, Poll(k)
      PROVE  StepOf(k)
  BY <1>3, WaitSteps, OpenSteps, WriteSteps, DoneSteps, FailSteps
  DEF Poll, Negotiated, StepOf
<1>4. ASSUME NEW k \in Conns, Remote(k)
      PROVE  StepOf(k)
  BY <1>4, RemoteSteps DEF StepOf
<1>5. ASSUME NEW k \in Conns, NEW n \in 0 .. Len(events[k]), Close(k, n)
      PROVE  StepOf(k)
  BY <1>5, CloseSteps DEF StepOf
<1>6. ASSUME NEW k \in Conns, on_event(k) \/ Establish(k) \/ RemoteCloses(k)
      PROVE  StepOf(k)
  BY <1>6, LostSteps DEF StepOf
<1>7. QED
  BY <1>1, <1>2, <1>3, <1>4, <1>5, <1>6 DEF Next

-----------------------------------------------------------------------------
(* The types. *)

BusyOf(k) == handler[k].outbound = "Busy" <=> handler[k].task # {}

\* The types of everything but the handlers, the calls, the queue and streams.
Plain ==
  /\ tooLong \subseteq Contents /\ connected \in BOOLEAN
  /\ link \in [Conns -> {"none", "open", "closed"}] /\ up \in [Conns -> BOOLEAN]
  /\ known \subseteq Conns
  /\ events \in [Conns -> Seq({"OutboundNegotiated", "ConnectionClosed"})]
  /\ offered \in [Conns -> Seq(Nat)] /\ inbound \in [Conns -> Nat]
  /\ delivered \in Seq(Messages)

LEMMA TypeParts ==
  TypeOK <=> /\ Plain
             /\ call \in [Messages -> {"none", "waiting"} \cup Answers]
             /\ inEvents \in Seq(Messages) /\ handler \in [Conns -> Handler]
             /\ streams \in [Conns -> Seq(Stream)]
             /\ posted \in [Conns -> Seq(Messages)]
             /\ \A k \in Conns : BusyOf(k)
  BY DEF TypeOK, Plain, BusyOf

LEMMA TypeAgain ==
  ASSUME Plain', call' \in [Messages -> {"none", "waiting"} \cup Answers],
         inEvents' \in Seq(Messages), handler' \in [Conns -> Handler],
         streams' \in [Conns -> Seq(Stream)], posted' \in [Conns -> Seq(Messages)],
         \A k \in Conns : BusyOf(k)'
  PROVE  TypeOK'
  BY DEF TypeOK, Plain, BusyOf

LEMMA PlainFrame ==
  ASSUME Plain, UNCHANGED <<tooLong, connected, link, up, known, events, offered,
                            inbound, delivered>>
  PROVE  Plain'
  BY DEF Plain

LEMMA BusyFrame ==
  ASSUME NEW k \in Conns, \A l \in Conns : BusyOf(l), BusyOf(k)',
         \A l \in Conns \ {k} : handler'[l] = handler[l]
  PROVE  \A l \in Conns : BusyOf(l)'
  BY DEF BusyOf

LEMMA QueueEnds ==
  ASSUME TypeOK
  PROVE  /\ inEvents \in Seq(Messages)
         /\ \A m \in Messages : Append(inEvents, m) \in Seq(Messages)
         /\ inEvents # <<>> => Tail(inEvents) \in Seq(Messages)
<1>1. inEvents \in Seq(Messages)
  BY DEF TypeOK
<1>2. QED
  BY <1>1

LEMMA TypeSend ==
  ASSUME TypeOK, \/ \E m \in Messages : SendStep(m)
                 \/ RefuseStep("not_found") \/ RefuseStep("panicked")
  PROVE  TypeOK'
<1>1. Plain'
  BY TypeParts, PlainFrame DEF SendStep, RefuseStep
<1>2. inEvents' \in Seq(Messages)
  <2>1. CASE \E m \in Messages : SendStep(m)
    BY <2>1, QueueEnds DEF SendStep
  <2>2. CASE RefuseStep("not_found") \/ RefuseStep("panicked")
    BY <2>2, QueueEnds DEF RefuseStep
  <2>3. QED
    BY <2>1, <2>2
<1>3. UNCHANGED <<handler, streams, posted>>
      /\ call' \in [Messages -> {"none", "waiting"} \cup Answers]
  BY DEF SendStep, RefuseStep
<1>4. \A k \in Conns : BusyOf(k)'
  BY <1>3, TypeParts DEF BusyOf
<1>5. QED
  BY <1>1, <1>2, <1>3, <1>4, TypeAgain, TypeParts

LEMMA TypeLocal ==
  ASSUME TypeOK, NEW k \in Conns,
         \/ PostStep(k) \/ WaitStep(k) \/ OpenStep(k) \/ WriteStep(k)
         \/ DoneStep(k) \/ FailStep(k) \/ CloseStep(k)
  PROVE  TypeOK'
<1>1. Plain'
  <2>1. CASE PostStep(k) \/ WaitStep(k) \/ WriteStep(k) \/ DoneStep(k) \/ FailStep(k)
    BY <2>1, TypeParts, PlainFrame
    DEF PostStep, WaitStep, WriteStep, DoneStep, FailStep, OverStep
  <2>2. CASE OpenStep(k)
    <3>1. Len(streams[k]) + 1 \in Nat
      BY StreamTypes
    <3>2. events' \in [Conns -> Seq({"OutboundNegotiated", "ConnectionClosed"})]
      BY <2>2 DEF OpenStep, TypeOK
    <3>3. offered' \in [Conns -> Seq(Nat)]
      BY <2>2, <3>1 DEF OpenStep, TypeOK
    <3>4. QED
      BY <2>2, <3>2, <3>3, TypeParts DEF Plain, OpenStep
  <2>3. CASE CloseStep(k)
    <3>1. events' \in [Conns -> Seq({"OutboundNegotiated", "ConnectionClosed"})]
      BY <2>3 DEF CloseStep, TypeOK
    <3>2. link' \in [Conns -> {"none", "open", "closed"}]
      BY <2>3 DEF CloseStep, TypeOK
    <3>3. QED
      BY <2>3, <3>1, <3>2, TypeParts DEF Plain, CloseStep
  <2>4. QED
    BY <2>1, <2>2, <2>3
<1>2. inEvents' \in Seq(Messages)
  <2>1. CASE PostStep(k)
    BY <2>1, QueueEnds DEF PostStep
  <2>2. CASE ~PostStep(k)
    BY <2>2, QueueEnds DEF WaitStep, OpenStep, WriteStep, DoneStep, FailStep,
           OverStep, CloseStep
  <2>3. QED
    BY <2>1, <2>2
<1>3. handler' \in [Conns -> Handler] /\ posted' \in [Conns -> Seq(Messages)]
      /\ call' \in [Messages -> {"none", "waiting"} \cup Answers]
  BY DEF TypeOK, PostStep, WaitStep, OpenStep, WriteStep, DoneStep, FailStep,
         OverStep, CloseStep
<1>4. streams' \in [Conns -> Seq(Stream)]
  <2>1. CASE OpenStep(k)
    BY <2>1, StreamTypes DEF OpenStep, TypeOK
  <2>2. CASE ~OpenStep(k)
    BY <2>2 DEF TypeOK, PostStep, WaitStep, WriteStep, DoneStep, FailStep,
                CloseStep, StreamBecomes
  <2>3. QED
    BY <2>1, <2>2
<1>5. \A l \in Conns : BusyOf(l)'
  <2>1. \A l \in Conns \ {k} : handler'[l] = handler[l]
    BY DEF PostStep, WaitStep, OpenStep, WriteStep, DoneStep, FailStep,
           OverStep, CloseStep
  <2>2. BusyOf(k)
    BY TypeParts
  <2>3. BusyOf(k)'
    <3>1. CASE PostStep(k)
      BY <2>2, <3>1 DEF PostStep, BusyOf
    <3>2. CASE WaitStep(k)
      BY <2>2, <3>2 DEF WaitStep, BusyOf
    <3>3. CASE OpenStep(k)
      BY <2>2, <3>3 DEF OpenStep, BusyOf
    <3>4. CASE WriteStep(k)
      BY <3>4 DEF WriteStep, BusyOf
    <3>5. CASE DoneStep(k) \/ FailStep(k)
      BY <3>5 DEF DoneStep, FailStep, OverStep, BusyOf
    <3>6. CASE CloseStep(k)
      BY <3>6 DEF CloseStep, BusyOf, NewHandler
    <3>7. QED
      BY <3>1, <3>2, <3>3, <3>4, <3>5, <3>6
  <2>4. QED
    BY <2>1, <2>3, BusyFrame, TypeParts
<1>6. QED
  BY <1>1, <1>2, <1>3, <1>4, <1>5, TypeAgain

LEMMA TypeRemote ==
  ASSUME TypeOK, NEW k \in Conns,
         \/ TakeStep(k) \/ ReadStep(k) \/ EndStep(k) \/ LostStep(k)
         \/ on_event(k) \/ Establish(k)
  PROVE  TypeOK'
<1>1. Plain'
  <2>1. CASE TakeStep(k)
    <3>1. offered' \in [Conns -> Seq(Nat)] /\ inbound' \in [Conns -> Nat]
      BY <2>1 DEF TakeStep, TypeOK
    <3>2. QED
      BY <2>1, <3>1, TypeParts DEF Plain, TakeStep, RemoteFrame
  <2>2. CASE ReadStep(k)
    BY <2>2, TypeParts DEF Plain, ReadStep, RemoteFrame
  <2>3. CASE EndStep(k)
    BY <2>3, TypeParts DEF Plain, EndStep, RemoteFrame
  <2>4. CASE LostStep(k)
    BY <2>4, TypeParts DEF Plain, LostStep
  <2>5. CASE on_event(k)
    <3>1. events' \in [Conns -> Seq({"OutboundNegotiated", "ConnectionClosed"})]
      BY <2>5 DEF on_event, TypeOK
    <3>2. known' \subseteq Conns /\ connected' \in BOOLEAN
      BY <2>5 DEF on_event, on_disconnect, TypeOK
    <3>3. QED
      BY <2>5, <3>1, <3>2, TypeParts DEF Plain, on_event, remoteVars
  <2>6. CASE Establish(k)
    BY <2>6, TypeParts DEF Plain, Establish, remoteVars
  <2>7. QED
    BY <2>1, <2>2, <2>3, <2>4, <2>5, <2>6
<1>2. streams' \in [Conns -> Seq(Stream)]
  BY DEF TakeStep, ReadStep, EndStep, LostStep, on_event, Establish,
         StreamDropped, StreamBecomes, TypeOK
<1>3. UNCHANGED <<call, inEvents, handler, posted>>
  BY DEF TakeStep, ReadStep, EndStep, LostStep, on_event, Establish, RemoteFrame
<1>4. \A l \in Conns : BusyOf(l)'
  BY <1>3, TypeParts DEF BusyOf
<1>5. QED
  BY <1>1, <1>2, <1>3, <1>4, TypeAgain, TypeParts

LEMMA TypeStep ==
  ASSUME TypeOK, \/ \E m \in Messages : SendStep(m)
                 \/ RefuseStep("not_found") \/ RefuseStep("panicked")
                 \/ \E k \in Conns : StepOf(k)
  PROVE  TypeOK'
  BY TypeSend, TypeLocal, TypeRemote DEF StepOf

-----------------------------------------------------------------------------
(* The connections. *)

\* What a step of connection k leaves alone.
Same(l) ==
  /\ link'[l] = link[l] /\ up'[l] = up[l] /\ (l \in known' <=> l \in known)
  /\ handler'[l] = handler[l] /\ events'[l] = events[l]
  /\ streams'[l] = streams[l] /\ offered'[l] = offered[l]
  /\ inbound'[l] = inbound[l] /\ posted'[l] = posted[l]

LEMMA Elsewhere ==
  ASSUME TypeOK, NEW k \in Conns, StepOf(k), NEW l \in Conns, l # k
  PROVE  Same(l) /\ UNCHANGED tooLong
<1> USE DEF Same
<1>1. CASE PostStep(k)
  BY <1>1 DEF PostStep
<1>2. CASE on_event(k)
  BY <1>2 DEF on_event, remoteVars, TypeOK
<1>3. CASE WaitStep(k)
  BY <1>3 DEF WaitStep
<1>4. CASE OpenStep(k)
  BY <1>4 DEF OpenStep, TypeOK
<1>5. CASE WriteStep(k)
  BY <1>5 DEF WriteStep, StreamBecomes
<1>6. CASE DoneStep(k)
  BY <1>6 DEF DoneStep, OverStep, StreamBecomes
<1>7. CASE FailStep(k)
  BY <1>7 DEF FailStep, OverStep
<1>8. CASE TakeStep(k)
  BY <1>8 DEF TakeStep, RemoteFrame, StreamDropped, TypeOK
<1>9. CASE ReadStep(k)
  BY <1>9 DEF ReadStep, RemoteFrame, StreamBecomes
<1>10. CASE EndStep(k)
  BY <1>10 DEF EndStep, RemoteFrame, StreamDropped, TypeOK
<1>11. CASE Establish(k)
  BY <1>11 DEF Establish, remoteVars, TypeOK
<1>12. CASE CloseStep(k)
  BY <1>12 DEF CloseStep, TypeOK
<1>13. CASE LostStep(k)
  BY <1>13 DEF LostStep, TypeOK
<1>14. QED
  BY <1>1, <1>2, <1>3, <1>4, <1>5, <1>6, <1>7, <1>8, <1>9, <1>10, <1>11,
     <1>12, <1>13 DEF StepOf

\* The callers' steps touch no connection.
LEMMA Nowhere ==
  ASSUME \/ \E m \in Messages : SendStep(m)
         \/ RefuseStep("not_found") \/ RefuseStep("panicked"),
         NEW l \in Conns
  PROVE  Same(l) /\ UNCHANGED <<tooLong, connected, known, delivered>>
  BY DEF SendStep, RefuseStep, Same

\* The events of a connection.
LEMMA EventTypes ==
  ASSUME TypeOK, NEW k \in Conns
  PROVE  /\ events[k] \in Seq(EventName)
         /\ \A i \in DOMAIN events[k] : events[k][i] \in EventName
  BY DEF TypeOK, EventName

\* The next event of a connection is taken.
LEMMA EventTaken ==
  ASSUME TypeOK, NEW k \in Conns, on_event(k)
  PROVE  /\ Len(events[k]) \in Nat /\ Len(events[k]) >= 1
         /\ Len(events'[k]) = Len(events[k]) - 1
         /\ \A i \in DOMAIN events'[k] :
              i + 1 \in DOMAIN events[k] /\ events'[k][i] = events[k][i + 1]
         /\ Head(events[k]) = events[k][1] /\ 1 \in DOMAIN events[k]
         /\ events'[k] \in Seq(EventName)
<1>1. events[k] \in Seq(EventName) /\ events[k] # <<>>
  BY EventTypes DEF on_event
<1>2. events'[k] = Tail(events[k])
  BY DEF on_event, TypeOK
<1>3. QED
  BY <1>1, <1>2

\* An event is added.
LEMMA EventAdded ==
  ASSUME NEW q \in Seq(EventName), NEW e \in EventName
  PROVE  LET r == Append(q, e)
         IN  /\ r \in Seq(EventName) /\ r # <<>> /\ Len(r) = Len(q) + 1
             /\ \A i \in DOMAIN r :
                  \/ i \in DOMAIN q /\ r[i] = q[i] /\ i # Len(r)
                  \/ i = Len(r) /\ r[i] = e
  OBVIOUS

LEMMA EventsCut ==
  ASSUME NEW q \in Seq(EventName), NEW n \in 0 .. Len(q)
  PROVE  LET r == SubSeq(q, 1, n)
         IN  /\ r \in Seq(EventName)
             /\ \A i \in DOMAIN r : i \in DOMAIN q /\ r[i] = q[i]
  OBVIOUS

LEMMA LinkHere ==
  ASSUME TypeOK, NEW k \in Conns, StepOf(k), LinkOf(k)
  PROVE  LinkOf(k)'
<1> USE DEF LinkOf
<1>1. CASE PostStep(k) \/ WaitStep(k) \/ WriteStep(k) \/ DoneStep(k) \/ FailStep(k)
  BY <1>1 DEF PostStep, WaitStep, WriteStep, DoneStep, FailStep, OverStep
<1>2. CASE on_event(k)
  <2>1. UNCHANGED <<link, up, handler, streams>>
    BY <1>2 DEF on_event
  <2>2. link[k] # "none"
    BY <1>2 DEF on_event
  <2>3. link[k] \in {"open", "closed"}
    BY <2>2 DEF TypeOK
  <2>4. CASE link[k] = "open"
    <3>1. Head(events[k]) # "ConnectionClosed"
      BY <1>2, <2>4, EventTaken
    <3>2. k \in known'
      BY <1>2, <2>4, <3>1 DEF on_event
    <3>3. QED
      BY <1>2, <2>1, <2>4, <3>2, EventTaken
  <2>5. CASE link[k] = "closed"
    <3>1. k \in known
      BY <1>2, <2>5 DEF on_event
    <3>2. CASE Head(events[k]) = "ConnectionClosed"
      <4>1. Len(events[k]) = 1
        BY <1>2, <2>5, <3>2, EventTaken
      <4>2. events'[k] = <<>>
        <5>1. events'[k] \in Seq(EventName) /\ Len(events'[k]) = 0
          BY <1>2, <4>1, EventTaken
        <5>2. QED
          BY <5>1
      <4>3. k \notin known'
        BY <1>2, <3>2 DEF on_event
      <4>4. QED
        BY <2>1, <2>5, <4>2, <4>3
    <3>3. CASE Head(events[k]) # "ConnectionClosed"
      <4>1. Len(events[k]) # 1
        BY <1>2, <2>5, <3>3, EventTaken
      <4>2. events'[k] # <<>> /\ k \in known'
        <5>1. Len(events'[k]) # 0
          <6>1. Len(events'[k]) = Len(events[k]) - 1 /\ Len(events[k]) \in Nat
            BY <1>2, EventTaken
          <6>2. QED
            BY <4>1, <6>1
        <5>2. k \in known'
          BY <1>2, <3>1, <3>3 DEF on_event
        <5>3. QED
          BY <5>1, <5>2
      <4>3. \A i \in DOMAIN events'[k] :
              events'[k][i] = "ConnectionClosed" <=> i = Len(events'[k])
        <5>1. ASSUME NEW i \in DOMAIN events'[k]
              PROVE  i \in Nat /\ i + 1 \in DOMAIN events[k]
                     /\ events'[k][i] = events[k][i + 1]
                     /\ (i = Len(events'[k]) <=> i + 1 = Len(events[k]))
          BY <1>2, <5>1, EventTaken
        <5>2. QED
          BY <2>5, <5>1
      <4>4. QED
        BY <2>1, <2>5, <4>2, <4>3
    <3>4. QED
      BY <3>2, <3>3
  <2>6. QED
    BY <2>3, <2>4, <2>5
<1>3. CASE OpenStep(k)
  <2>1. events'[k] = Append(events[k], "OutboundNegotiated") /\ events[k] \in Seq(EventName)
        /\ "OutboundNegotiated" \in EventName
    BY <1>3, EventTypes DEF OpenStep, TypeOK, EventName
  <2>2. link'[k] = "open" /\ link[k] = "open" /\ k \in known'
    BY <1>3 DEF OpenStep
  <2>3. \A i \in DOMAIN events'[k] : events'[k][i] = "OutboundNegotiated"
    BY <2>1, <2>2, EventAdded
  <2>4. QED
    BY <2>2, <2>3
<1>4. CASE TakeStep(k) \/ ReadStep(k) \/ EndStep(k)
  <2>1. UNCHANGED <<link, known, up, handler, events>> /\ link[k] # "none"
    BY <1>4 DEF TakeStep, ReadStep, EndStep, RemoteFrame
  <2>2. QED
    BY <2>1
<1>5. CASE Establish(k)
  BY <1>5 DEF Establish, TypeOK
<1>6. CASE CloseStep(k)
  <2>1. PICK n \in 0 .. Len(events[k]) :
          events' = [events EXCEPT ![k] = Append(SubSeq(@, 1, n), "ConnectionClosed")]
    BY <1>6 DEF CloseStep
  <2> DEFINE q == SubSeq(events[k], 1, n)
  <2>2. events'[k] = Append(q, "ConnectionClosed") /\ "ConnectionClosed" \in EventName
    BY <2>1 DEF TypeOK, EventName
  <2>3. q \in Seq(EventName) /\ \A i \in DOMAIN q : i \in DOMAIN events[k] /\ q[i] = events[k][i]
    BY EventTypes, EventsCut
  <2>4. link[k] = "open" /\ k \in known' /\ link'[k] = "closed" /\ handler'[k] = NewHandler
    BY <1>6 DEF CloseStep, TypeOK
  <2> HIDE DEF q
  <2>5. \A i \in DOMAIN events'[k] :
          events'[k][i] = "ConnectionClosed" <=> i = Len(events'[k])
    <3>1. \A i \in DOMAIN q : q[i] # "ConnectionClosed"
      BY <2>3, <2>4
    <3>2. QED
      BY <2>2, <2>3, <3>1, EventAdded
  <2>6. events'[k] # <<>>
    BY <2>2, <2>3, EventAdded
  <2>7. QED
    BY <2>4, <2>5, <2>6
<1>7. CASE LostStep(k)
  <2>1. UNCHANGED <<link, known, handler, events>> /\ link[k] # "none"
    BY <1>7 DEF LostStep
  <2>2. QED
    BY <2>1
<1>8. QED
  BY <1>1, <1>2, <1>3, <1>4, <1>5, <1>6, <1>7 DEF StepOf

LEMMA LinkStep ==
  ASSUME TypeOK, LinkInv,
         \/ \E m \in Messages : SendStep(m)
         \/ RefuseStep("not_found") \/ RefuseStep("panicked")
         \/ \E k \in Conns : StepOf(k)
  PROVE  LinkInv'
<1>1. ASSUME NEW l \in Conns, Same(l)
      PROVE  LinkOf(l)'
  BY <1>1 DEF LinkInv, LinkOf, Same
<1>2. CASE \E k \in Conns : StepOf(k)
  <2>1. PICK k \in Conns : StepOf(k)
    BY <1>2
  <2>2. LinkOf(k)'
    BY <2>1, LinkHere DEF LinkInv
  <2>3. \A l \in Conns : l # k => LinkOf(l)'
    BY <1>1, <2>1, Elsewhere
  <2>4. QED
    BY <2>2, <2>3 DEF LinkInv
<1>3. CASE ~\E k \in Conns : StepOf(k)
  BY <1>1, <1>3, Nowhere DEF LinkInv
<1>4. QED
  BY <1>2, <1>3

-----------------------------------------------------------------------------
(* connected_peers. *)

\* An event the Behaviour has not heard is one of the two that matter.
Heard(k) == events[k] = <<>>

LEMMA ConnectedParts ==
  ASSUME TypeOK
  PROVE  ConnectedMatches <=>
           /\ connected => known # {}
           /\ \A k \in known : streams[k] # <<>> => connected \/ ~Heard(k)
<1>1. \A k \in known : ~Heard(k) <=>
        \E i \in DOMAIN events[k] :
          events[k][i] \in {"OutboundNegotiated", "ConnectionClosed"}
  <2>1. TAKE k \in known
  <2>2. k \in Conns
    BY DEF TypeOK
  <2>3. events[k] \in Seq(EventName)
    BY <2>2, EventTypes
  <2>4. QED
    BY <2>3 DEF EventName, Heard
<1>2. QED
  BY <1>1 DEF ConnectedMatches

LEMMA ConnectedAgain ==
  ASSUME TypeOK', connected' => known' # {},
         \A k \in known' : streams'[k] # <<>> => connected' \/ ~Heard(k)'
  PROVE  ConnectedMatches'
<1>1. \A k \in known' : ~Heard(k)' =>
        \E i \in DOMAIN events'[k] :
          events'[k][i] \in {"OutboundNegotiated", "ConnectionClosed"}
  <2>1. TAKE k \in known'
  <2>2. k \in Conns
    BY DEF TypeOK
  <2>3. events'[k] \in Seq(EventName)
    BY <2>2 DEF TypeOK, EventName
  <2>4. QED
    BY <2>3 DEF EventName, Heard
<1>2. QED
  BY <1>1 DEF ConnectedMatches

\* Streams are opened by OpenStep only, and events taken by on_event only.
LEMMA HeardHere ==
  ASSUME TypeOK, NEW k \in Conns, LinkOf(k), StepOf(k), ~on_event(k)
  PROVE  /\ UNCHANGED connected
         /\ known' = known \/ (known' = known \cup {k} /\ streams'[k] = <<>>)
         /\ streams'[k] # <<>> => streams[k] # <<>> \/ ~Heard(k)'
         /\ Heard(k)' => Heard(k)
<1> USE DEF Heard
<1>1. CASE \/ PostStep(k) \/ WaitStep(k)
  BY <1>1 DEF PostStep, WaitStep
<1>2. CASE OpenStep(k)
  <2>1. events'[k] = Append(events[k], "OutboundNegotiated") /\ events[k] \in Seq(EventName)
    BY <1>2, EventTypes DEF OpenStep, TypeOK
  <2>2. events'[k] # <<>>
    BY <2>1
  <2>3. QED
    BY <1>2, <2>2 DEF OpenStep
<1>3. CASE \/ WriteStep(k) \/ DoneStep(k) \/ FailStep(k) \/ ReadStep(k)
  <2>1. UNCHANGED <<connected, known, events>>
        /\ (streams' = streams \/ DOMAIN streams'[k] = DOMAIN streams[k])
    BY <1>3 DEF WriteStep, DoneStep, FailStep, OverStep, ReadStep, StreamBecomes,
                RemoteFrame
  <2>2. QED
    BY <2>1, StreamTypes
<1>4. CASE \/ TakeStep(k) \/ EndStep(k) \/ LostStep(k)
  <2>1. UNCHANGED <<connected, known, events>> /\ DOMAIN streams'[k] = DOMAIN streams[k]
    BY <1>4 DEF TakeStep, EndStep, LostStep, RemoteFrame, StreamDropped
  <2>2. QED
    BY <2>1, StreamTypes
<1>5. CASE Establish(k)
  BY <1>5 DEF Establish, LinkOf
<1>6. CASE CloseStep(k)
  <2>1. PICK n \in 0 .. Len(events[k]) :
          events' = [events EXCEPT ![k] = Append(SubSeq(@, 1, n), "ConnectionClosed")]
    BY <1>6 DEF CloseStep
  <2> DEFINE q == SubSeq(events[k], 1, n)
  <2>2. events'[k] # <<>>
    <3>1. events'[k] = Append(q, "ConnectionClosed") /\ "ConnectionClosed" \in EventName
      BY <2>1 DEF TypeOK, EventName
    <3>2. q \in Seq(EventName)
      BY EventTypes, EventsCut
    <3> HIDE DEF q
    <3>3. QED
      BY <3>1, <3>2, EventAdded
  <2>3. QED
    BY <1>6, <2>2 DEF CloseStep
<1>7. QED
  BY <1>1, <1>2, <1>3, <1>4, <1>5, <1>6 DEF StepOf

LEMMA ConnectedStep ==
  ASSUME TypeOK, TypeOK', LinkInv, ConnectedMatches,
         \/ \E m \in Messages : SendStep(m)
         \/ RefuseStep("not_found") \/ RefuseStep("panicked")
         \/ \E k \in Conns : StepOf(k)
  PROVE  ConnectedMatches'
<1>0. /\ connected => known # {}
      /\ \A k \in known : streams[k] # <<>> => connected \/ ~Heard(k)
  BY ConnectedParts
<1>1. ASSUME NEW k \in Conns, StepOf(k), ~on_event(k)
      PROVE  ConnectedMatches'
  <2>1. /\ UNCHANGED connected
        /\ known' = known \/ (known' = known \cup {k} /\ streams'[k] = <<>>)
        /\ streams'[k] # <<>> => streams[k] # <<>> \/ ~Heard(k)'
        /\ Heard(k)' => Heard(k)
    BY <1>1, HeardHere DEF LinkInv
  <2>2. \A l \in known' : l # k => streams'[l] = streams[l] /\ events'[l] = events[l]
    BY <1>1, Elsewhere DEF Same, TypeOK
  <2>3. \A l \in known' : streams'[l] # <<>> => connected' \/ ~Heard(l)'
    BY <1>0, <2>1, <2>2 DEF Heard
  <2>4. QED
    BY <1>0, <2>1, <2>3, ConnectedAgain
<1>2. ASSUME NEW k \in Conns, on_event(k)
      PROVE  ConnectedMatches'
  <2>1. UNCHANGED streams /\ \A l \in Conns : l # k => events'[l] = events[l]
    BY <1>2 DEF on_event, TypeOK
  <2>2. CASE Head(events[k]) = "ConnectionClosed"
    <3>1. known' = known \ {k} /\ (connected' <=> connected /\ known \ {k} # {})
      BY <1>2, <2>2 DEF on_event, on_disconnect
    <3>2. \A l \in known' : streams'[l] # <<>> => connected' \/ ~Heard(l)'
      BY <1>0, <2>1, <3>1 DEF Heard, TypeOK
    <3>3. QED
      BY <3>1, <3>2, ConnectedAgain
  <2>3. CASE Head(events[k]) # "ConnectionClosed"
    <3>1. known' = known /\ connected'
      BY <1>2, <2>3 DEF on_event
    <3>2. k \in known
      <4>1. events[k] # <<>> /\ link[k] \in {"none", "open", "closed"}
        BY <1>2 DEF on_event, TypeOK
      <4>2. QED
        BY <4>1 DEF LinkInv, LinkOf
    <3>3. QED
      BY <3>1, <3>2, ConnectedAgain
  <2>4. QED
    BY <2>2, <2>3
<1>3. CASE ~\E k \in Conns : StepOf(k)
  <2>1. UNCHANGED <<connected, known, streams, events>>
    BY <1>3 DEF SendStep, RefuseStep
  <2>2. QED
    BY <2>1 DEF ConnectedMatches
<1>4. QED
  BY <1>1, <1>2, <1>3

-----------------------------------------------------------------------------
(* The queue of the Behaviour and the messages handed over. *)

LEMMA TailAt ==
  ASSUME NEW S, NEW q \in Seq(S), q # <<>>
  PROVE  /\ Tail(q) \in Seq(S) /\ Len(Tail(q)) = Len(q) - 1
         /\ Head(q) = q[1] /\ 1 \in DOMAIN q /\ Head(q) \in S
         /\ \A i \in DOMAIN Tail(q) :
              i \in Nat /\ i >= 1 /\ i + 1 \in DOMAIN q /\ Tail(q)[i] = q[i + 1]
  OBVIOUS

LEMMA AppendAt ==
  ASSUME NEW S, NEW q \in Seq(S), NEW e \in S
  PROVE  /\ Append(q, e) \in Seq(S) /\ Len(Append(q, e)) = Len(q) + 1
         /\ \A i \in DOMAIN q : i \in DOMAIN Append(q, e) /\ Append(q, e)[i] = q[i]
         /\ Len(q) + 1 \in DOMAIN Append(q, e) /\ Append(q, e)[Len(q) + 1] = e
         /\ \A i \in DOMAIN Append(q, e) :
              \/ i \in DOMAIN q /\ i # Len(q) + 1
              \/ i = Len(q) + 1 /\ i \notin DOMAIN q
  OBVIOUS

\* The types of a connection's queue and task.
LEMMA PostTypes ==
  ASSUME TypeOK, NEW k \in Conns
  PROVE  /\ posted[k] \in Seq(Messages) /\ handler[k].pending \in Seq(Messages)
         /\ handler[k].task \subseteq Messages
         /\ Len(posted[k]) \in Nat /\ Len(handler[k].pending) \in Nat
         /\ \A i \in DOMAIN posted[k] : posted[k][i] \in Messages
         /\ \A i \in DOMAIN handler[k].pending : handler[k].pending[i] \in Messages
<1>1. posted[k] \in Seq(Messages)
  BY DEF TypeOK
<1>2. handler[k].pending \in Seq(Messages) /\ handler[k].task \subseteq Messages
  BY HandlerTypes DEF Handler
<1>3. QED
  BY <1>1, <1>2

LEMMA Offset ==
  ASSUME NEW a \in Nat, NEW b \in Nat, b <= a
  PROVE  /\ a - b \in Nat /\ a - b <= a
         /\ \A i \in 1 .. b : i \in Nat /\ i >= 1 /\ (a - b) + i \in 1 .. a
  OBVIOUS

LEMMA Cancel ==
  ASSUME NEW a \in Nat, NEW b \in Nat
  PROVE  (a + 1) - (b + 1) = a - b
  OBVIOUS

LEMMA Shift ==
  ASSUME NEW a \in Nat, NEW b \in Nat, NEW s \in Nat, s = a - b
  PROVE  /\ s + (b + 1) = a + 1 /\ a - (b - 1) = s + 1
         /\ \A i \in Nat : s + (i + 1) = s + 1 + i
  OBVIOUS

\* The messages that have left the queue, and where the others are.
LEMMA SentAt ==
  ASSUME TypeOK, NEW k \in Conns, HandlerOf(k)
  PROVE  /\ Sent(k) \in Nat /\ Sent(k) <= Len(posted[k])
         /\ DOMAIN posted[k] = 1 .. Len(posted[k])
         /\ \A i \in DOMAIN handler[k].pending :
              i \in Nat /\ i >= 1 /\ Sent(k) + i \in DOMAIN posted[k]
<1>1. Len(posted[k]) \in Nat /\ Len(handler[k].pending) \in Nat
      /\ DOMAIN posted[k] = 1 .. Len(posted[k])
      /\ DOMAIN handler[k].pending = 1 .. Len(handler[k].pending)
  BY PostTypes
<1>2. Len(handler[k].pending) <= Len(posted[k])
  BY DEF HandlerOf
<1>3. QED
  BY <1>1, <1>2, Offset DEF Sent

\* Whoever the handler of k owes an answer waits, and for a message that was
\* handed to k.
LEMMA OwedPosted ==
  ASSUME TypeOK, NEW k \in Conns, HandlerOf(k), NEW m \in Owed(k)
  PROVE  /\ m \in Messages /\ call[m] = "waiting"
         /\ \E i \in DOMAIN posted[k] : posted[k][i] = m
<1>1. CASE m \in handler[k].task
  BY <1>1, PostTypes DEF HandlerOf
<1>2. CASE m \in ToSet(handler[k].pending)
  <2>1. PICK i \in DOMAIN handler[k].pending : m = handler[k].pending[i]
    BY <1>2 DEF ToSet
  <2>2. Sent(k) + i \in DOMAIN posted[k]
    BY SentAt
  <2>3. QED
    BY <2>1, <2>2, PostTypes DEF HandlerOf
<1>3. QED
  BY <1>1, <1>2 DEF Owed

\* A step of connection k tells nobody else anything.
Told(k) ==
  /\ call' \in [Messages -> {"none", "waiting"} \cup Answers]
  /\ \A m \in Messages :
       \/ call'[m] = call[m]
       \/ m \in Owed(k) /\ call'[m] \in {"ok", "timeout", "panicked"}

LEMMA ToldHere ==
  ASSUME TypeOK, NEW k \in Conns, StepOf(k)
  PROVE  Told(k)
<1> USE DEF Told
<1>1. CASE DoneStep(k) \/ FailStep(k)
  <2>1. handler[k].task \subseteq Owed(k)
    BY DEF Owed
  <2>2. QED
    BY <1>1, <2>1 DEF DoneStep, FailStep, OverStep
<1>2. CASE CloseStep(k)
  BY <1>2 DEF CloseStep
<1>3. CASE ~(DoneStep(k) \/ FailStep(k) \/ CloseStep(k))
  <2>1. UNCHANGED call
    BY <1>3 DEF StepOf, PostStep, on_event, WaitStep, OpenStep, WriteStep,
                TakeStep, ReadStep, EndStep, RemoteFrame, Establish, LostStep
  <2>2. QED
    BY <2>1 DEF TypeOK
<1>4. QED
  BY <1>1, <1>2, <1>3

\* What the queue has to do with the connections, at one position.
Fresh(m) == \A k \in Conns : \A j \in DOMAIN posted[k] : m # posted[k][j]

LEMMA QueueKept ==
  ASSUME TypeOK, QueueInv, HandlerInv, NEW k \in Conns, Told(k),
         UNCHANGED <<inEvents, posted>>
  PROVE  QueueInv'
<1>1. \A m \in Messages : Fresh(m) => call'[m] = call[m]
  BY OwedPosted DEF Told, Fresh, HandlerInv
<1>2. \A i \in DOMAIN inEvents : inEvents[i] \in Messages /\ Fresh(inEvents[i])
  BY DEF TypeOK, QueueInv, Fresh
<1>3. \A i \in DOMAIN inEvents : call'[inEvents[i]] = "waiting"
  BY <1>1, <1>2 DEF QueueInv
<1>4. \A l \in Conns : \A i \in DOMAIN posted[l] :
        call'[posted[l][i]] \notin {"none", "not_found"}
  BY PostTypes DEF Told, QueueInv
<1>5. QED
  BY <1>3, <1>4 DEF QueueInv

LEMMA QueueSend ==
  ASSUME TypeOK, QueueInv, NEW m \in Messages, SendStep(m)
  PROVE  QueueInv'
<1>1. inEvents \in Seq(Messages)
  BY DEF TypeOK
<1>2. UNCHANGED posted /\ inEvents' = Append(inEvents, m) /\ call[m] = "none"
      /\ \A n \in Messages : call'[n] = IF n = m THEN "waiting" ELSE call[n]
  BY DEF SendStep
<1>3. Fresh(m) /\ \A i \in DOMAIN inEvents : inEvents[i] # m
  BY <1>2 DEF QueueInv, Fresh
<1>4. \A i \in DOMAIN inEvents' :
        \/ i \in DOMAIN inEvents /\ inEvents'[i] = inEvents[i] /\ inEvents[i] \in Messages
        \/ i = Len(inEvents) + 1 /\ inEvents'[i] = m /\ i \notin DOMAIN inEvents
  BY <1>1, <1>2, AppendAt
<1>5. \A i \in DOMAIN inEvents' :
        /\ call'[inEvents'[i]] = "waiting"
        /\ \A l \in Conns : \A j \in DOMAIN posted[l] : inEvents'[i] # posted[l][j]
  BY <1>2, <1>3, <1>4 DEF QueueInv, Fresh
<1>6. \A i, j \in DOMAIN inEvents' : inEvents'[i] = inEvents'[j] => i = j
  BY <1>3, <1>4 DEF QueueInv
<1>7. \A l \in Conns : \A i \in DOMAIN posted[l] :
        call'[posted[l][i]] \notin {"none", "not_found"}
  BY <1>2, PostTypes DEF QueueInv
<1>8. QED
  BY <1>2, <1>5, <1>6, <1>7 DEF QueueInv

\* The first of the queue leaves it.
LEMMA QueueHead ==
  ASSUME TypeOK, QueueInv, inEvents # <<>>, inEvents' = Tail(inEvents)
  PROVE  /\ Head(inEvents) \in Messages /\ call[Head(inEvents)] = "waiting"
         /\ Fresh(Head(inEvents))
         /\ \A i \in DOMAIN inEvents' :
              /\ inEvents'[i] \in Messages /\ call[inEvents'[i]] = "waiting"
              /\ Fresh(inEvents'[i]) /\ inEvents'[i] # Head(inEvents)
         /\ \A i, j \in DOMAIN inEvents' : inEvents'[i] = inEvents'[j] => i = j
<1>1. inEvents \in Seq(Messages)
  BY DEF TypeOK
<1>2. \A i \in DOMAIN inEvents :
        inEvents[i] \in Messages /\ call[inEvents[i]] = "waiting" /\ Fresh(inEvents[i])
  BY <1>1 DEF QueueInv, Fresh
<1>3. Head(inEvents) = inEvents[1] /\ 1 \in DOMAIN inEvents
      /\ \A i \in DOMAIN inEvents' :
           i \in Nat /\ i >= 1 /\ i + 1 \in DOMAIN inEvents /\ inEvents'[i] = inEvents[i + 1]
  BY <1>1, TailAt
<1>4. \A i, j \in DOMAIN inEvents : inEvents[i] = inEvents[j] => i = j
  BY DEF QueueInv
<1>5. \A i \in DOMAIN inEvents' : inEvents'[i] # Head(inEvents)
  BY <1>3, <1>4
<1>6. \A i, j \in DOMAIN inEvents' : inEvents'[i] = inEvents'[j] => i = j
  BY <1>3, <1>4
<1>7. QED
  BY <1>2, <1>3, <1>5, <1>6

LEMMA QueueRefuse ==
  ASSUME TypeOK, QueueInv, NEW a, RefuseStep(a)
  PROVE  QueueInv'
<1>1. UNCHANGED posted /\ inEvents # <<>> /\ inEvents' = Tail(inEvents)
      /\ \A n \in Messages : call'[n] = IF n = Head(inEvents) THEN a ELSE call[n]
  BY DEF RefuseStep
<1>2. \A i \in DOMAIN inEvents' :
        /\ call'[inEvents'[i]] = "waiting"
        /\ \A l \in Conns : \A j \in DOMAIN posted[l] : inEvents'[i] # posted[l][j]
  BY <1>1, QueueHead DEF Fresh
<1>3. \A l \in Conns : \A i \in DOMAIN posted[l] : call'[posted[l][i]] = call[posted[l][i]]
  BY <1>1, QueueHead, PostTypes DEF Fresh
<1>4. \A i, j \in DOMAIN inEvents' : inEvents'[i] = inEvents'[j] => i = j
  BY <1>1, QueueHead
<1>5. QED
  BY <1>1, <1>2, <1>3, <1>4 DEF QueueInv

\* Where the messages handed over are after handle_in_events.
LEMMA PostedAt ==
  ASSUME TypeOK, QueueInv, NEW k \in Conns, PostStep(k)
  PROVE  /\ posted'[k] \in Seq(Messages) /\ Len(posted'[k]) = Len(posted[k]) + 1
         /\ Len(posted[k]) + 1 \in DOMAIN posted'[k]
         /\ posted'[k][Len(posted[k]) + 1] = Head(inEvents)
         /\ \A l \in Conns : \A i \in DOMAIN posted[l] :
              i \in DOMAIN posted'[l] /\ posted'[l][i] = posted[l][i]
         /\ \A l \in Conns : \A i \in DOMAIN posted'[l] :
              \/ i \in DOMAIN posted[l]
              \/ l = k /\ i = Len(posted[k]) + 1 /\ posted'[l][i] = Head(inEvents)
<1>1. posted[k] \in Seq(Messages) /\ Head(inEvents) \in Messages
      /\ posted'[k] = Append(posted[k], Head(inEvents))
  BY PostTypes, QueueHead DEF PostStep
<1>2. \A l \in Conns : l # k => posted'[l] = posted[l]
  BY DEF PostStep
<1>3. QED
  BY <1>1, <1>2, AppendAt

LEMMA QueuePost ==
  ASSUME TypeOK, QueueInv, NEW k \in Conns, PostStep(k)
  PROVE  QueueInv'
<1>1. UNCHANGED call /\ inEvents # <<>> /\ inEvents' = Tail(inEvents)
  BY DEF PostStep
<1>2. \A i \in DOMAIN inEvents' :
        /\ call'[inEvents'[i]] = "waiting"
        /\ \A l \in Conns : \A j \in DOMAIN posted'[l] : inEvents'[i] # posted'[l][j]
  BY <1>1, QueueHead, PostedAt DEF Fresh
<1>3. \A i, j \in DOMAIN inEvents' : inEvents'[i] = inEvents'[j] => i = j
  BY <1>1, QueueHead
<1>4. \A l \in Conns : \A i \in DOMAIN posted'[l] :
        call'[posted'[l][i]] \notin {"none", "not_found"}
  <2>1. call[Head(inEvents)] = "waiting"
    BY <1>1, QueueHead
  <2>2. QED
    BY <1>1, <2>1, PostedAt DEF QueueInv
<1>5. ASSUME NEW l \in Conns, NEW o \in Conns, NEW i \in DOMAIN posted'[l],
             NEW j \in DOMAIN posted'[o], posted'[l][i] = posted'[o][j]
      PROVE  l = o /\ i = j
  <2>1. Fresh(Head(inEvents))
    BY <1>1, QueueHead
  <2>2. CASE i \in DOMAIN posted[l] /\ j \in DOMAIN posted[o]
    <3>1. posted[l][i] = posted[o][j]
      BY <1>5, <2>2, PostedAt
    <3>2. QED
      BY <2>2, <3>1 DEF QueueInv
  <2>3. CASE i \in DOMAIN posted[l] /\ j \notin DOMAIN posted[o]
    BY <1>5, <2>1, <2>3, PostedAt DEF Fresh
  <2>4. CASE i \notin DOMAIN posted[l] /\ j \in DOMAIN posted[o]
    BY <1>5, <2>1, <2>4, PostedAt DEF Fresh
  <2>5. CASE i \notin DOMAIN posted[l] /\ j \notin DOMAIN posted[o]
    BY <2>5, PostedAt
  <2>6. QED
    BY <2>2, <2>3, <2>4, <2>5
<1>6. QED
  BY <1>2, <1>3, <1>4, <1>5 DEF QueueInv

LEMMA QueueStep ==
  ASSUME TypeOK, QueueInv, HandlerInv,
         \/ \E m \in Messages : SendStep(m)
         \/ RefuseStep("not_found") \/ RefuseStep("panicked")
         \/ \E k \in Conns : StepOf(k)
  PROVE  QueueInv'
<1>1. ASSUME NEW k \in Conns, StepOf(k), ~PostStep(k)
      PROVE  QueueInv'
  <2>1. UNCHANGED <<inEvents, posted>>
    BY <1>1 DEF StepOf, on_event, WaitStep, OpenStep, WriteStep, DoneStep, FailStep,
                OverStep, TakeStep, ReadStep, EndStep, RemoteFrame, Establish,
                CloseStep, LostStep
  <2>2. QED
    BY <1>1, <2>1, ToldHere, QueueKept
<1>2. QED
  BY <1>1, QueueSend, QueueRefuse, QueuePost

-----------------------------------------------------------------------------
(* The queues and tasks of the handlers. *)

\* A queue and a task that stay as they are, with the callers still waiting.
LEMMA HandlerKept ==
  ASSUME TypeOK, NEW l \in Conns, HandlerOf(l), posted'[l] = posted[l],
         handler'[l].pending = handler[l].pending,
         handler'[l].task = handler[l].task \/ handler'[l].task = {},
         \A i \in DOMAIN handler[l].pending :
           call'[handler[l].pending[i]] = call[handler[l].pending[i]],
         \A m \in handler'[l].task : call'[m] = call[m]
  PROVE  HandlerOf(l)'
<1>1. Sent(l)' = Sent(l)
  BY DEF Sent
<1>2. QED
  BY <1>1 DEF HandlerOf

\* Nothing that the handler of k owes is handed to another connection.
LEMMA OwedElsewhere ==
  ASSUME TypeOK, QueueInv, HandlerInv, NEW k \in Conns, NEW l \in Conns, l # k
  PROVE  \A i \in DOMAIN posted[l] : posted[l][i] \notin Owed(k)
<1>1. \A m \in Owed(k) : \E i \in DOMAIN posted[k] : posted[k][i] = m
  BY OwedPosted DEF HandlerInv
<1>2. QED
  BY <1>1 DEF QueueInv

\* A handler holds nothing but what it was handed.
LEMMA HeldPosted ==
  ASSUME TypeOK, NEW l \in Conns, HandlerOf(l)
  PROVE  /\ \A i \in DOMAIN handler[l].pending :
              \E j \in DOMAIN posted[l] : handler[l].pending[i] = posted[l][j]
         /\ \A m \in handler[l].task : \E j \in DOMAIN posted[l] : m = posted[l][j]
  BY SentAt DEF HandlerOf

LEMMA HandlerElsewhere ==
  ASSUME TypeOK, QueueInv, HandlerInv, NEW k \in Conns, StepOf(k),
         NEW l \in Conns, l # k
  PROVE  HandlerOf(l)'
<1>1. Same(l) /\ Told(k) /\ HandlerOf(l)
  BY Elsewhere, ToldHere DEF HandlerInv
<1>2. \A i \in DOMAIN posted[l] : call'[posted[l][i]] = call[posted[l][i]]
  BY <1>1, OwedElsewhere, PostTypes DEF Told
<1>3. QED
  BY <1>1, <1>2, HeldPosted, HandlerKept DEF Same

LEMMA HandlerCalls ==
  ASSUME TypeOK, QueueInv, HandlerInv, NEW l \in Conns,
         \/ \E m \in Messages : SendStep(m)
         \/ RefuseStep("not_found") \/ RefuseStep("panicked")
  PROVE  HandlerOf(l)'
<1>1. UNCHANGED <<handler, posted>> /\ HandlerOf(l)
  BY DEF SendStep, RefuseStep, HandlerInv
<1>2. \A i \in DOMAIN posted[l] : call'[posted[l][i]] = call[posted[l][i]]
  <2>1. CASE \E m \in Messages : SendStep(m)
    BY <2>1, PostTypes DEF SendStep, QueueInv
  <2>2. CASE RefuseStep("not_found") \/ RefuseStep("panicked")
    BY <2>2, QueueHead, PostTypes DEF RefuseStep, Fresh
  <2>3. QED
    BY <2>1, <2>2
<1>3. QED
  BY <1>1, <1>2, HeldPosted, HandlerKept

LEMMA HandlerPost ==
  ASSUME TypeOK, QueueInv, NEW k \in Conns, HandlerOf(k), PostStep(k)
  PROVE  HandlerOf(k)'
<1> DEFINE m == Head(inEvents)
           p == handler[k].pending
<1>1. m \in Messages /\ call[m] = "waiting"
  BY QueueHead DEF PostStep
<1>2. p \in Seq(Messages) /\ posted[k] \in Seq(Messages)
      /\ handler'[k].pending = Append(p, m) /\ posted'[k] = Append(posted[k], m)
      /\ UNCHANGED <<handler[k].task, call>>
  BY PostTypes DEF PostStep
<1>3. Sent(k) = Len(posted[k]) - Len(p) /\ Sent(k) \in Nat /\ Len(p) <= Len(posted[k])
      /\ Len(p) \in Nat /\ Len(posted[k]) \in Nat
  BY SentAt, PostTypes DEF Sent, HandlerOf
<1>4. Len(handler'[k].pending) = Len(p) + 1 /\ Len(posted'[k]) = Len(posted[k]) + 1
  BY <1>1, <1>2, AppendAt
<1>5. Sent(k)' = Sent(k) /\ Len(handler'[k].pending) <= Len(posted'[k])
  BY <1>3, <1>4 DEF Sent
<1>6. \A i \in DOMAIN posted[k] : i \in DOMAIN posted'[k] /\ posted'[k][i] = posted[k][i]
  BY <1>1, <1>2, AppendAt
<1>7. ASSUME NEW i \in DOMAIN handler'[k].pending
      PROVE  /\ handler'[k].pending[i] = posted'[k][Sent(k) + i]
             /\ call'[handler'[k].pending[i]] = "waiting"
  <2>1. CASE i \in DOMAIN p
    <3>1. handler'[k].pending[i] = p[i] /\ p[i] = posted[k][Sent(k) + i]
          /\ call[p[i]] = "waiting"
      BY <1>1, <1>2, <2>1, AppendAt DEF HandlerOf
    <3>2. Sent(k) + i \in DOMAIN posted[k]
      BY <2>1, SentAt
    <3>3. QED
      BY <1>2, <1>6, <3>1, <3>2
  <2>2. CASE i \notin DOMAIN p
    <3>1. i = Len(p) + 1 /\ handler'[k].pending[i] = m
      BY <1>1, <1>2, <2>2, AppendAt
    <3>2. Sent(k) + i = Len(posted[k]) + 1
      BY <1>3, <3>1, Shift
    <3>3. posted'[k][Len(posted[k]) + 1] = m
      BY <1>1, <1>2, AppendAt
    <3>4. QED
      BY <1>1, <1>2, <3>1, <3>2, <3>3
  <2>3. QED
    BY <2>1, <2>2
<1>8. \A n \in handler'[k].task :
        Sent(k) \in DOMAIN posted'[k] /\ n = posted'[k][Sent(k)] /\ call'[n] = "waiting"
  BY <1>2, <1>6 DEF HandlerOf
<1>9. QED
  BY <1>5, <1>7, <1>8 DEF HandlerOf

LEMMA HandlerWrite ==
  ASSUME TypeOK, NEW k \in Conns, HandlerOf(k), WriteStep(k)
  PROVE  /\ HandlerOf(k)' /\ Sent(k)' = Sent(k) + 1
         /\ Sent(k) + 1 \in DOMAIN posted[k]
         /\ Head(handler[k].pending) = posted[k][Sent(k) + 1]
<1> DEFINE p == handler[k].pending
<1>1. p \in Seq(Messages) /\ p # <<>> /\ handler'[k].pending = Tail(p)
      /\ handler'[k].task = {Head(p)} /\ UNCHANGED <<posted, call>>
  BY PostTypes DEF WriteStep
<1>2. Len(Tail(p)) = Len(p) - 1 /\ Head(p) = p[1] /\ 1 \in DOMAIN p
      /\ \A i \in DOMAIN Tail(p) :
           i \in Nat /\ i >= 1 /\ i + 1 \in DOMAIN p /\ Tail(p)[i] = p[i + 1]
  BY <1>1, TailAt
<1>3. Sent(k) = Len(posted[k]) - Len(p) /\ Sent(k) \in Nat /\ Len(p) <= Len(posted[k])
      /\ Len(p) \in Nat /\ Len(posted[k]) \in Nat
  BY SentAt, PostTypes DEF Sent, HandlerOf
<1>4. Sent(k)' = Sent(k) + 1 /\ Len(handler'[k].pending) <= Len(posted'[k])
  <2>1. Sent(k)' = Len(posted[k]) - (Len(p) - 1)
    BY <1>1, <1>2 DEF Sent
  <2>2. QED
    BY <1>1, <1>2, <1>3, <2>1, Shift
<1>5. \A i \in DOMAIN p : p[i] = posted[k][Sent(k) + i] /\ call[p[i]] = "waiting"
  BY DEF HandlerOf
<1>6. Sent(k) + 1 \in DOMAIN posted[k] /\ Head(p) = posted[k][Sent(k) + 1]
      /\ call[Head(p)] = "waiting"
  BY <1>2, <1>5, SentAt
<1>7. ASSUME NEW i \in DOMAIN Tail(p)
      PROVE  Tail(p)[i] = posted[k][Sent(k) + 1 + i] /\ call[Tail(p)[i]] = "waiting"
  <2>1. Tail(p)[i] = posted[k][Sent(k) + (i + 1)] /\ call[Tail(p)[i]] = "waiting"
    BY <1>2, <1>5
  <2>2. Sent(k) + (i + 1) = Sent(k) + 1 + i
    BY <1>2, <1>3, Shift
  <2>3. QED
    BY <2>1, <2>2
<1>8. HandlerOf(k)'
  BY <1>1, <1>4, <1>6, <1>7 DEF HandlerOf
<1>9. QED
  BY <1>4, <1>6, <1>8

\* The task is over.  What is left in the queue is not what was answered.
LEMMA HandlerOver ==
  ASSUME TypeOK, QueueInv, NEW k \in Conns, HandlerOf(k), DoneStep(k) \/ FailStep(k)
  PROVE  HandlerOf(k)'
<1>1. UNCHANGED <<handler[k].pending, posted>> /\ handler'[k].task = {}
      /\ \A m \in Messages : m \notin handler[k].task => call'[m] = call[m]
  BY DEF DoneStep, FailStep, OverStep
<1>2. ASSUME NEW i \in DOMAIN handler[k].pending
      PROVE  handler[k].pending[i] \notin handler[k].task
  <2>1. Sent(k) + i \in DOMAIN posted[k] /\ i \in Nat /\ i >= 1 /\ Sent(k) \in Nat
        /\ handler[k].pending[i] = posted[k][Sent(k) + i]
    BY SentAt DEF HandlerOf
  <2>2. Sent(k) + i # Sent(k)
    BY <2>1
  <2>3. \A m \in handler[k].task : Sent(k) \in DOMAIN posted[k] /\ m = posted[k][Sent(k)]
    BY DEF HandlerOf
  <2>4. QED
    BY <2>1, <2>2, <2>3 DEF QueueInv
<1>3. QED
  BY <1>1, <1>2, PostTypes, HandlerKept

LEMMA HandlerHere ==
  ASSUME TypeOK, QueueInv, NEW k \in Conns, HandlerOf(k), StepOf(k)
  PROVE  HandlerOf(k)'
<1>1. CASE PostStep(k)
  BY <1>1, HandlerPost
<1>2. CASE WriteStep(k)
  BY <1>2, HandlerWrite
<1>3. CASE DoneStep(k) \/ FailStep(k)
  BY <1>3, HandlerOver
<1>4. CASE CloseStep(k)
  <2>1. handler'[k].pending = <<>> /\ handler'[k].task = {} /\ UNCHANGED posted
    BY <1>4 DEF CloseStep, NewHandler
  <2>2. Len(posted[k]) \in Nat
    BY PostTypes
  <2>3. QED
    BY <2>1, <2>2 DEF HandlerOf
<1>5. CASE \/ on_event(k) \/ WaitStep(k) \/ OpenStep(k) \/ TakeStep(k)
           \/ ReadStep(k) \/ EndStep(k) \/ Establish(k) \/ LostStep(k)
  <2>1. UNCHANGED <<call, posted, handler[k].pending, handler[k].task>>
    BY <1>5 DEF on_event, WaitStep, OpenStep, TakeStep, ReadStep, EndStep,
                RemoteFrame, Establish, LostStep
  <2>2. QED
    BY <2>1, HandlerKept
<1>6. QED
  BY <1>1, <1>2, <1>3, <1>4, <1>5 DEF StepOf

LEMMA HandlerStep ==
  ASSUME TypeOK, QueueInv, HandlerInv,
         \/ \E m \in Messages : SendStep(m)
         \/ RefuseStep("not_found") \/ RefuseStep("panicked")
         \/ \E k \in Conns : StepOf(k)
  PROVE  HandlerInv'
<1>1. CASE \E k \in Conns : StepOf(k)
  <2>1. PICK k \in Conns : StepOf(k)
    BY <1>1
  <2>2. HandlerOf(k)'
    BY <2>1, HandlerHere DEF HandlerInv
  <2>3. \A l \in Conns : l # k => HandlerOf(l)'
    BY <2>1, HandlerElsewhere
  <2>4. QED
    BY <2>2, <2>3 DEF HandlerInv
<1>2. CASE ~\E k \in Conns : StepOf(k)
  BY <1>2, HandlerCalls DEF HandlerInv
<1>3. QED
  BY <1>1, <1>2

-----------------------------------------------------------------------------
(* The streams. *)

\* What has been delivered stays so.
LEMMA DeliveredGrows ==
  ASSUME TypeOK, \/ UNCHANGED delivered
                 \/ \E m \in Messages : delivered' = Append(delivered, m)
  PROVE  \A m : Delivered(m) => Delivered(m)'
<1>1. delivered \in Seq(Messages)
  BY DEF TypeOK
<1>2. \A p \in DOMAIN delivered : p \in DOMAIN delivered' /\ delivered'[p] = delivered[p]
  BY <1>1, AppendAt
<1>3. QED
  BY <1>2 DEF Delivered

LEMMA DeliveredStep ==
  ASSUME TypeOK, \/ \E m \in Messages : SendStep(m)
                 \/ RefuseStep("not_found") \/ RefuseStep("panicked")
                 \/ \E k \in Conns : StepOf(k)
  PROVE  \/ UNCHANGED delivered
         \/ \E m \in Messages : delivered' = Append(delivered, m)
<1>1. ASSUME NEW k \in Conns, StepOf(k), ~ReadStep(k)
      PROVE  UNCHANGED delivered
  BY <1>1 DEF StepOf, PostStep, on_event, remoteVars, WaitStep, OpenStep, WriteStep,
              DoneStep, FailStep, OverStep, TakeStep, EndStep, Establish,
              CloseStep, LostStep
<1>2. QED
  BY <1>1 DEF ReadStep, SendStep, RefuseStep

\* The streams of a connection by number.
LEMMA StreamsAt ==
  ASSUME TypeOK, NEW k \in Conns
  PROVE  /\ DOMAIN streams[k] = 1 .. Len(streams[k]) /\ Len(streams[k]) \in Nat
         /\ Current(k) = Len(streams[k])
         /\ inbound[k] \in Nat /\ offered[k] \in Seq(Nat)
         /\ \A i \in DOMAIN offered[k] : i \in Nat /\ offered[k][i] \in Nat
<1>1. streams[k] \in Seq(Stream) /\ offered[k] \in Seq(Nat) /\ inbound[k] \in Nat
  BY DEF TypeOK
<1>2. QED
  BY <1>1 DEF Current

\* Some frames of connection k are lost, and nothing else happens to it.
Shrunk(k) ==
  /\ UNCHANGED <<handler[k].outbound, handler[k].task>>
  /\ Len(streams'[k]) = Len(streams[k])
  /\ DOMAIN streams'[k] = DOMAIN streams[k]
  /\ \A t \in DOMAIN streams[k] :
       /\ streams'[k][t].data = streams[k][t].data \/ streams'[k][t].data = <<>>
       /\ streams'[k][t].ack = streams[k][t].ack

LEMMA HeldShrunk ==
  ASSUME TypeOK, NEW k \in Conns, HeldOf(k), Shrunk(k),
         \A m : Delivered(m) => Delivered(m)'
  PROVE  HeldOf(k)'
<1>1. Current(k)' = Current(k) /\ (streams[k] # <<>> => streams'[k] # <<>>)
  <2>1. streams[k] \in Seq(Stream)
    BY StreamTypes
  <2>2. QED
    BY <2>1 DEF Shrunk, Current
<1>2. handler[k].outbound \in {"Idle", "Busy"} => Current(k) \in DOMAIN streams[k]
  BY StreamsAt, StreamTypes DEF HeldOf
<1>3. UNCHANGED <<handler[k].outbound, handler[k].task>>
  BY DEF Shrunk
<1>4. ASSUME handler[k].outbound \in {"Idle", "Busy"}
      PROVE  /\ streams'[k][Current(k)].ack = streams[k][Current(k)].ack
             /\ \/ streams'[k][Current(k)].data = streams[k][Current(k)].data
                \/ streams'[k][Current(k)].data = <<>>
  BY <1>2, <1>4 DEF Shrunk
<1>5. QED
  BY <1>1, <1>3, <1>4 DEF HeldOf

\* A handler that holds no stream.
LEMMA HeldNot ==
  ASSUME NEW k \in Conns, handler'[k].outbound \notin {"Idle", "Busy"}
  PROVE  HeldOf(k)'
  BY DEF HeldOf

LEMMA HeldOpen ==
  ASSUME TypeOK, TypeOK', NEW k \in Conns, OpenStep(k)
  PROVE  HeldOf(k)'
<1>1. streams[k] \in Seq(Stream) /\ NewStream \in Stream
      /\ streams'[k] = Append(streams[k], NewStream)
  BY StreamTypes DEF OpenStep, TypeOK
<1>2. streams'[k] # <<>> /\ streams'[k][Len(streams'[k])] = NewStream
  BY <1>1
<1>3. handler'[k].outbound = "Idle"
  BY DEF OpenStep
<1>4. QED
  BY <1>2, <1>3 DEF HeldOf, Current, NewStream

\* A stream that has changed.
LEMMA BecomesAt ==
  ASSUME TypeOK, NEW k \in Conns, NEW s \in DOMAIN streams[k], NEW r,
         StreamBecomes(k, s, r)
  PROVE  /\ Current(k)' = Current(k) /\ streams'[k] # <<>>
         /\ streams'[k][s] = r
  BY StreamTypes DEF StreamBecomes, Current

LEMMA HeldWrite ==
  ASSUME TypeOK, NEW k \in Conns, HeldOf(k), WriteStep(k)
  PROVE  HeldOf(k)'
<1> DEFINE c == Current(k)
           m == Head(handler[k].pending)
           q == streams[k][c]
           r == [q EXCEPT !.data = Append(@, m)]
<1>1. c \in DOMAIN streams[k] /\ StreamBecomes(k, c, r) /\ handler[k].outbound = "Idle"
      /\ handler'[k].outbound = "Busy" /\ handler'[k].task = {m}
  BY DEF WriteStep
<1>2. q.data = <<>> /\ q.ack = <<>> /\ q \in Stream
  BY <1>1, StreamTypes DEF HeldOf
<1>3. r.data = <<m>> /\ r.ack = <<>>
  BY <1>2 DEF Stream
<1> HIDE DEF r
<1>4. Current(k)' = c /\ streams'[k] # <<>> /\ streams'[k][c] = r
  BY <1>1, BecomesAt
<1>5. r.data[1] = m
  BY <1>3
<1>6. QED
  BY <1>1, <1>3, <1>4, <1>5 DEF HeldOf

LEMMA LenZero ==
  ASSUME NEW S, NEW q \in Seq(S), Len(q) = 0
  PROVE  q = <<>>
  OBVIOUS

LEMMA TailNone ==
  ASSUME NEW S, NEW q \in Seq(S), Len(q) = 1
  PROVE  Tail(q) = <<>>
<1>1. Tail(q) \in Seq(S) /\ Len(Tail(q)) = 0
  BY TailAt, SMTT(30)
<1> DEFINE t == Tail(q)
<1>2. t \in Seq(S) /\ Len(t) = 0
  BY <1>1
<1> HIDE DEF t
<1>3. t = <<>>
  BY <1>2, LenZero
<1>4. QED
  BY <1>3 DEF t

LEMMA HeldDone ==
  ASSUME TypeOK, NEW k \in Conns, HeldOf(k), DoneStep(k)
  PROVE  HeldOf(k)'
<1> DEFINE c == Current(k)
           q == streams[k][c]
           r == [q EXCEPT !.ack = Tail(@)]
<1>1. c \in DOMAIN streams[k] /\ StreamBecomes(k, c, r) /\ handler[k].outbound = "Busy"
      /\ handler'[k].outbound \in {"Idle", "None"} /\ q.ack # <<>>
  BY DEF DoneStep, OverStep
<1>2. q \in Stream /\ q.data = <<>> /\ Len(q.ack) = 1 /\ q.ack \in Seq(Contents)
  BY <1>1, StreamTypes DEF HeldOf
<1>3. Tail(q.ack) = <<>>
  BY <1>2, TailNone
<1>4. r.data = <<>> /\ r.ack = <<>>
  BY <1>2, <1>3 DEF Stream
<1> HIDE DEF r
<1>5. Current(k)' = c /\ streams'[k] # <<>> /\ streams'[k][c] = r
  BY <1>1, BecomesAt
<1>6. QED
  BY <1>1, <1>4, <1>5 DEF HeldOf

\* What ReadStep does to the stream and to what is delivered.
LEMMA ReadAt ==
  ASSUME TypeOK, NEW k \in Conns, ReadOf(k), ReadStep(k)
  PROVE  LET s == inbound[k] IN
         /\ s \in DOMAIN streams[k] /\ streams[k][s].data # <<>>
         /\ streams[k][s].data[1] \in Messages
         /\ streams'[k][s].data = <<>>
         /\ streams'[k][s].ack = Append(streams[k][s].ack, Content[streams[k][s].data[1]])
         /\ DOMAIN streams'[k] = DOMAIN streams[k] /\ Len(streams'[k]) = Len(streams[k])
         /\ \A t \in DOMAIN streams[k] : t # s => streams'[k][t] = streams[k][t]
         /\ delivered' = Append(delivered, streams[k][s].data[1])
<1> DEFINE s == inbound[k]
           q == streams[k][s]
           m == q.data[1]
           r == [q EXCEPT !.data = Tail(@), !.ack = Append(@, Content[m])]
<1>1. s \in DOMAIN streams[k] /\ q.data # <<>> /\ m \in Messages
      /\ StreamBecomes(k, s, r) /\ delivered' = Append(delivered, m)
  BY DEF ReadStep
<1>2. q \in Stream /\ q.data \in Seq(Messages) /\ q.ack \in Seq(Contents) /\ Len(q.data) <= 1
  BY <1>1, StreamTypes DEF ReadOf
<1>3. Tail(q.data) = <<>>
  BY <1>1, <1>2
<1>4. r.data = <<>> /\ r.ack = Append(q.ack, Content[m])
  BY <1>2, <1>3 DEF Stream
<1> HIDE DEF r
<1>5. QED
  BY <1>1, <1>4 DEF StreamBecomes

LEMMA HeldRead ==
  ASSUME TypeOK, NEW k \in Conns, HeldOf(k), ReadOf(k), HandlerOf(k), ReadStep(k),
         \A m : Delivered(m) => Delivered(m)'
  PROVE  HeldOf(k)'
<1> DEFINE s == inbound[k]
           c == Current(k)
           m == streams[k][s].data[1]
<1>1. UNCHANGED handler /\ Current(k)' = c /\ (streams[k] # <<>> => streams'[k] # <<>>)
  <2>1. Len(streams'[k]) = Len(streams[k]) /\ streams[k] \in Seq(Stream)
    BY StreamTypes, ReadAt
  <2>2. QED
    BY <2>1 DEF ReadStep, RemoteFrame, Current
<1>2. CASE s # c
  <2>1. handler[k].outbound \in {"Idle", "Busy"} => streams'[k][c] = streams[k][c]
    BY <1>2, ReadAt, StreamsAt, StreamTypes DEF HeldOf
  <2>2. QED
    BY <1>1, <2>1 DEF HeldOf
<1>3. CASE s = c
  <2>1. streams[k][c].data # <<>> /\ streams'[k][c].data = <<>>
        /\ streams'[k][c].ack = Append(streams[k][c].ack, Content[m])
        /\ c \in DOMAIN streams[k] /\ m \in Messages
        /\ delivered' = Append(delivered, m)
    BY <1>3, ReadAt
  <2>2. handler[k].outbound # "Idle"
    BY <2>1 DEF HeldOf
  <2>3. CASE handler[k].outbound = "Busy"
    <3>1. streams[k][c].ack = <<>> /\ m \in handler[k].task
      BY <1>3, <2>1, <2>3 DEF HeldOf
    <3>2. Len(streams'[k][c].ack) = 1
      BY <2>1, <3>1
    <3>3. \A n \in handler[k].task : n = m
      BY <3>1 DEF HandlerOf
    <3>4. \E p \in DOMAIN delivered' : delivered'[p] = m
      <4>1. delivered \in Seq(Messages)
        BY DEF TypeOK
      <4>2. Len(delivered) + 1 \in DOMAIN delivered' /\ delivered'[Len(delivered) + 1] = m
        BY <2>1, <4>1, AppendAt
      <4>3. QED
        BY <4>2
    <3>5. \A n \in handler[k].task : Delivered(n)'
      BY <3>3, <3>4 DEF Delivered
    <3>6. QED
      BY <1>1, <2>1, <2>3, <3>2, <3>5 DEF HeldOf
  <2>4. CASE handler[k].outbound # "Busy"
    BY <1>1, <2>2, <2>4 DEF HeldOf
  <2>5. QED
    BY <2>3, <2>4
<1>4. QED
  BY <1>2, <1>3

LEMMA HeldHere ==
  ASSUME TypeOK, TypeOK', NEW k \in Conns, HeldOf(k), ReadOf(k), HandlerOf(k),
         StepOf(k), \A m : Delivered(m) => Delivered(m)'
  PROVE  HeldOf(k)'
<1>1. CASE \/ PostStep(k) \/ on_event(k) \/ Establish(k)
  <2>1. Shrunk(k)
    BY <1>1 DEF PostStep, on_event, Establish, Shrunk
  <2>2. QED
    BY <2>1, HeldShrunk
<1>2. CASE WaitStep(k)
  <2>1. CASE handler'[k].outbound \in {"None", "OpenStream"}
    BY <2>1, HeldNot
  <2>2. CASE handler'[k].outbound \notin {"None", "OpenStream"}
    <3>1. Shrunk(k)
      BY <1>2, <2>2 DEF WaitStep, Shrunk
    <3>2. QED
      BY <3>1, HeldShrunk
  <2>3. QED
    BY <2>1, <2>2
<1>3. CASE OpenStep(k)
  BY <1>3, HeldOpen
<1>4. CASE WriteStep(k)
  BY <1>4, HeldWrite
<1>5. CASE DoneStep(k)
  BY <1>5, HeldDone
<1>6. CASE FailStep(k) \/ CloseStep(k)
  BY <1>6, HeldNot DEF FailStep, OverStep, CloseStep, NewHandler
<1>7. CASE TakeStep(k) \/ EndStep(k)
  <2>1. StreamDropped(k, inbound[k]) /\ UNCHANGED handler
    BY <1>7 DEF TakeStep, EndStep, RemoteFrame
  <2>2. Shrunk(k)
    BY <2>1 DEF StreamDropped, Shrunk
  <2>3. QED
    BY <2>2, HeldShrunk
<1>8. CASE LostStep(k)
  <2>1. Shrunk(k)
    BY <1>8 DEF LostStep, Shrunk
  <2>2. QED
    BY <2>1, HeldShrunk
<1>9. CASE ReadStep(k)
  BY <1>9, HeldRead
<1>10. QED
  BY <1>1, <1>2, <1>3, <1>4, <1>5, <1>6, <1>7, <1>8, <1>9 DEF StepOf

\* The streams still to be read stay the same, and so does what is on them,
\* or less.
LEMMA ReadKept ==
  ASSUME TypeOK, NEW k \in Conns, ReadOf(k), UNCHANGED <<inbound[k], offered[k]>>,
         Len(streams'[k]) = Len(streams[k]), DOMAIN streams'[k] = DOMAIN streams[k],
         \A t \in DOMAIN streams[k] :
           streams'[k][t].data = streams[k][t].data \/ streams'[k][t].data = <<>>,
         up'[k] => up[k],
         up[k] /\ (\/ handler'[k].outbound = "Idle"
                   \/ /\ handler'[k].outbound = "Busy"
                      /\ streams'[k][Len(streams[k])].ack # <<>>)
           => ToRead(k, Len(streams[k]))
  PROVE  ReadOf(k)'
<1>1. \A s : ToRead(k, s)' <=> ToRead(k, s)
  BY DEF ToRead
<1>2. \A s \in DOMAIN streams[k] : Len(streams'[k][s].data) <= 1
  BY DEF ReadOf
<1>3. Current(k)' = Len(streams[k])
  BY DEF Current
<1>4. \A s \in DOMAIN streams'[k] :
        /\ Len(streams'[k][s].data) <= 1
        /\ up'[k] /\ streams'[k][s].data # <<>> => ToRead(k, s)'
  BY <1>1, <1>2 DEF ReadOf
<1>5. inbound'[k] <= Len(streams'[k]) /\
      \A i \in DOMAIN offered'[k] :
        /\ inbound'[k] < offered'[k][i] /\ offered'[k][i] <= Len(streams'[k])
        /\ \A j \in DOMAIN offered'[k] : i < j => offered'[k][i] < offered'[k][j]
  BY DEF ReadOf
<1>6. up'[k] /\ (\/ handler'[k].outbound = "Idle"
                 \/ handler'[k].outbound = "Busy" /\ streams'[k][Len(streams[k])].ack # <<>>)
        => ToRead(k, Len(streams[k]))'
  BY DEF ToRead
<1>7. QED
  BY <1>3, <1>4, <1>5, <1>6 DEF ReadOf

LEMMA ReadOpen ==
  ASSUME TypeOK, NEW k \in Conns, ReadOf(k), OpenStep(k)
  PROVE  ReadOf(k)'
<1> DEFINE n == Len(streams[k])
<1>1. streams[k] \in Seq(Stream) /\ NewStream \in Stream /\ n \in Nat
      /\ streams'[k] = Append(streams[k], NewStream)
  BY StreamTypes DEF OpenStep, TypeOK
<1>2. offered[k] \in Seq(Nat) /\ offered'[k] = Append(offered[k], n + 1)
      /\ n + 1 \in Nat /\ inbound[k] \in Nat /\ inbound[k] <= n /\ UNCHANGED <<inbound, up>>
  BY <1>1 DEF OpenStep, TypeOK, ReadOf
<1>3. Len(streams'[k]) = n + 1 /\ DOMAIN streams'[k] = 1 .. n + 1
      /\ streams'[k][n + 1] = NewStream
      /\ \A s \in DOMAIN streams'[k] : s # n + 1 =>
           s \in DOMAIN streams[k] /\ streams'[k][s] = streams[k][s]
  BY <1>1
<1>4. \A i \in DOMAIN offered'[k] :
        \/ i \in DOMAIN offered[k] /\ offered'[k][i] = offered[k][i] /\ i <= Len(offered[k])
        \/ i = Len(offered[k]) + 1 /\ offered'[k][i] = n + 1
  BY <1>2
<1>5. \A i \in DOMAIN offered[k] : i \in Nat /\ offered[k][i] \in Nat
      /\ i \in DOMAIN offered'[k] /\ offered'[k][i] = offered[k][i]
      /\ inbound[k] < offered[k][i] /\ offered[k][i] <= n
      /\ \A j \in DOMAIN offered[k] : i < j => offered[k][i] < offered[k][j]
  BY <1>2, AppendAt, StreamsAt DEF ReadOf
<1>6. inbound'[k] <= n + 1
  BY <1>1, <1>2
<1>7. \A i \in DOMAIN offered'[k] :
        inbound'[k] < offered'[k][i] /\ offered'[k][i] <= n + 1
  BY <1>1, <1>2, <1>4, <1>5
<1>8. \A i, j \in DOMAIN offered'[k] : i < j => offered'[k][i] < offered'[k][j]
  <2>1. Len(offered[k]) \in Nat
    BY <1>2
  <2>2. QED
    BY <1>1, <1>4, <1>5, <2>1
<1>9. \A s : ToRead(k, s) => ToRead(k, s)'
  BY <1>2, <1>5 DEF ToRead
<1>10. \E i \in DOMAIN offered'[k] : n + 1 = offered'[k][i]
  BY <1>2, AppendAt
<1>11. NewStream.data = <<>>
  BY DEF NewStream
<1>12. \A s \in DOMAIN streams'[k] :
         /\ Len(streams'[k][s].data) <= 1
         /\ up'[k] /\ streams'[k][s].data # <<>> => ToRead(k, s)'
  BY <1>2, <1>3, <1>9, <1>11, SMTT(30) DEF ReadOf
<1>13. ToRead(k, Current(k))'
  BY <1>3, <1>10 DEF ToRead, Current
<1>14. QED
  BY <1>3, <1>6, <1>7, <1>8, <1>12, <1>13 DEF ReadOf

LEMMA ReadWrite ==
  ASSUME TypeOK, NEW k \in Conns, HeldOf(k), ReadOf(k), WriteStep(k)
  PROVE  ReadOf(k)'
<1> DEFINE c == Current(k)
           m == Head(handler[k].pending)
           q == streams[k][c]
           r == [q EXCEPT !.data = Append(@, m)]
<1>1. c \in DOMAIN streams[k] /\ StreamBecomes(k, c, r) /\ handler[k].outbound = "Idle"
      /\ UNCHANGED <<up, inbound, offered>>
  BY DEF WriteStep
<1>2. q.data = <<>> /\ q.ack = <<>> /\ q \in Stream
  BY <1>1, StreamTypes DEF HeldOf
<1>3. Len(r.data) = 1 /\ r.ack = <<>>
  BY <1>2 DEF Stream
<1> HIDE DEF r
<1>4. up[k] => ToRead(k, c)
  BY <1>1 DEF ReadOf
<1>5. \A s : ToRead(k, s)' <=> ToRead(k, s)
  BY <1>1 DEF ToRead
<1>6. Current(k)' = c /\ Len(streams'[k]) = Len(streams[k])
      /\ DOMAIN streams'[k] = DOMAIN streams[k] /\ streams'[k][c] = r
      /\ \A t \in DOMAIN streams[k] : t # c => streams'[k][t] = streams[k][t]
  BY <1>1, BecomesAt DEF StreamBecomes
<1>7. \A s \in DOMAIN streams'[k] :
        /\ Len(streams'[k][s].data) <= 1
        /\ up'[k] /\ streams'[k][s].data # <<>> => ToRead(k, s)'
  <2>1. TAKE s \in DOMAIN streams'[k]
  <2>2. CASE s = c
    <3>1. Len(streams'[k][s].data) = 1
      BY <1>3, <1>6, <2>2
    <3>2. up[k] => ToRead(k, s)
      BY <1>4, <2>2
    <3>3. QED
      BY <1>1, <1>5, <3>1, <3>2
  <2>3. CASE s # c
    BY <1>1, <1>5, <1>6, <2>3 DEF ReadOf
  <2>4. QED
    BY <2>2, <2>3
<1>8. up'[k] => ToRead(k, Current(k))'
  BY <1>1, <1>4, <1>6 DEF ToRead, Current
<1>9. QED
  BY <1>1, <1>6, <1>7, <1>8 DEF ReadOf

LEMMA ReadTake ==
  ASSUME TypeOK, NEW k \in Conns, ReadOf(k), HeldOf(k), TakeStep(k)
  PROVE  ReadOf(k)'
<1> DEFINE o == offered[k]
<1>1. o \in Seq(Nat) /\ o # <<>> /\ inbound'[k] = o[1] /\ offered'[k] = Tail(o)
      /\ UNCHANGED <<up, handler>> /\ StreamDropped(k, inbound[k]) /\ inbound[k] \in Nat
  <2>1. o \in Seq(Nat) /\ o # <<>> /\ Head(o) = o[1]
    BY TailAt DEF TakeStep, TypeOK
  <2>2. QED
    BY <2>1 DEF TakeStep, TypeOK, RemoteFrame
<1>2. 1 \in DOMAIN o /\ \A i \in DOMAIN Tail(o) :
        i \in Nat /\ i >= 1 /\ i + 1 \in DOMAIN o /\ Tail(o)[i] = o[i + 1]
  BY <1>1, TailAt
<1>3. \A i \in DOMAIN o : i \in Nat /\ o[i] \in Nat /\ inbound[k] < o[i]
        /\ o[i] <= Len(streams[k]) /\ \A j \in DOMAIN o : i < j => o[i] < o[j]
  BY StreamsAt DEF ReadOf
<1>4. Len(streams'[k]) = Len(streams[k]) /\ DOMAIN streams'[k] = DOMAIN streams[k]
      /\ \A t \in DOMAIN streams[k] :
           /\ streams'[k][t].data = IF t = inbound[k] THEN <<>> ELSE streams[k][t].data
           /\ streams'[k][t].ack = streams[k][t].ack
  BY <1>1 DEF StreamDropped
<1>5. inbound'[k] <= Len(streams'[k])
  BY <1>1, <1>2, <1>3, <1>4
<1>6. \A i \in DOMAIN Tail(o) :
        /\ o[1] < Tail(o)[i] /\ Tail(o)[i] <= Len(streams[k])
        /\ \A j \in DOMAIN Tail(o) : i < j => Tail(o)[i] < Tail(o)[j]
  <2>1. ASSUME NEW i \in DOMAIN Tail(o)
        PROVE  o[1] < Tail(o)[i] /\ Tail(o)[i] <= Len(streams[k])
    <3>1. 1 < i + 1
      BY <1>2
    <3>2. QED
      BY <1>2, <1>3, <3>1
  <2>2. ASSUME NEW i \in DOMAIN Tail(o), NEW j \in DOMAIN Tail(o), i < j
        PROVE  Tail(o)[i] < Tail(o)[j]
    <3>1. i + 1 < j + 1
      BY <1>2, <2>2
    <3>2. QED
      BY <1>2, <1>3, <3>1
  <2>3. QED
    BY <2>1, <2>2
<1>7. \A s : ToRead(k, s) /\ s # inbound[k] => ToRead(k, s)'
  <2>1. SUFFICES ASSUME NEW i \in DOMAIN o
                 PROVE  o[i] = o[1] \/ \E j \in DOMAIN Tail(o) : o[i] = Tail(o)[j]
    BY <1>1 DEF ToRead
  <2>2. CASE i = 1
    BY <2>2
  <2>3. CASE i # 1
    <3>1. i - 1 \in DOMAIN Tail(o) /\ Tail(o)[i - 1] = o[i]
      BY <1>1, <2>3, SMTT(30)
    <3>2. QED
      BY <3>1
  <2>4. QED
    BY <2>2, <2>3
<1>8. \A s \in DOMAIN streams'[k] :
        /\ Len(streams'[k][s].data) <= 1
        /\ up'[k] /\ streams'[k][s].data # <<>> => ToRead(k, s)'
  BY <1>1, <1>4, <1>7 DEF ReadOf
<1>9. Current(k)' = Current(k) /\ Current(k) # inbound[k]
  <2>1. inbound[k] < Len(streams[k])
    BY <1>1, <1>2, <1>3, StreamsAt
  <2>2. QED
    BY <1>1, <1>4, <2>1, StreamsAt DEF Current
<1>10. up'[k] /\ (\/ handler'[k].outbound = "Idle"
                  \/ handler'[k].outbound = "Busy" /\ streams'[k][Current(k)].ack # <<>>)
         => ToRead(k, Current(k))
  <2>1. handler[k].outbound = "Busy" =>
          streams'[k][Current(k)].ack = streams[k][Current(k)].ack
    BY <1>4, StreamsAt, StreamTypes DEF HeldOf
  <2>2. QED
    BY <1>1, <2>1 DEF ReadOf
<1>11. up'[k] /\ (\/ handler'[k].outbound = "Idle"
                  \/ handler'[k].outbound = "Busy" /\ streams'[k][Current(k)'].ack # <<>>)
         => ToRead(k, Current(k))'
  <2> DEFINE c == Len(streams[k])
  <2>1. Current(k) = c /\ Current(k)' = c /\ c # inbound[k]
    BY <1>9, StreamsAt DEF Current
  <2>2. ToRead(k, c) => inbound'[k] = c \/ \E i \in DOMAIN offered'[k] : c = offered'[k][i]
    BY <1>7, <2>1 DEF ToRead
  <2>3. QED
    BY <1>10, <2>1, <2>2 DEF ToRead
<1>12. QED
  BY <1>1, <1>5, <1>6, <1>4, <1>8, <1>11 DEF ReadOf

LEMMA ReadEnd ==
  ASSUME TypeOK, NEW k \in Conns, ReadOf(k), HeldOf(k), EndStep(k)
  PROVE  ReadOf(k)'
<1> DEFINE c == Len(streams[k])
<1>1. inbound'[k] = 0 /\ UNCHANGED <<up, handler, offered>> /\ inbound[k] \in Nat
      /\ StreamDropped(k, inbound[k])
      /\ (streams[k][inbound[k]].data # <<>> \/ ~Holds(k, inbound[k]))
  BY DEF EndStep, RemoteFrame, TypeOK
<1>2. Len(streams'[k]) = c /\ DOMAIN streams'[k] = DOMAIN streams[k]
      /\ \A t \in DOMAIN streams[k] :
           /\ streams'[k][t].data = IF t = inbound[k] THEN <<>> ELSE streams[k][t].data
           /\ streams'[k][t].ack = streams[k][t].ack
  BY <1>1 DEF StreamDropped
<1>3. Current(k) = c /\ Current(k)' = c /\ c \in Nat /\ DOMAIN streams[k] = 1 .. c
  BY <1>2, StreamsAt DEF Current
<1>4. \A s : ToRead(k, s) /\ s # inbound[k] => ToRead(k, s)'
  BY <1>1 DEF ToRead
<1>5. \A s \in DOMAIN streams'[k] :
        /\ Len(streams'[k][s].data) <= 1
        /\ up'[k] /\ streams'[k][s].data # <<>> => ToRead(k, s)'
  BY <1>1, <1>2, <1>4 DEF ReadOf
<1>6. inbound'[k] <= Len(streams'[k]) /\
      \A i \in DOMAIN offered'[k] :
        /\ inbound'[k] < offered'[k][i] /\ offered'[k][i] <= Len(streams'[k])
        /\ \A j \in DOMAIN offered'[k] : i < j => offered'[k][i] < offered'[k][j]
  <2>1. \A i \in DOMAIN offered[k] : inbound[k] < offered[k][i] /\ offered[k][i] \in Nat
    BY StreamsAt DEF ReadOf
  <2>2. \A i \in DOMAIN offered[k] : 0 < offered[k][i]
    BY <1>1, <2>1
  <2>3. QED
    BY <1>1, <1>2, <1>3, <2>2 DEF ReadOf
<1>7. ASSUME up'[k], \/ handler'[k].outbound = "Idle"
                     \/ handler'[k].outbound = "Busy" /\ streams'[k][c].ack # <<>>
      PROVE  ToRead(k, c) /\ c # inbound[k]
  <2>1. c \in DOMAIN streams[k] /\ handler[k].outbound \in {"Idle", "Busy"}
    BY <1>1, <1>3, <1>7, StreamTypes DEF HeldOf
  <2>2. ToRead(k, c)
    BY <1>1, <1>2, <1>3, <1>7, <2>1 DEF ReadOf
  <2>3. streams[k][c].data = <<>>
    BY <1>1, <1>2, <1>3, <1>7, <2>1 DEF HeldOf
  <2>4. c # inbound[k]
    BY <1>1, <1>3, <2>1, <2>3 DEF Holds
  <2>5. QED
    BY <2>2, <2>4
<1>8. up'[k] /\ (\/ handler'[k].outbound = "Idle"
                 \/ handler'[k].outbound = "Busy" /\ streams'[k][c].ack # <<>>)
        => inbound'[k] = c \/ \E i \in DOMAIN offered'[k] : c = offered'[k][i]
  BY <1>4, <1>7 DEF ToRead
<1>9. up'[k] /\ (\/ handler'[k].outbound = "Idle"
                 \/ handler'[k].outbound = "Busy" /\ streams'[k][Current(k)'].ack # <<>>)
        => ToRead(k, Current(k))'
  BY <1>3, <1>8 DEF ToRead
<1>10. QED
  BY <1>5, <1>6, <1>9 DEF ReadOf

LEMMA ReadRead ==
  ASSUME TypeOK, NEW k \in Conns, ReadOf(k), HeldOf(k), ReadStep(k)
  PROVE  ReadOf(k)'
<1> DEFINE c == Len(streams[k])
           s == inbound[k]
<1>1. UNCHANGED <<up, handler, inbound, offered>>
  BY DEF ReadStep, RemoteFrame
<1>2. \A t \in DOMAIN streams[k] :
        streams'[k][t].data = streams[k][t].data \/ streams'[k][t].data = <<>>
  BY ReadAt
<1>3. ASSUME up[k], \/ handler'[k].outbound = "Idle"
                    \/ handler'[k].outbound = "Busy" /\ streams'[k][c].ack # <<>>
      PROVE  ToRead(k, c)
  <2>1. CASE c = s
    BY <2>1 DEF ToRead
  <2>2. CASE c # s
    <3>1. c \in DOMAIN streams[k] /\ Current(k) = c
      BY <1>1, <1>3, StreamsAt, StreamTypes DEF HeldOf
    <3>2. streams'[k][c] = streams[k][c]
      BY <2>2, <3>1, ReadAt
    <3>3. QED
      BY <1>1, <1>3, <3>1, <3>2 DEF ReadOf
  <2>3. QED
    BY <2>1, <2>2
<1>4. Len(streams'[k]) = Len(streams[k]) /\ DOMAIN streams'[k] = DOMAIN streams[k]
  BY ReadAt
<1>5. QED
  BY <1>1, <1>2, <1>3, <1>4, ReadKept

LEMMA ReadHere ==
  ASSUME TypeOK, NEW k \in Conns, LinkOf(k), HeldOf(k), ReadOf(k), StepOf(k)
  PROVE  ReadOf(k)'
<1> DEFINE c == Len(streams[k])
<1>0. Current(k) = c
  BY StreamsAt
<1>1. CASE \/ PostStep(k) \/ on_event(k) \/ WaitStep(k) \/ FailStep(k) \/ CloseStep(k)
  <2>1. UNCHANGED <<up, streams, inbound, offered>>
    BY <1>1 DEF PostStep, on_event, remoteVars, WaitStep, FailStep, OverStep, CloseStep
  <2>2. \/ UNCHANGED handler[k].outbound
        \/ handler'[k].outbound \in {"None", "OpenStream"}
    <3>1. CASE PostStep(k) \/ on_event(k)
      BY <3>1 DEF PostStep, on_event
    <3>2. CASE WaitStep(k)
      BY <3>2 DEF WaitStep
    <3>3. CASE FailStep(k)
      BY <3>3 DEF FailStep, OverStep
    <3>4. CASE CloseStep(k)
      BY <3>4 DEF CloseStep, NewHandler
    <3>5. QED
      BY <1>1, <3>1, <3>2, <3>3, <3>4
  <2>3. up[k] /\ (\/ handler'[k].outbound = "Idle"
                  \/ handler'[k].outbound = "Busy" /\ streams'[k][c].ack # <<>>)
          => ToRead(k, c)
    BY <1>0, <2>1, <2>2 DEF ReadOf
  <2>4. QED
    BY <2>1, <2>3, ReadKept
<1>2. CASE OpenStep(k)
  BY <1>2, ReadOpen
<1>3. CASE WriteStep(k)
  BY <1>3, ReadWrite
<1>4. CASE DoneStep(k)
  <2> DEFINE r == [streams[k][Current(k)] EXCEPT !.ack = Tail(@)]
  <2>1. Current(k) \in DOMAIN streams[k] /\ StreamBecomes(k, Current(k), r)
        /\ handler[k].outbound = "Busy" /\ streams[k][Current(k)].ack # <<>>
        /\ UNCHANGED <<up, inbound, offered>>
    BY <1>4 DEF DoneStep, OverStep
  <2>2. streams[k][Current(k)] \in Stream
    BY <2>1, StreamTypes
  <2>3. r.data = streams[k][Current(k)].data
    BY <2>2 DEF Stream
  <2> HIDE DEF r
  <2>4. \A t \in DOMAIN streams[k] : streams'[k][t].data = streams[k][t].data
    BY <2>1, <2>3 DEF StreamBecomes
  <2>5. up[k] => ToRead(k, c)
    BY <1>0, <2>1 DEF ReadOf
  <2>6. Len(streams'[k]) = Len(streams[k]) /\ DOMAIN streams'[k] = DOMAIN streams[k]
    BY <2>1 DEF StreamBecomes
  <2>7. QED
    BY <2>1, <2>4, <2>5, <2>6, ReadKept
<1>5. CASE TakeStep(k)
  BY <1>5, ReadTake
<1>6. CASE ReadStep(k)
  BY <1>6, ReadRead
<1>7. CASE EndStep(k)
  BY <1>7, ReadEnd
<1>8. CASE Establish(k)
  <2>1. streams[k] = <<>> /\ handler[k].outbound = "None"
        /\ UNCHANGED <<streams, inbound, offered, handler>>
    BY <1>8 DEF Establish, remoteVars, LinkOf, NewHandler
  <2>2. \A s \in DOMAIN streams[k] : FALSE
    BY <2>1
  <2>3. QED
    BY <2>1, <2>2 DEF ReadOf
<1>9. CASE LostStep(k)
  <2>1. ~up'[k] /\ inbound'[k] = 0 /\ offered'[k] = <<>>
        /\ Len(streams'[k]) = c /\ DOMAIN streams'[k] = DOMAIN streams[k]
        /\ \A t \in DOMAIN streams[k] : streams'[k][t].data = <<>>
    BY <1>9 DEF LostStep, TypeOK
  <2>2. c \in Nat
    BY StreamsAt
  <2>3. QED
    BY <2>1, <2>2 DEF ReadOf
<1>10. QED
  BY <1>1, <1>2, <1>3, <1>4, <1>5, <1>6, <1>7, <1>8, <1>9 DEF StepOf

LEMMA StreamStep ==
  ASSUME TypeOK, TypeOK', LinkInv, HandlerInv, StreamInv,
         \/ \E m \in Messages : SendStep(m)
         \/ RefuseStep("not_found") \/ RefuseStep("panicked")
         \/ \E k \in Conns : StepOf(k)
  PROVE  StreamInv'
<1>1. \A m : Delivered(m) => Delivered(m)'
  BY DeliveredStep, DeliveredGrows
<1>2. ASSUME NEW l \in Conns, Same(l)
      PROVE  HeldOf(l)' /\ ReadOf(l)'
  <2>1. HeldOf(l) /\ ReadOf(l)
    BY DEF StreamInv
  <2>2. HeldOf(l)'
    BY <1>1, <1>2, <2>1 DEF Same, HeldOf, Current
  <2>3. ReadOf(l)'
    BY <1>2, <2>1 DEF Same, ReadOf, ToRead, Current
  <2>4. QED
    BY <2>2, <2>3
<1>3. CASE \E k \in Conns : StepOf(k)
  <2>1. PICK k \in Conns : StepOf(k)
    BY <1>3
  <2>2. HeldOf(k)' /\ ReadOf(k)'
    BY <1>1, <2>1, HeldHere, ReadHere DEF StreamInv, LinkInv, HandlerInv
  <2>3. \A l \in Conns : l # k => HeldOf(l)' /\ ReadOf(l)'
    BY <1>2, <2>1, Elsewhere
  <2>4. QED
    BY <2>2, <2>3 DEF StreamInv
<1>4. CASE ~\E k \in Conns : StepOf(k)
  BY <1>2, <1>4, Nowhere DEF StreamInv
<1>5. QED
  BY <1>3, <1>4

-----------------------------------------------------------------------------
(* The order of delivery. *)

\* Nothing new on the streams, nothing new delivered.
LEMMA OrderKept ==
  ASSUME NEW l \in Conns, OrderOf(l), Sent(l) \in Nat, Sent(l)' \in Nat,
         Sent(l) <= Sent(l)',
         \A s \in DOMAIN streams'[l] : streams'[l][s].data # <<>> =>
           \E i \in DOMAIN posted'[l] : Frame(l, s, i)',
         \A s, i \in Nat : Frame(l, s, i)' =>
           Frame(l, s, i) /\ call'[posted'[l][i]] # "ok",
         \A p, i \in Nat : Got(l, p, i)' => Got(l, p, i)
  PROVE  OrderOf(l)'
<1>1. \A s, i \in Nat : Frame(l, s, i)' => i <= Sent(l)'
  BY DEF OrderOf
<1>2. \A p, i \in Nat : Got(l, p, i)' => i <= Sent(l)'
  BY DEF OrderOf
<1>3. \A s, t, i, j \in Nat : Frame(l, s, i)' /\ Frame(l, t, j)' /\ s < t => i < j
  BY DEF OrderOf
<1>4. \A s, p, i, j \in Nat : Frame(l, s, i)' /\ Got(l, p, j)' => j < i
  BY DEF OrderOf
<1>5. \A p, q, i, j \in Nat : Got(l, p, i)' /\ Got(l, q, j)' /\ p < q => i < j
  BY DEF OrderOf
<1>6. QED
  BY <1>1, <1>2, <1>3, <1>4, <1>5 DEF OrderOf

\* A connection whose streams lose frames or nothing.
LEMMA OrderShrunk ==
  ASSUME TypeOK, NEW l \in Conns, OrderOf(l), HandlerOf(l), HandlerOf(l)', TypeOK',
         Sent(l) <= Sent(l)', posted'[l] = posted[l],
         \A s \in DOMAIN streams'[l] : streams'[l][s].data # <<>> =>
           s \in DOMAIN streams[l] /\ streams'[l][s].data = streams[l][s].data,
         \A s, i \in Nat : Frame(l, s, i) => call'[posted[l][i]] # "ok",
         \A p, i \in Nat : Got(l, p, i)' => Got(l, p, i)
  PROVE  OrderOf(l)'
<1>1. Sent(l) \in Nat
  BY SentAt
<1>2. Sent(l)' \in Nat
  <2>1. posted'[l] \in Seq(Messages) /\ handler'[l] \in Handler
    BY DEF TypeOK
  <2>2. Len(posted'[l]) \in Nat /\ Len(handler'[l].pending) \in Nat
    BY <2>1 DEF Handler
  <2>3. Len(handler'[l].pending) <= Len(posted'[l])
    BY DEF HandlerOf
  <2>4. Len(posted'[l]) - Len(handler'[l].pending) \in Nat
    BY <2>2, <2>3, Offset
  <2>5. QED
    BY <2>4 DEF Sent
<1>3. \A s, i \in Nat : Frame(l, s, i)' =>
        Frame(l, s, i) /\ call'[posted'[l][i]] # "ok"
  BY DEF Frame
<1>4. ASSUME NEW s \in DOMAIN streams'[l], streams'[l][s].data # <<>>
      PROVE  \E i \in DOMAIN posted'[l] : Frame(l, s, i)'
  <2>1. s \in DOMAIN streams[l] /\ streams'[l][s].data = streams[l][s].data
    BY <1>4
  <2>2. PICK i \in DOMAIN posted[l] : Frame(l, s, i)
    BY <1>4, <2>1 DEF OrderOf
  <2>3. Frame(l, s, i)'
    BY <1>4, <2>1, <2>2 DEF Frame
  <2>4. QED
    BY <2>3
<1>5. QED
  BY <1>1, <1>2, <1>3, <1>4, OrderKept

\* Once the verifier is there, no frame of the connection is left anywhere.
LEMMA NoneUnread ==
  ASSUME TypeOK, NEW k \in Conns, HeldOf(k), HandlerOf(k), OrderOf(k), DoneStep(k)
  PROVE  \A s, i \in Nat : ~Frame(k, s, i)
<1>1. handler[k].outbound = "Busy" /\ streams[k][Current(k)].ack # <<>>
  BY DEF DoneStep, OverStep
<1>2. PICK m : m \in handler[k].task
  BY <1>1 DEF TypeOK
<1>3. PICK p \in DOMAIN delivered : delivered[p] = m
  BY <1>1, <1>2 DEF HeldOf, Delivered
<1>4. Sent(k) \in Nat /\ p \in Nat
  BY SentAt DEF TypeOK
<1>5. Got(k, p, Sent(k))
  BY <1>2, <1>3 DEF Got, HandlerOf
<1>6. ASSUME NEW s \in Nat, NEW i \in Nat, Frame(k, s, i)
      PROVE  FALSE
  <2>1. i <= Sent(k)
    BY <1>6 DEF OrderOf
  <2>2. Sent(k) < i
    BY <1>4, <1>5, <1>6 DEF OrderOf
  <2>3. QED
    BY <1>4, <2>1, <2>2
<1>7. QED
  BY <1>6

LEMMA OrderPost ==
  ASSUME TypeOK, TypeOK', QueueInv, OrderInv, NEW k \in Conns, HandlerOf(k),
         HandlerOf(k)', PostStep(k)
  PROVE  OrderOf(k)'
<1> DEFINE m == Head(inEvents)
           n == Len(posted[k]) + 1
<1>1. Fresh(m) /\ m \in Messages
  BY QueueHead DEF PostStep
<1>2. UNCHANGED <<call, streams, delivered>>
  BY DEF PostStep
<1>3. Sent(k)' = Sent(k) /\ Sent(k) \in Nat
  <2>1. Len(posted'[k]) = Len(posted[k]) + 1
        /\ Len(handler'[k].pending) = Len(handler[k].pending) + 1
    BY <1>1, PostTypes, AppendAt DEF PostStep
  <2>2. Len(posted[k]) \in Nat /\ Len(handler[k].pending) \in Nat
    BY PostTypes
  <2>3. Sent(k)' = (Len(posted[k]) + 1) - (Len(handler[k].pending) + 1)
        /\ Sent(k) = Len(posted[k]) - Len(handler[k].pending) /\ Sent(k) \in Nat
    BY <2>1, SentAt DEF Sent
  <2>4. QED
    BY <2>2, <2>3, Cancel
<1>4. \A i \in DOMAIN posted[k] : i \in DOMAIN posted'[k] /\ posted'[k][i] = posted[k][i]
  BY PostedAt
<1>5. \A i \in DOMAIN posted'[k] : i \in DOMAIN posted[k] \/ posted'[k][i] = m
  BY PostedAt
<1>6. \A s \in DOMAIN streams[k] : streams[k][s].data # <<>> =>
        \E i \in DOMAIN posted[k] : Frame(k, s, i)
  BY DEF OrderInv, OrderOf
<1>7. \A s \in DOMAIN streams[k] : streams[k][s].data # <<>> => streams[k][s].data[1] # m
  BY <1>1, <1>6 DEF Frame, Fresh
<1>8. \A s, i \in Nat : Frame(k, s, i)' =>
        Frame(k, s, i) /\ posted'[k][i] = posted[k][i]
  BY <1>2, <1>4, <1>5, <1>7 DEF Frame
<1>9. \A s, i \in Nat : Frame(k, s, i)' =>
        Frame(k, s, i) /\ call'[posted'[k][i]] # "ok"
  BY <1>2, <1>8 DEF OrderInv, OrderOf
<1>10. \A s \in DOMAIN streams'[k] : streams'[k][s].data # <<>> =>
         \E i \in DOMAIN posted'[k] : Frame(k, s, i)'
  BY <1>2, <1>4, <1>6 DEF Frame
<1>11. \A p \in DOMAIN delivered : delivered[p] # m
  BY <1>1 DEF OrderInv, Got, Fresh
<1>12. \A p, i \in Nat : Got(k, p, i)' => Got(k, p, i)
  BY <1>2, <1>4, <1>5, <1>11 DEF Got
<1>13. OrderOf(k)
  BY DEF OrderInv
<1>14. QED
  BY <1>3, <1>9, <1>10, <1>12, <1>13, OrderKept

LEMMA OrderWrite ==
  ASSUME TypeOK, QueueInv, NEW k \in Conns, OrderOf(k), HandlerOf(k), HeldOf(k),
         WriteStep(k)
  PROVE  OrderOf(k)'
<1> DEFINE c == Len(streams[k])
           m == Head(handler[k].pending)
           n == Sent(k) + 1
           q == streams[k][c]
           r == [q EXCEPT !.data = Append(@, m)]
<1>1. n \in DOMAIN posted[k] /\ m = posted[k][n] /\ Sent(k)' = n /\ Sent(k) \in Nat
      /\ n \in Nat
  BY HandlerWrite, SentAt
<1>2. c \in DOMAIN streams[k] /\ StreamBecomes(k, c, r) /\ handler[k].outbound = "Idle"
      /\ UNCHANGED <<posted, call, delivered>> /\ c \in Nat
      /\ DOMAIN streams[k] = 1 .. c
  BY StreamsAt DEF WriteStep
<1>3. q.data = <<>> /\ q \in Stream
  BY <1>2, StreamTypes, StreamsAt DEF HeldOf
<1>4. r.data = <<m>>
  BY <1>3 DEF Stream
<1> HIDE DEF r
<1>5. r.data # <<>> /\ r.data[1] = m
  BY <1>4
<1>6. DOMAIN streams'[k] = DOMAIN streams[k] /\ streams'[k][c] = r
      /\ \A t \in DOMAIN streams[k] : t # c => streams'[k][t] = streams[k][t]
  BY <1>2 DEF StreamBecomes
<1>7. \A i \in DOMAIN posted[k] : posted[k][i] = m => i = n
  BY <1>1 DEF QueueInv
<1>8. \A s, i \in Nat : Frame(k, s, i)' =>
        \/ Frame(k, s, i) /\ s # c /\ s < c
        \/ s = c /\ i = n
  BY <1>2, <1>5, <1>6, <1>7 DEF Frame
<1>9. \A p, i \in Nat : Got(k, p, i)' <=> Got(k, p, i)
  BY <1>2 DEF Got
<1>10. call[m] = "waiting"
  <2>1. 1 \in DOMAIN handler[k].pending /\ m = handler[k].pending[1]
    BY TailAt, PostTypes DEF WriteStep
  <2>2. QED
    BY <2>1 DEF HandlerOf
<1> HIDE DEF n, c, m
<1>11. ASSUME NEW s \in DOMAIN streams'[k], streams'[k][s].data # <<>>
       PROVE  \E i \in DOMAIN posted'[k] : Frame(k, s, i)'
  <2>1. CASE s = c
    BY <1>1, <1>2, <1>5, <1>6, <2>1 DEF Frame
  <2>2. CASE s # c
    <3>1. s \in DOMAIN streams[k] /\ streams'[k][s] = streams[k][s]
      BY <1>6, <2>2
    <3>2. PICK i \in DOMAIN posted[k] : Frame(k, s, i)
      BY <1>11, <3>1 DEF OrderOf
    <3>3. QED
      BY <1>2, <1>6, <3>1, <3>2 DEF Frame
  <2>3. QED
    BY <2>1, <2>2
<1>12. \A s, i \in Nat : Frame(k, s, i) => i <= Sent(k) /\ call[posted[k][i]] # "ok"
  BY DEF OrderOf
<1>13. \A p, i \in Nat : Got(k, p, i) => i <= Sent(k)
  BY DEF OrderOf
<1>14. \A i \in Nat : i <= Sent(k) => i < n /\ i <= n
  BY <1>1 DEF n
<1>15. \A s, i \in Nat : Frame(k, s, i)' => i <= Sent(k)' /\ call'[posted'[k][i]] # "ok"
  BY <1>1, <1>2, <1>8, <1>10, <1>12, <1>14
<1>16. \A p, i \in Nat : Got(k, p, i)' => i <= Sent(k)'
  BY <1>1, <1>9, <1>13, <1>14
<1>17. \A s, t, i, j \in Nat : Frame(k, s, i)' /\ Frame(k, t, j)' /\ s < t => i < j
  <2>1. SUFFICES ASSUME NEW s \in Nat, NEW t \in Nat, NEW i \in Nat, NEW j \in Nat,
                        Frame(k, s, i)', Frame(k, t, j)', s < t
                 PROVE  i < j
    OBVIOUS
  <2>2. CASE Frame(k, s, i) /\ Frame(k, t, j)
    BY <2>1, <2>2 DEF OrderOf
  <2>3. CASE Frame(k, s, i) /\ t = c /\ j = n
    BY <1>12, <1>14, <2>3
  <2>4. CASE s = c /\ i = n
    BY <1>2, <1>8, <2>1, <2>4
  <2>5. QED
    BY <1>8, <2>1, <2>2, <2>3, <2>4
<1>18. \A s, p, i, j \in Nat : Frame(k, s, i)' /\ Got(k, p, j)' => j < i
  <2>1. SUFFICES ASSUME NEW s \in Nat, NEW p \in Nat, NEW i \in Nat, NEW j \in Nat,
                        Frame(k, s, i)', Got(k, p, j)
                 PROVE  j < i
    BY <1>9
  <2>2. CASE Frame(k, s, i)
    BY <2>1, <2>2 DEF OrderOf
  <2>3. CASE i = n
    BY <1>13, <1>14, <2>1, <2>3
  <2>4. QED
    BY <1>8, <2>1, <2>2, <2>3
<1>19. \A p, o, i, j \in Nat : Got(k, p, i)' /\ Got(k, o, j)' /\ p < o => i < j
  BY <1>9 DEF OrderOf
<1>20. QED
  BY <1>11, <1>15, <1>16, <1>17, <1>18, <1>19 DEF OrderOf

\* The message that ReadStep delivers, and where it was handed over.
LEMMA ReadFrame ==
  ASSUME TypeOK, QueueInv, NEW k \in Conns, OrderOf(k), ReadOf(k), ReadStep(k)
  PROVE  \E i \in DOMAIN posted[k] :
           /\ Frame(k, inbound[k], i)
           /\ delivered' = Append(delivered, posted[k][i])
           /\ posted[k][i] \in Messages
<1>1. inbound[k] \in DOMAIN streams[k] /\ streams[k][inbound[k]].data # <<>>
      /\ delivered' = Append(delivered, streams[k][inbound[k]].data[1])
  BY ReadAt
<1>2. PICK i \in DOMAIN posted[k] : Frame(k, inbound[k], i)
  BY <1>1 DEF OrderOf
<1>3. QED
  BY <1>1, <1>2, PostTypes DEF Frame

LEMMA OrderRead ==
  ASSUME TypeOK, QueueInv, NEW k \in Conns, OrderOf(k), ReadOf(k), HandlerOf(k),
         ReadStep(k)
  PROVE  OrderOf(k)'
<1> DEFINE x == inbound[k]
           d == Len(delivered) + 1
<1>1. PICK n \in DOMAIN posted[k] :
        /\ Frame(k, x, n) /\ delivered' = Append(delivered, posted[k][n])
        /\ posted[k][n] \in Messages
  BY ReadFrame
<1>2. UNCHANGED <<posted, call, handler, up, inbound, offered>> /\ up[k]
  BY DEF ReadStep, RemoteFrame
<1>3. n \in Nat /\ x \in Nat /\ d \in Nat
  BY <1>1, PostTypes, StreamsAt DEF TypeOK
<1>4. Sent(k)' = Sent(k) /\ Sent(k) \in Nat
  BY <1>2, SentAt DEF Sent
<1>5. DOMAIN streams'[k] = DOMAIN streams[k] /\ streams'[k][x].data = <<>>
      /\ \A t \in DOMAIN streams[k] : t # x => streams'[k][t] = streams[k][t]
  BY ReadAt
<1>6. \A s, i \in Nat : Frame(k, s, i)' => Frame(k, s, i) /\ s # x
  BY <1>2, <1>5 DEF Frame
<1>7. ASSUME NEW s \in Nat, NEW i \in Nat, Frame(k, s, i)'
      PROVE  Frame(k, s, i) /\ n < i
  <2>1. Frame(k, s, i) /\ s # x
    BY <1>6, <1>7
  <2>2. ToRead(k, s)
    BY <1>2, <2>1 DEF Frame, ReadOf
  <2>3. x < s
    BY <2>1, <2>2 DEF ToRead, ReadOf
  <2>4. QED
    BY <1>1, <1>3, <2>1, <2>3 DEF OrderOf
<1>8. \A i \in DOMAIN posted[k] : posted[k][i] = posted[k][n] => i = n
  BY DEF QueueInv
<1>9. \A p, i \in Nat : Got(k, p, i)' =>
        \/ Got(k, p, i) /\ p < d
        \/ p = d /\ i = n
  <2>1. delivered \in Seq(Messages)
    BY DEF TypeOK
  <2>2. \A p \in DOMAIN delivered' :
          \/ p \in DOMAIN delivered /\ delivered'[p] = delivered[p] /\ p < d
          \/ p = d /\ delivered'[p] = posted[k][n]
    BY <1>1, <2>1
  <2>3. QED
    BY <1>2, <1>8, <2>2 DEF Got
<1> HIDE DEF x, d
<1>10. ASSUME NEW s \in DOMAIN streams'[k], streams'[k][s].data # <<>>
       PROVE  \E i \in DOMAIN posted'[k] : Frame(k, s, i)'
  <2>1. s \in DOMAIN streams[k] /\ streams'[k][s] = streams[k][s]
    BY <1>5, <1>10
  <2>2. PICK i \in DOMAIN posted[k] : Frame(k, s, i)
    BY <1>10, <2>1 DEF OrderOf
  <2>3. QED
    BY <1>2, <1>5, <2>1, <2>2 DEF Frame
<1>11. \A s, i \in Nat : Frame(k, s, i)' => i <= Sent(k)' /\ call'[posted'[k][i]] # "ok"
  BY <1>2, <1>4, <1>7 DEF OrderOf
<1>12. n <= Sent(k)
  BY <1>1, <1>3 DEF OrderOf
<1>13. \A p, i \in Nat : Got(k, p, i)' => i <= Sent(k)'
  BY <1>4, <1>9, <1>12 DEF OrderOf
<1>14. \A s, t, i, j \in Nat : Frame(k, s, i)' /\ Frame(k, t, j)' /\ s < t => i < j
  BY <1>7 DEF OrderOf
<1>15. \A s, p, i, j \in Nat : Frame(k, s, i)' /\ Got(k, p, j)' => j < i
  <2>1. SUFFICES ASSUME NEW s \in Nat, NEW p \in Nat, NEW i \in Nat, NEW j \in Nat,
                        Frame(k, s, i)', Got(k, p, j)'
                 PROVE  j < i
    OBVIOUS
  <2>2. Frame(k, s, i) /\ n < i
    BY <1>7, <2>1
  <2>3. CASE Got(k, p, j)
    BY <2>2, <2>3 DEF OrderOf
  <2>4. CASE j = n
    BY <2>2, <2>4
  <2>5. QED
    BY <1>9, <2>1, <2>3, <2>4
<1>16. \A p, q, i, j \in Nat : Got(k, p, i)' /\ Got(k, q, j)' /\ p < q => i < j
  <2>1. SUFFICES ASSUME NEW p \in Nat, NEW q \in Nat, NEW i \in Nat, NEW j \in Nat,
                        Got(k, p, i)', Got(k, q, j)', p < q
                 PROVE  i < j
    OBVIOUS
  <2>2. CASE Got(k, p, i) /\ Got(k, q, j)
    BY <2>1, <2>2 DEF OrderOf
  <2>3. CASE Got(k, p, i) /\ j = n
    BY <1>1, <1>3, <2>3 DEF OrderOf
  <2>4. CASE p = d
    BY <1>3, <1>9, <2>1, <2>4
  <2>5. QED
    BY <1>9, <2>1, <2>2, <2>3, <2>4
<1>17. QED
  BY <1>10, <1>11, <1>13, <1>14, <1>15, <1>16 DEF OrderOf

LEMMA OrderHere ==
  ASSUME TypeOK, TypeOK', QueueInv, OrderInv, NEW k \in Conns, HandlerOf(k),
         HandlerOf(k)', HeldOf(k), ReadOf(k), StepOf(k)
  PROVE  OrderOf(k)'
<1>0. OrderOf(k)
  BY DEF OrderInv
<1>1. CASE PostStep(k) \/ WriteStep(k) \/ ReadStep(k)
  BY <1>0, <1>1, OrderPost, OrderWrite, OrderRead
<1>2. CASE ~(PostStep(k) \/ WriteStep(k) \/ ReadStep(k))
  <2>1. UNCHANGED <<posted, delivered>>
    BY <1>2 DEF StepOf, on_event, remoteVars, WaitStep, OpenStep, DoneStep, FailStep,
                OverStep, TakeStep, EndStep, RemoteFrame, Establish, CloseStep, LostStep
  <2>2. \A p, i \in Nat : Got(k, p, i)' => Got(k, p, i)
    BY <2>1 DEF Got
  <2>3. Sent(k) <= Sent(k)'
    <3>1. CASE CloseStep(k)
      <4>1. handler'[k].pending = <<>>
        BY <3>1 DEF CloseStep, NewHandler
      <4>2. Len(posted[k]) \in Nat /\ Len(handler'[k].pending) = 0
        BY <4>1, PostTypes
      <4>3. Sent(k)' = Len(posted[k])
        BY <2>1, <4>2 DEF Sent
      <4>4. QED
        BY <4>3, SentAt
    <3>2. CASE ~CloseStep(k)
      <4>1. handler'[k].pending = handler[k].pending
        BY <1>2, <3>2 DEF StepOf, on_event, WaitStep, OpenStep, DoneStep, FailStep,
               OverStep, TakeStep, EndStep, RemoteFrame, Establish, LostStep
      <4>2. Sent(k)' = Sent(k)
        BY <2>1, <4>1 DEF Sent
      <4>3. QED
        BY <4>2, SentAt
    <3>3. QED
      BY <3>1, <3>2
  <2>4. \A s, i \in Nat : Frame(k, s, i) => call'[posted[k][i]] # "ok"
    <3>1. CASE DoneStep(k)
      BY <1>0, <3>1, NoneUnread
    <3>2. CASE ~DoneStep(k)
      <4>1. \A m \in Messages : call'[m] = call[m] \/ call'[m] \in {"timeout", "panicked"}
        BY <1>2, <3>2 DEF StepOf, on_event, WaitStep, OpenStep, FailStep, OverStep,
               TakeStep, EndStep, RemoteFrame, Establish, CloseStep, LostStep
      <4>2. \A s, i \in Nat : Frame(k, s, i) =>
              posted[k][i] \in Messages /\ call[posted[k][i]] # "ok"
        BY <1>0, PostTypes DEF OrderOf, Frame
      <4>3. QED
        BY <4>1, <4>2
    <3>3. QED
      BY <3>1, <3>2
  <2>5. \A s \in DOMAIN streams'[k] : streams'[k][s].data # <<>> =>
          s \in DOMAIN streams[k] /\ streams'[k][s].data = streams[k][s].data
    <3>1. CASE on_event(k) \/ WaitStep(k) \/ FailStep(k) \/ Establish(k) \/ CloseStep(k)
      BY <3>1 DEF on_event, WaitStep, FailStep, Establish, CloseStep
    <3>2. CASE OpenStep(k)
      <4>1. streams[k] \in Seq(Stream) /\ NewStream \in Stream
            /\ streams'[k] = Append(streams[k], NewStream)
        BY <3>2, StreamTypes DEF OpenStep, TypeOK
      <4>2. \A s \in DOMAIN streams'[k] :
              \/ s \in DOMAIN streams[k] /\ streams'[k][s] = streams[k][s]
              \/ streams'[k][s] = NewStream
        BY <4>1, AppendAt
      <4>3. NewStream.data = <<>>
        BY DEF NewStream
      <4>4. QED
        BY <4>2, <4>3
    <3>3. CASE DoneStep(k)
      <4> DEFINE c == Current(k)
                 r == [streams[k][c] EXCEPT !.ack = Tail(@)]
      <4>1. c \in DOMAIN streams[k] /\ StreamBecomes(k, c, r)
        BY <3>3 DEF DoneStep, OverStep
      <4>2. streams[k][c] \in Stream
        BY <4>1, StreamTypes
      <4>3. r.data = streams[k][c].data
        BY <4>2 DEF Stream
      <4> HIDE DEF r
      <4>4. QED
        BY <4>1, <4>3 DEF StreamBecomes
    <3>4. CASE TakeStep(k) \/ EndStep(k)
      <4>1. StreamDropped(k, inbound[k])
        BY <3>4 DEF TakeStep, EndStep
      <4>2. QED
        BY <4>1 DEF StreamDropped
    <3>5. CASE LostStep(k)
      BY <3>5 DEF LostStep
    <3>6. QED
      BY <1>2, <3>1, <3>2, <3>3, <3>4, <3>5 DEF StepOf
  <2>6. QED
    BY <1>0, <2>1, <2>2, <2>3, <2>4, <2>5, OrderShrunk
<1>3. QED
  BY <1>1, <1>2

\* A connection that nothing happened to, when something may have been
\* delivered for another.
LEMMA OrderSame ==
  ASSUME TypeOK, TypeOK', NEW l \in Conns, OrderOf(l), HandlerOf(l), HandlerOf(l)',
         Same(l), \A i \in DOMAIN posted[l] : call'[posted[l][i]] = call[posted[l][i]],
         \A p, i \in Nat : Got(l, p, i)' => Got(l, p, i)
  PROVE  OrderOf(l)'
<1>1. Sent(l)' = Sent(l) /\ Sent(l) \in Nat
  BY SentAt DEF Same, Sent
<1>2. \A s, i \in Nat : Frame(l, s, i) => call'[posted[l][i]] # "ok"
  BY DEF OrderOf, Frame
<1>3. posted'[l] = posted[l] /\ streams'[l] = streams[l]
  BY DEF Same
<1>4. QED
  BY <1>1, <1>2, <1>3, OrderShrunk

\* Everything delivered was handed to a connection.
GotAll ==
  \A p \in DOMAIN delivered : \E k \in Conns : \E i \in DOMAIN posted[k] : Got(k, p, i)

LEMMA GotAllStep ==
  ASSUME TypeOK, QueueInv, StreamInv, OrderInv,
         \/ \E m \in Messages : SendStep(m)
         \/ RefuseStep("not_found") \/ RefuseStep("panicked")
         \/ \E k \in Conns : StepOf(k)
  PROVE  GotAll'
<1>1. GotAll
  BY DEF OrderInv, GotAll
<1>2. CASE UNCHANGED <<posted, delivered>>
  BY <1>1, <1>2 DEF GotAll, Got
<1>3. ASSUME NEW k \in Conns, PostStep(k)
      PROVE  GotAll'
  <2>1. UNCHANGED delivered
    BY <1>3 DEF PostStep
  <2>2. \A l \in Conns : \A i \in DOMAIN posted[l] :
          i \in DOMAIN posted'[l] /\ posted'[l][i] = posted[l][i]
    BY <1>3, PostedAt
  <2>3. QED
    BY <1>1, <2>1, <2>2 DEF GotAll, Got
<1>4. ASSUME NEW k \in Conns, ReadStep(k)
      PROVE  GotAll'
  <2>1. PICK n \in DOMAIN posted[k] :
          delivered' = Append(delivered, posted[k][n]) /\ posted[k][n] \in Messages
    BY <1>4, ReadFrame DEF OrderInv, StreamInv
  <2>2. UNCHANGED posted /\ delivered \in Seq(Messages)
    BY <1>4 DEF ReadStep, RemoteFrame, TypeOK
  <2>3. \A p \in DOMAIN delivered' :
          \/ p \in DOMAIN delivered /\ delivered'[p] = delivered[p]
          \/ delivered'[p] = posted[k][n]
    BY <2>1, <2>2, AppendAt
  <2>4. QED
    BY <1>1, <2>2, <2>3 DEF GotAll, Got
<1>5. ASSUME NEW k \in Conns, StepOf(k), ~PostStep(k), ~ReadStep(k)
      PROVE  UNCHANGED <<posted, delivered>>
  BY <1>5 DEF StepOf, on_event, remoteVars, WaitStep, OpenStep, WriteStep, DoneStep,
              FailStep, OverStep, TakeStep, EndStep, RemoteFrame, Establish,
              CloseStep, LostStep
<1>6. QED
  BY <1>2, <1>3, <1>4, <1>5 DEF SendStep, RefuseStep

LEMMA OrderStep ==
  ASSUME TypeOK, TypeOK', QueueInv, HandlerInv, HandlerInv', StreamInv, OrderInv,
         \/ \E m \in Messages : SendStep(m)
         \/ RefuseStep("not_found") \/ RefuseStep("panicked")
         \/ \E k \in Conns : StepOf(k)
  PROVE  OrderInv'
<1>1. \A l \in Conns : OrderOf(l) /\ HandlerOf(l) /\ HandlerOf(l)' /\ HeldOf(l) /\ ReadOf(l)
  BY DEF OrderInv, HandlerInv, StreamInv
<1>2. CASE \E k \in Conns : StepOf(k)
  <2>1. PICK k \in Conns : StepOf(k)
    BY <1>2
  <2>2. OrderOf(k)'
    BY <1>1, <2>1, OrderHere
  <2>3. ASSUME NEW l \in Conns, l # k
        PROVE  OrderOf(l)'
    <3>1. Same(l) /\ Told(k)
      BY <2>1, <2>3, Elsewhere, ToldHere
    <3>2. \A i \in DOMAIN posted[l] : call'[posted[l][i]] = call[posted[l][i]]
      BY <2>3, <3>1, OwedElsewhere, PostTypes DEF Told
    <3>3. \A p, i \in Nat : Got(l, p, i)' => Got(l, p, i)
      <4>1. CASE ReadStep(k)
        <5>1. PICK n \in DOMAIN posted[k] :
                delivered' = Append(delivered, posted[k][n]) /\ posted[k][n] \in Messages
          BY <1>1, <4>1, ReadFrame
        <5>2. delivered \in Seq(Messages)
          BY DEF TypeOK
        <5>3. \A p \in DOMAIN delivered' :
                \/ p \in DOMAIN delivered /\ delivered'[p] = delivered[p]
                \/ delivered'[p] = posted[k][n]
          BY <5>1, <5>2, AppendAt
        <5>4. \A i \in DOMAIN posted[l] : posted[l][i] # posted[k][n]
          BY <2>3 DEF QueueInv
        <5>5. QED
          BY <3>1, <5>3, <5>4 DEF Got, Same
      <4>2. CASE ~ReadStep(k)
        <5>1. UNCHANGED delivered
          BY <2>1, <4>2 DEF StepOf, PostStep, on_event, remoteVars, WaitStep, OpenStep,
                 WriteStep, DoneStep, FailStep, OverStep, TakeStep, EndStep,
                 Establish, CloseStep, LostStep
        <5>2. QED
          BY <3>1, <5>1 DEF Got, Same
      <4>3. QED
        BY <4>1, <4>2
    <3>4. QED
      BY <1>1, <3>1, <3>2, <3>3, OrderSame
  <2>4. QED
    BY <2>2, <2>3, GotAllStep DEF OrderInv, GotAll
<1>3. CASE ~\E k \in Conns : StepOf(k)
  <2>1. ASSUME NEW l \in Conns
        PROVE  OrderOf(l)'
    <3>1. Same(l) /\ UNCHANGED <<delivered, posted>>
      BY <1>3, Nowhere DEF SendStep, RefuseStep
    <3>2. \A i \in DOMAIN posted[l] : call'[posted[l][i]] = call[posted[l][i]]
      <4>1. CASE \E m \in Messages : SendStep(m)
        BY <4>1, PostTypes DEF SendStep, QueueInv
      <4>2. CASE RefuseStep("not_found") \/ RefuseStep("panicked")
        BY <4>2, QueueHead, PostTypes DEF RefuseStep, Fresh
      <4>3. QED
        BY <1>3, <4>1, <4>2
    <3>3. QED
      BY <1>1, <3>1, <3>2, OrderSame DEF Got
  <2>2. QED
    BY <2>1, GotAllStep DEF OrderInv, GotAll
<1>4. QED
  BY <1>2, <1>3

-----------------------------------------------------------------------------
(* The invariant holds. *)

LEMMA InitInv == Init => Inv
<1>1. SUFFICES ASSUME Init PROVE Inv
  OBVIOUS
<1>2. TypeOK
  <2>1. NewHandler \in Handler /\ NewHandler.outbound = "None" /\ NewHandler.task = {}
    BY DEF NewHandler, Handler
  <2>2. Plain
    <3>1. tooLong \subseteq Contents /\ connected \in BOOLEAN
      BY <1>1 DEF Init
    <3>2. link \in [Conns -> {"none", "open", "closed"}] /\ known \subseteq Conns
      BY <1>1 DEF Init
    <3>3. up \in [Conns -> BOOLEAN]
      BY <1>1 DEF Init
    <3>4. events \in [Conns -> Seq({"OutboundNegotiated", "ConnectionClosed"})]
      BY <1>1 DEF Init
    <3>5. offered \in [Conns -> Seq(Nat)] /\ inbound \in [Conns -> Nat]
          /\ delivered \in Seq(Messages)
      BY <1>1 DEF Init
    <3>6. QED
      BY <3>1, <3>2, <3>3, <3>4, <3>5 DEF Plain
  <2>3. call \in [Messages -> {"none", "waiting"} \cup Answers]
        /\ inEvents \in Seq(Messages) /\ handler \in [Conns -> Handler]
    BY <1>1, <2>1 DEF Init
  <2>4. streams \in [Conns -> Seq(Stream)] /\ posted \in [Conns -> Seq(Messages)]
    BY <1>1 DEF Init
  <2>5. \A k \in Conns : BusyOf(k)
    BY <1>1, <2>1 DEF Init, BusyOf
  <2>6. QED
    BY <2>2, <2>3, <2>4, <2>5, TypeParts
<1>3. LinkInv
  BY <1>1 DEF Init, LinkInv, LinkOf
<1>4. ConnectedMatches
  BY <1>1 DEF Init, ConnectedMatches
<1>5. QueueInv
  BY <1>1 DEF Init, QueueInv
<1>6. HandlerInv
  BY <1>1 DEF Init, HandlerInv, HandlerOf, NewHandler
<1>7. StreamInv
  BY <1>1 DEF Init, StreamInv, HeldOf, ReadOf, NewHandler
<1>8. OrderInv
  BY <1>1 DEF Init, OrderInv, OrderOf, Frame, Got
<1>9. QED
  BY <1>2, <1>3, <1>4, <1>5, <1>6, <1>7, <1>8 DEF Inv

LEMMA StutterInv ==
  ASSUME Inv, UNCHANGED vars
  PROVE  Inv'
<1> USE DEF vars
<1>1. TypeOK'
  BY DEF Inv, TypeOK
<1>2. LinkInv'
  BY DEF Inv, LinkInv, LinkOf
<1>3. ConnectedMatches'
  BY DEF Inv, ConnectedMatches
<1>4. QueueInv'
  BY DEF Inv, QueueInv
<1>5. HandlerInv'
  BY DEF Inv, HandlerInv, HandlerOf, Sent
<1>6. StreamInv'
  BY DEF Inv, StreamInv, HeldOf, ReadOf, ToRead, Delivered, Current
<1>7. OrderInv'
  <2>1. \A k \in Conns : Sent(k)' = Sent(k)
    BY DEF Sent
  <2>2. \A k \in Conns : \A s, i : Frame(k, s, i)' <=> Frame(k, s, i)
    BY DEF Frame
  <2>3. \A k \in Conns : \A p, i : Got(k, p, i)' <=> Got(k, p, i)
    BY DEF Got
  <2>4. \A k \in Conns : OrderOf(k)'
    BY <2>1, <2>2, <2>3 DEF Inv, OrderInv, OrderOf
  <2>5. QED
    BY <2>3, <2>4 DEF Inv, OrderInv
<1>8. QED
  BY <1>1, <1>2, <1>3, <1>4, <1>5, <1>6, <1>7 DEF Inv

LEMMA NextInv ==
  ASSUME Inv, [Next]_vars
  PROVE  Inv'
<1>1. CASE UNCHANGED vars
  BY <1>1, StutterInv
<1>2. CASE Next
  <2>1. \/ \E m \in Messages : SendStep(m)
        \/ RefuseStep("not_found") \/ RefuseStep("panicked")
        \/ \E k \in Conns : StepOf(k)
    BY <1>2, Steps DEF Inv
  <2>2. TypeOK'
    BY <2>1, TypeStep DEF Inv
  <2>3. LinkInv'
    BY <2>1, LinkStep DEF Inv
  <2>4. ConnectedMatches'
    BY <2>1, <2>2, ConnectedStep DEF Inv
  <2>5. QueueInv'
    BY <2>1, QueueStep DEF Inv
  <2>6. HandlerInv'
    BY <2>1, HandlerStep DEF Inv
  <2>7. StreamInv'
    BY <2>1, <2>2, StreamStep DEF Inv
  <2>8. OrderInv'
    BY <2>1, <2>2, <2>6, OrderStep DEF Inv
  <2>9. QED
    BY <2>2, <2>3, <2>4, <2>5, <2>6, <2>7, <2>8 DEF Inv
<1>3. QED
  BY <1>1, <1>2

LEMMA Invariant == Spec => []Inv
  BY InitInv, NextInv, PTL DEF Spec

\* Every state of the system is well typed.
THEOREM TypeCorrect == Spec => []TypeOK
  BY Invariant, PTL DEF Inv

\* connected_peers follows the connections: the remote is listed only while a
\* connection to it is known, and as long as one that has negotiated is
\* (behaviour.rs:29-33, 131-134).
THEOREM ConnectedPeersMatch == Spec => []ConnectedMatches
  BY Invariant, PTL DEF Inv

\* Messages of one connection are delivered in the order in which they were
\* handed to it (handler.rs:109-122).
THEOREM DeliveredInOrder == Spec => []InOrder
<1>1. ASSUME Inv PROVE InOrder
  <2>1. SUFFICES ASSUME NEW k \in Conns, NEW i \in DOMAIN delivered,
                        NEW j \in DOMAIN delivered, i < j,
                        delivered[i] \in ToSet(posted[k]),
                        delivered[j] \in ToSet(posted[k])
                 PROVE  \E x, y \in DOMAIN posted[k] :
                          x < y /\ posted[k][x] = delivered[i] /\ posted[k][y] = delivered[j]
    BY DEF InOrder
  <2>2. PICK x \in DOMAIN posted[k] : posted[k][x] = delivered[i]
    BY <2>1 DEF ToSet
  <2>3. PICK y \in DOMAIN posted[k] : posted[k][y] = delivered[j]
    BY <2>1 DEF ToSet
  <2>4. TypeOK /\ OrderOf(k)
    BY <1>1 DEF Inv, OrderInv
  <2>5. i \in Nat /\ j \in Nat /\ x \in Nat /\ y \in Nat
    <3>1. delivered \in Seq(Messages) /\ posted[k] \in Seq(Messages)
      BY <2>4 DEF TypeOK
    <3>2. QED
      BY <3>1
  <2>6. Got(k, i, x) /\ Got(k, j, y)
    BY <2>2, <2>3 DEF Got
  <2>7. x < y
    BY <2>1, <2>4, <2>5, <2>6 DEF OrderOf
  <2>8. QED
    BY <2>2, <2>3, <2>7
<1>2. QED
  BY <1>1, Invariant, PTL

-----------------------------------------------------------------------------
(* Messaging implements Courier. *)

\* What the caller knows, by where its call is.
Knows(c) ==
  CASE c = "none"      -> "none"
    [] c = "waiting"   -> "open"
    [] c = "ok"        -> "ok"
    [] c = "not_found" -> "refused"
    [] OTHER           -> "failed"

LEMMA KnowsAt ==
  /\ Knows("none") = "none" /\ Knows("waiting") = "open" /\ Knows("ok") = "ok"
  /\ Knows("not_found") = "refused" /\ Knows("timeout") = "failed"
  /\ Knows("panicked") = "failed"
  /\ \A c \in {"none", "waiting"} \cup Answers :
       c \notin {"none", "ok", "not_found"} => Knows(c) \in {"open", "failed"}
  BY DEF Knows, Answers

LEMMA MapInit == Init => Promise!Init
  BY DEF Init, Promise!Init

LEMMA MapAccept ==
  ASSUME NEW m \in Messages, SendStep(m)
  PROVE  Promise!Accept(m)
<1>1. [n \in Messages |-> Knows(call'[n])]
        = [[n \in Messages |-> Knows(call[n])] EXCEPT ![m] = "open"]
  BY KnowsAt DEF SendStep
<1>2. [n \in Messages |-> Knows(call[n])][m] = "none"
  BY KnowsAt DEF SendStep
<1>3. UNCHANGED delivered
  BY DEF SendStep
<1>4. QED
  BY <1>1, <1>2, <1>3 DEF Promise!Accept, Knows

\* A message that is on a stream has not been delivered and its call has not
\* been answered Ok or refused.
LEMMA MapDeliver ==
  ASSUME Inv, NEW k \in Conns, ReadStep(k)
  PROVE  \E m \in Messages : Promise!Deliver(m)
<1>1. TypeOK /\ QueueInv /\ OrderOf(k) /\ ReadOf(k)
  BY DEF Inv, OrderInv, StreamInv
<1>2. PICK n \in DOMAIN posted[k] :
        /\ Frame(k, inbound[k], n) /\ delivered' = Append(delivered, posted[k][n])
        /\ posted[k][n] \in Messages
  BY <1>1, ReadFrame
<1>3. n \in Nat /\ inbound[k] \in Nat
  BY <1>1, PostTypes, StreamsAt
<1>4. PICK m \in Messages : m = posted[k][n]
  BY <1>2
<1>5. call[m] \notin {"none", "ok", "not_found"}
        /\ call[m] \in {"none", "waiting"} \cup Answers
  BY <1>1, <1>2, <1>3, <1>4 DEF QueueInv, OrderOf, TypeOK
<1>6. ASSUME NEW p \in DOMAIN delivered, delivered[p] = m
      PROVE  FALSE
  <2>1. p \in Nat
    BY <1>1 DEF TypeOK
  <2>2. Got(k, p, n)
    BY <1>4, <1>6 DEF Got
  <2>3. n < n
    BY <1>1, <1>2, <1>3, <2>1, <2>2 DEF OrderOf
  <2>4. QED
    BY <1>3, <2>3
<1>7. [l \in Messages |-> Knows(call[l])][m] \in {"open", "failed"}
  BY <1>5, KnowsAt
<1>8. UNCHANGED call /\ delivered' = Append(delivered, m)
  BY <1>2, <1>4 DEF ReadStep, RemoteFrame
<1>9. Promise!Deliver(m)
  BY <1>6, <1>7, <1>8 DEF Promise!Deliver, Promise!Arrived, Knows
<1>10. QED
  BY <1>9

\* The verifier has come, so the task has been delivered.
LEMMA MapConfirm ==
  ASSUME Inv, NEW k \in Conns, OverStep(k, "Idle", "ok"),
         streams[k][Current(k)].ack # <<>>
  PROVE  \E m \in Messages : Promise!Confirm(m)
<1>1. TypeOK /\ HandlerOf(k) /\ HeldOf(k)
  BY DEF Inv, HandlerInv, StreamInv
<1>2. handler[k].outbound = "Busy" /\ UNCHANGED delivered
      /\ \A n \in Messages : call'[n] = IF n \in handler[k].task THEN "ok" ELSE call[n]
  BY DEF OverStep
<1>3. PICK m : m \in handler[k].task
  BY <1>1, <1>2 DEF TypeOK
<1>4. m \in Messages /\ call[m] = "waiting" /\ \A n \in handler[k].task : n = m
  BY <1>1, <1>3, PostTypes DEF HandlerOf
<1>5. \E p \in DOMAIN delivered : delivered[p] = m
  BY <1>1, <1>2, <1>3 DEF HeldOf, Delivered
<1>6. [n \in Messages |-> Knows(call'[n])]
        = [[n \in Messages |-> Knows(call[n])] EXCEPT ![m] = "ok"]
  BY <1>2, <1>3, <1>4, KnowsAt
<1>7. [n \in Messages |-> Knows(call[n])][m] = "open"
  BY <1>4, KnowsAt
<1>8. Promise!Confirm(m)
  BY <1>2, <1>5, <1>6, <1>7 DEF Promise!Confirm, Promise!Arrived, Knows
<1>9. QED
  BY <1>4, <1>8

\* What is still before the Behaviour has not been delivered.
LEMMA MapRefuse ==
  ASSUME Inv, RefuseStep("not_found")
  PROVE  \E m \in Messages : Promise!Refuse(m)
<1>1. TypeOK /\ QueueInv /\ OrderInv
  BY DEF Inv
<1>2. Head(inEvents) \in Messages /\ call[Head(inEvents)] = "waiting"
      /\ Fresh(Head(inEvents))
  BY <1>1, QueueHead DEF RefuseStep
<1>3. PICK m \in Messages : m = Head(inEvents)
  BY <1>2
<1>4. UNCHANGED delivered
      /\ \A n \in Messages : call'[n] = IF n = m THEN "not_found" ELSE call[n]
  BY <1>3 DEF RefuseStep
<1>5. \A p \in DOMAIN delivered : delivered[p] # m
  BY <1>1, <1>2, <1>3 DEF OrderInv, Got, Fresh
<1>6. [n \in Messages |-> Knows(call'[n])]
        = [[n \in Messages |-> Knows(call[n])] EXCEPT ![m] = "refused"]
  BY <1>4, KnowsAt
<1>7. [n \in Messages |-> Knows(call[n])][m] = "open"
  BY <1>2, <1>3, KnowsAt
<1>8. Promise!Refuse(m)
  BY <1>4, <1>5, <1>6, <1>7 DEF Promise!Refuse, Promise!Arrived, Knows
<1>9. QED
  BY <1>8

\* Calls fail together, or nobody is told anything.
LEMMA MapFail ==
  ASSUME NEW ms \in SUBSET Messages, NEW a \in {"timeout", "panicked"},
         call \in [Messages -> {"none", "waiting"} \cup Answers],
         call' \in [Messages -> {"none", "waiting"} \cup Answers],
         \A m \in Messages : call'[m] = IF m \in ms THEN a ELSE call[m],
         \A m \in ms : call[m] = "waiting", UNCHANGED delivered
  PROVE  (\E s \in SUBSET Messages : Promise!Fail(s)) \/ UNCHANGED <<call, delivered>>
<1>1. CASE ms = {}
  <2>1. call' = call
    BY <1>1
  <2>2. QED
    BY <2>1
<1>2. CASE ms # {}
  <2>1. [n \in Messages |-> Knows(call'[n])]
          = [n \in Messages |-> IF n \in ms THEN "failed"
                                ELSE [l \in Messages |-> Knows(call[l])][n]]
    BY KnowsAt
  <2>2. \A n \in ms : [l \in Messages |-> Knows(call[l])][n] = "open"
    BY KnowsAt
  <2>3. Promise!Fail(ms)
    BY <1>2, <2>1, <2>2 DEF Promise!Fail, Knows
  <2>4. QED
    BY <2>3
<1>3. QED
  BY <1>1, <1>2

LEMMA MapNext ==
  ASSUME Inv, [Next]_vars
  PROVE  [Promise!Next]_(Promise!vars)
<1>1. CASE UNCHANGED <<call, delivered>>
  BY <1>1 DEF Promise!vars
<1>2. ASSUME \E m \in Messages : \/ Promise!Accept(m) \/ Promise!Deliver(m)
                                 \/ Promise!Confirm(m) \/ Promise!Refuse(m)
      PROVE  [Promise!Next]_(Promise!vars)
  BY <1>2 DEF Promise!Next
<1>3. ASSUME NEW ms \in SUBSET Messages, NEW a \in {"timeout", "panicked"},
             call' \in [Messages -> {"none", "waiting"} \cup Answers],
             \A m \in Messages : call'[m] = IF m \in ms THEN a ELSE call[m],
             \A m \in ms : call[m] = "waiting", UNCHANGED delivered
      PROVE  [Promise!Next]_(Promise!vars)
  <2>1. call \in [Messages -> {"none", "waiting"} \cup Answers]
    BY DEF Inv, TypeOK
  <2>2. (\E s \in SUBSET Messages : Promise!Fail(s)) \/ UNCHANGED <<call, delivered>>
    BY <1>3, <2>1, MapFail
  <2>3. QED
    BY <1>1, <2>2 DEF Promise!Next
<1>4. CASE UNCHANGED vars
  BY <1>1, <1>4 DEF vars
<1>5. CASE Next
  <2>1. TypeOK /\ StreamInv /\ HandlerInv /\ QueueInv
    BY DEF Inv
  <2>2. \/ \E m \in Messages : SendStep(m)
        \/ RefuseStep("not_found") \/ RefuseStep("panicked")
        \/ \E k \in Conns : StepOf(k)
    BY <1>5, <2>1, Steps
  <2>3. CASE \E m \in Messages : SendStep(m)
    BY <1>2, <2>3, MapAccept
  <2>4. CASE RefuseStep("not_found")
    BY <1>2, <2>4, MapRefuse
  <2>5. CASE RefuseStep("panicked")
    <3>1. Head(inEvents) \in Messages /\ call[Head(inEvents)] = "waiting"
      BY <2>1, <2>5, QueueHead DEF RefuseStep
    <3>2. PICK m \in Messages : m = Head(inEvents)
      BY <3>1
    <3>3. {m} \in SUBSET Messages /\ \A n \in {m} : call[n] = "waiting"
      BY <3>1, <3>2
    <3>4. /\ call' \in [Messages -> {"none", "waiting"} \cup Answers]
          /\ \A n \in Messages : call'[n] = IF n \in {m} THEN "panicked" ELSE call[n]
          /\ UNCHANGED delivered
      BY <2>5, <3>2 DEF RefuseStep
    <3>5. QED
      BY <1>3, <3>3, <3>4
  <2>6. ASSUME NEW k \in Conns, StepOf(k)
        PROVE  [Promise!Next]_(Promise!vars)
    <3>1. HandlerOf(k) /\ \A m \in Owed(k) : m \in Messages /\ call[m] = "waiting"
      BY <2>1, OwedPosted DEF HandlerInv
    <3>2. CASE ReadStep(k)
      BY <1>2, <3>2, MapDeliver
    <3>3. ASSUME NEW o, NEW a \in {"timeout", "panicked"}, OverStep(k, o, a)
          PROVE  [Promise!Next]_(Promise!vars)
      <4>1. handler[k].task \in SUBSET Messages /\ \A m \in handler[k].task : call[m] = "waiting"
        BY <3>1 DEF Owed
      <4>2. /\ call' \in [Messages -> {"none", "waiting"} \cup Answers]
            /\ \A m \in Messages : call'[m] = IF m \in handler[k].task THEN a ELSE call[m]
            /\ UNCHANGED delivered
        BY <3>3 DEF OverStep
      <4>3. QED
        BY <1>3, <4>1, <4>2
    <3>4. CASE DoneStep(k)
      <4>1. CASE OverStep(k, "Idle", "ok")
        <5>1. streams[k][Current(k)].ack # <<>>
          BY <3>4 DEF DoneStep
        <5>2. QED
          BY <1>2, <4>1, <5>1, MapConfirm
      <4>2. CASE OverStep(k, "None", "panicked")
        BY <3>3, <4>2
      <4>3. QED
        BY <3>4, <4>1, <4>2 DEF DoneStep
    <3>5. CASE FailStep(k)
      BY <3>3, <3>5 DEF FailStep
    <3>6. CASE CloseStep(k)
      <4>1. Owed(k) \in SUBSET Messages /\ \A m \in Owed(k) : call[m] = "waiting"
        BY <3>1
      <4>2. /\ call' \in [Messages -> {"none", "waiting"} \cup Answers]
            /\ \A m \in Messages : call'[m] = IF m \in Owed(k) THEN "panicked" ELSE call[m]
            /\ UNCHANGED delivered
        BY <3>6 DEF CloseStep
      <4>3. QED
        BY <1>3, <4>1, <4>2
    <3>7. CASE ~(ReadStep(k) \/ DoneStep(k) \/ FailStep(k) \/ CloseStep(k))
      <4>1. UNCHANGED <<call, delivered>>
        BY <2>6, <3>7 DEF StepOf, PostStep, on_event, remoteVars, WaitStep, OpenStep,
               WriteStep, TakeStep, EndStep, RemoteFrame, Establish, LostStep
      <4>2. QED
        BY <1>1, <4>1
    <3>8. QED
      BY <3>2, <3>4, <3>5, <3>6, <3>7
  <2>7. QED
    BY <2>2, <2>3, <2>4, <2>5, <2>6
<1>6. QED
  BY <1>4, <1>5

\* send_message keeps the promises of Courier: at most one delivery, no Ok
\* without a delivery, no delivery of what was refused (handler.rs:194-243).
THEOREM PromiseKept == Spec => KeepsPromise
<1>1. Spec => []Inv
  BY Invariant
<1>2. Init => Promise!Init
  BY MapInit
<1>3. Inv /\ [Next]_vars => [Promise!Next]_(Promise!vars)
  BY MapNext
<1>4. QED
  BY <1>1, <1>2, <1>3, PTL DEF Spec, KeepsPromise, Promise!Spec
=============================================================================
