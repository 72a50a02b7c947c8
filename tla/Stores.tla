------------------------------- MODULE Stores -------------------------------
(***************************************************************************)
(* The in-memory stores that the handles share between tasks: gossipsub's  *)
(* topics and messages, with the handle that fills them                    *)
(* (owlnest/src/net/p2p/protocols/gossipsub.rs), and messaging's message   *)
(* history, which a listener of the handle fills (messaging.rs).           *)
(*                                                                         *)
(* Every operation on a DashMap locks its shard and is one step; an        *)
(* operation of the stores is several such steps, and other tasks run in   *)
(* between.  No operation looks at two topics or at two peers but for the  *)
(* ones that clear everything, so the module follows one topic and the     *)
(* history of one peer.  An Option is a set with at most one element: {}   *)
(* is None, {x} is Some(x).                                                *)
(***************************************************************************)
EXTENDS Naturals, Sequences, FiniteSets

CONSTANTS
  Tasks,
  Peers,        \* remote peers that join and leave the topic
  Messages,     \* messages to publish
  MaxCalls      \* bound: calls on the handle and its stores

ASSUME MaxCallsAssumption == MaxCalls \in Nat

VARIABLES
  \* MemTopicStore: the participants of the topic, when it is an entry
  vacant,       \* of the map of topics known by hash only
  populated,    \* of the map of topics whose string is known
  subscribed,   \* whether the topic is in the set of subscribed topics
  messages,     \* gossipsub's MemMessageStore: the entry of the topic
  history,      \* messaging's MemMessageStore: the entry of the peer
  live,         \* whether the libp2p behaviour is subscribed
  task,         \* task[t]: what t has still to do of its call
  calls,        \* calls so far
  \* history, for the properties
  known,        \* whether the topic has been inserted
  members,      \* peers that have joined and not left
  expected,     \* messages inserted since the topic was cleared
  pushed,       \* messages pushed since the history was cleared
  crossed,      \* tasks during whose last call the topic was in neither map
  raced         \* the overlaps of calls that have happened

storeVars   == <<vacant, populated, subscribed>>
historyVars == <<history, pushed>>
pastVars    == <<known, members, expected>>
vars == <<storeVars, messages, live, task, calls, pastVars, crossed, raced,
          historyVars>>

-----------------------------------------------------------------------------
None == {}

(* The calls, and what each still does once the swarm, where it asks the    *)
(* swarm, has answered that something changed.  subscribe_topic tells the   *)
(* store twice: subscribe_topic_hash has told it already.                   *)
Ops == {"subscribe_topic", "subscribe_topic_hash", "unsubscribe_topic_hash",
        "publish_message", "join_topic", "leave_topic", "participants",
        "clear_message",
        "push_message", "insert_empty_record", "clear_history", "empty_store"}
AsksSwarm == {"subscribe_topic", "subscribe_topic_hash",
              "unsubscribe_topic_hash", "publish_message"}
Program(op) ==
  CASE op = "subscribe_topic"        -> <<"insert_hash", "subscribe",
                                          "insert_topic", "subscribe">>
    [] op = "subscribe_topic_hash"   -> <<"insert_hash", "subscribe">>
    [] op = "unsubscribe_topic_hash" -> <<"unsubscribe">>
    [] op = "publish_message"        -> <<"insert_message">>
    [] op = "join_topic"             -> <<"insert_hash", "join">>
    [] op = "leave_topic"            -> <<"leave">>
    [] op = "participants"           -> <<"get">>
    [] op = "clear_message"          -> <<"clear">>
    [] op = "push_message"           -> <<"push">>
    [] op = "insert_empty_record"    -> <<"record">>
    [] op = "clear_history"          -> <<"clear_history">>
    [] op = "empty_store"            -> <<"empty">>

(* Where a task may be inside a part of its program, by part.               *)
PartOf == [insert_hash |-> "insert_hash", hash_populated |-> "insert_hash",
           hash_insert |-> "insert_hash",
           insert_topic |-> "insert_topic", topic_promote |-> "insert_topic",
           topic_populated |-> "insert_topic", topic_insert |-> "insert_topic",
           subscribe |-> "subscribe", subscribe_insert |-> "subscribe",
           unsubscribe |-> "unsubscribe",
           join |-> "join", join_populated |-> "join",
           leave |-> "leave", leave_populated |-> "leave",
           get |-> "participants", get_vacant |-> "participants",
           insert_message |-> "insert_message", insert_first |-> "insert_first",
           clear |-> "clear",
           push |-> "push", push_first |-> "push", push_append |-> "push",
           record |-> "record", record_insert |-> "record",
           clear_history |-> "clear_history", empty |-> "empty",
           command |-> "command", unreachable |-> "unreachable"]
Labels == DOMAIN PartOf

(* A task: its call and the argument, the rest of its program, the list it  *)
(* took out of vacant, and, for participants, whether populated had the     *)
(* topic, whether it was known at the call, and whether participants last   *)
(* answered None although it was.                                           *)
Task == [op : Ops, arg : Peers \cup Messages \cup {None},
         todo : UNION {[1 .. n -> Labels] : n \in 0 .. 4},
         held : {None} \cup {{l} : l \in SUBSET Peers},
         found : BOOLEAN, knew : BOOLEAN, missed : BOOLEAN]
Idle == [op |-> "participants", arg |-> None, todo |-> <<>>, held |-> None,
         found |-> FALSE, knew |-> FALSE, missed |-> FALSE]

Busy == {t \in Tasks : task[t].todo # <<>>}

(* The overlaps the stores do not tolerate, each a pair of calls or of      *)
(* parts of them, or one part that two tasks were in.                       *)
FirstInserts   == {{"insert_hash"}, {"insert_topic"}}
Demotes        == {"insert_hash", "insert_topic"}
WhileLeaving   == {"leave", "insert_topic"}
Unordered      == {{"unsubscribe_topic_hash", op} :
                   op \in {"subscribe_topic", "subscribe_topic_hash"}}
FirstMessages  == {"insert_first"}
WhilePushing   == {{"push", "record"}, {"push", "empty"}}
Overlaps == FirstInserts \cup Unordered \cup WhilePushing
            \cup {Demotes, WhileLeaving, FirstMessages}

(* What a task is in the middle of, and the overlaps this makes.            *)
In(t)  == {task[t].op, PartOf[Head(task[t].todo)]}
Racing == Overlaps \cap
          UNION {UNION {{{a, b} : a \in In(t), b \in In(u)} :
                        u \in Busy \ {t}} : t \in Busy}

(* A known topic that insert_topic is moving is in neither map; the calls   *)
(* under way then are remembered until the task of each calls again.        *)
Moving     == \E t \in Tasks : task[t].held # None
Crosses(t) == (IF t \in Busy THEN crossed ELSE crossed \ {t})
              \cup (IF Moving' THEN Busy' ELSE {})

At(t, l)      == t \in Busy /\ Head(task[t].todo) = l
Becomes(t, r) == /\ task' = [task EXCEPT ![t] = r]
                 /\ crossed' = Crosses(t)
                 /\ raced' = raced \cup Racing'
Goto(t, l)    == Becomes(t, [task[t] EXCEPT !.todo[1] = l])
Done(t)       == Becomes(t, IF Tail(task[t].todo) = <<>> THEN Idle
                            ELSE [task[t] EXCEPT !.todo = Tail(@)])

-----------------------------------------------------------------------------
(* A task calls.                                                            *)
Call(t, op, arg) ==
  /\ t \notin Busy /\ calls < MaxCalls
  /\ calls' = calls + 1
  /\ Becomes(t, [Idle EXCEPT !.op = op, !.arg = arg, !.knew = known,
                    !.todo = IF op \in AsksSwarm THEN <<"command">>
                             ELSE Program(op)])
  /\ UNCHANGED <<storeVars, messages, live, pastVars, historyVars>>

(* map_in_event: the swarm executes a command and answers.  On the answer   *)
(* that it changed something the task goes on to the stores.                *)
Answered(t, changed) ==
  IF changed THEN Becomes(t, [task[t] EXCEPT !.todo = Program(task[t].op)])
  ELSE Done(t)

\* Mutant of SubscribeTopic: the store is told whatever the answer is.
SubscribeTopic_any(t) ==
  /\ At(t, "command")
  /\ task[t].op \in {"subscribe_topic", "subscribe_topic_hash"}
  /\ \E ok \in BOOLEAN : live' = (live \/ ok)
  /\ Answered(t, TRUE)
  /\ UNCHANGED <<storeVars, messages, calls, pastVars, historyVars>>
SubscribeTopic(t) ==
  /\ At(t, "command")
  /\ task[t].op \in {"subscribe_topic", "subscribe_topic_hash"}
  /\ \E ok \in BOOLEAN :        \* Ok(true), or one of the errors
       /\ live' = (live \/ ok)
       /\ Answered(t, ~live /\ ok)
  /\ UNCHANGED <<storeVars, messages, calls, pastVars, historyVars>>

UnsubscribeTopic(t) ==
  /\ At(t, "command") /\ task[t].op = "unsubscribe_topic_hash"
  /\ live' = FALSE
  /\ Answered(t, live)
  /\ UNCHANGED <<storeVars, messages, calls, pastVars, historyVars>>

PublishMessage(t) ==
  /\ At(t, "command") /\ task[t].op = "publish_message"
  /\ \E ok \in BOOLEAN : Answered(t, ok)
  /\ UNCHANGED <<storeVars, messages, live, calls, pastVars, historyVars>>

-----------------------------------------------------------------------------
(* MemTopicStore *)

(* insert_hash: vacant.get, populated.get, vacant.insert.                   *)
\* Mutant of HashVacant: populated is not looked at.
HashVacant_only(t) ==
  /\ At(t, "insert_hash")
  /\ IF vacant # None THEN Done(t) ELSE Goto(t, "hash_insert")
  /\ UNCHANGED <<storeVars, messages, live, calls, pastVars, historyVars>>
HashVacant(t) ==
  /\ At(t, "insert_hash")
  /\ IF vacant # None THEN Done(t) ELSE Goto(t, "hash_populated")
  /\ UNCHANGED <<storeVars, messages, live, calls, pastVars, historyVars>>
HashPopulated(t) ==
  /\ At(t, "hash_populated")
  /\ IF populated # None THEN Done(t) ELSE Goto(t, "hash_insert")
  /\ UNCHANGED <<storeVars, messages, live, calls, pastVars, historyVars>>
HashInsert(t) ==
  /\ At(t, "hash_insert")
  /\ vacant' = {{}}
  /\ known' = TRUE
  /\ Done(t)
  /\ UNCHANGED <<populated, subscribed, messages, live, calls, members, expected,
                 historyVars>>

(* insert_topic: vacant.remove and then populated.insert; or, when vacant   *)
(* had nothing, populated.get_mut and populated.insert.                     *)
TopicRemove(t) ==
  /\ At(t, "insert_topic")
  /\ IF vacant # None
     THEN Becomes(t, [task[t] EXCEPT !.held = vacant,
                                     !.todo[1] = "topic_promote"])
     ELSE Goto(t, "topic_populated")
  /\ vacant' = None
  /\ UNCHANGED <<populated, subscribed, messages, live, calls, pastVars,
                 historyVars>>
\* Mutant of TopicPromote: the list is not taken over.
TopicPromote_fresh(t) ==
  /\ At(t, "topic_promote")
  /\ populated' = {{}}
  /\ Becomes(t, [task[t] EXCEPT !.held = None, !.todo = Tail(@)])
  /\ UNCHANGED <<vacant, subscribed, messages, live, calls, pastVars,
                 historyVars>>
TopicPromote(t) ==
  /\ At(t, "topic_promote")
  /\ populated' = task[t].held
  /\ Becomes(t, [task[t] EXCEPT !.held = None, !.todo = Tail(@)])
  /\ UNCHANGED <<vacant, subscribed, messages, live, calls, pastVars,
                 historyVars>>
TopicPopulated(t) ==
  /\ At(t, "topic_populated")
  /\ IF populated # None THEN Done(t) ELSE Goto(t, "topic_insert")
  /\ UNCHANGED <<storeVars, messages, live, calls, pastVars, historyVars>>
TopicInsert(t) ==
  /\ At(t, "topic_insert")
  /\ populated' = {{}}
  /\ known' = TRUE
  /\ Done(t)
  /\ UNCHANGED <<vacant, subscribed, messages, live, calls, members, expected,
                 historyVars>>

(* The end of subscribe_topic: subscribed.contains, subscribed.insert.      *)
SubscribedContains(t) ==
  /\ At(t, "subscribe")
  /\ IF subscribed THEN Done(t) ELSE Goto(t, "subscribe_insert")
  /\ UNCHANGED <<storeVars, messages, live, calls, pastVars, historyVars>>
SubscribedInsert(t) ==
  /\ At(t, "subscribe_insert")
  /\ subscribed' = TRUE
  /\ Done(t)
  /\ UNCHANGED <<vacant, populated, messages, live, calls, pastVars,
                 historyVars>>

\* Mutant of Unsubscribe: the topic is forgotten with the subscription.
Unsubscribe_forgets(t) ==
  /\ At(t, "unsubscribe")
  /\ subscribed' = FALSE /\ vacant' = None
  /\ Done(t)
  /\ UNCHANGED <<populated, messages, live, calls, pastVars, historyVars>>
Unsubscribe(t) ==
  /\ At(t, "unsubscribe")
  /\ subscribed' = FALSE
  /\ Done(t)
  /\ UNCHANGED <<vacant, populated, messages, live, calls, pastVars,
                 historyVars>>

(* join_topic after its insert_hash: vacant.get_mut, populated.get_mut; a   *)
(* topic in neither is unreachable!().                                      *)
JoinVacant(t) ==
  /\ At(t, "join")
  /\ IF vacant # None
     THEN /\ vacant' = {l \cup {task[t].arg} : l \in vacant}
          /\ members' = members \cup {task[t].arg}
          /\ Done(t)
     ELSE Goto(t, "join_populated") /\ UNCHANGED <<vacant, members>>
  /\ UNCHANGED <<populated, subscribed, messages, live, calls, known, expected,
                 historyVars>>
JoinPopulated(t) ==
  /\ At(t, "join_populated")
  /\ populated' = {l \cup {task[t].arg} : l \in populated}
  /\ IF populated # None
     THEN members' = members \cup {task[t].arg} /\ Done(t)
     ELSE Goto(t, "unreachable") /\ UNCHANGED members
  /\ UNCHANGED <<vacant, subscribed, messages, live, calls, known, expected,
                 historyVars>>

(* leave_topic: vacant.get_mut, populated.get_mut.                          *)
LeaveVacant(t) ==
  /\ At(t, "leave")
  /\ IF vacant # None
     THEN /\ vacant' = {l \ {task[t].arg} : l \in vacant}
          /\ members' = members \ {task[t].arg}
          /\ Done(t)
     ELSE Goto(t, "leave_populated") /\ UNCHANGED <<vacant, members>>
  /\ UNCHANGED <<populated, subscribed, messages, live, calls, known, expected,
                 historyVars>>
LeavePopulated(t) ==
  /\ At(t, "leave_populated")
  /\ populated' = {l \ {task[t].arg} : l \in populated}
  /\ members' = IF task[t].knew \/ populated # None
                THEN members \ {task[t].arg} ELSE members
  /\ Done(t)
  /\ UNCHANGED <<vacant, subscribed, messages, live, calls, known, expected,
                 historyVars>>

(* participants: populated.get, and vacant.get in any case.                 *)
ParticipantsPopulated(t) ==
  /\ At(t, "get")
  /\ Becomes(t, [task[t] EXCEPT !.found = populated # None,
                                !.todo = <<"get_vacant">>])
  /\ UNCHANGED <<storeVars, messages, live, calls, pastVars, historyVars>>
\* Mutant of ParticipantsVacant: topics known by their hash are not found.
ParticipantsVacant_skipped(t) ==
  /\ At(t, "get_vacant")
  /\ Becomes(t, [Idle EXCEPT !.missed = task[t].knew /\ ~task[t].found])
  /\ UNCHANGED <<storeVars, messages, live, calls, pastVars, historyVars>>
ParticipantsVacant(t) ==
  /\ At(t, "get_vacant")
  /\ Becomes(t, [Idle EXCEPT !.missed =
                       task[t].knew /\ ~task[t].found /\ vacant = None])
  /\ UNCHANGED <<storeVars, messages, live, calls, pastVars, historyVars>>

-----------------------------------------------------------------------------
(* MemMessageStore *)

(* insert_message: inner.get_mut and push, or inner.insert of a new list.   *)
InsertMessage(t) ==
  /\ At(t, "insert_message")
  /\ IF messages # None
     THEN /\ messages' = {Append(l, task[t].arg) : l \in messages}
          /\ expected' = Append(expected, task[t].arg)
          /\ Done(t)
     ELSE Goto(t, "insert_first") /\ UNCHANGED <<messages, expected>>
  /\ UNCHANGED <<storeVars, live, calls, known, members, historyVars>>
InsertFirst(t) ==
  /\ At(t, "insert_first")
  /\ messages' = {<<task[t].arg>>}
  /\ expected' = Append(expected, task[t].arg)
  /\ Done(t)
  /\ UNCHANGED <<storeVars, live, calls, known, members, historyVars>>

\* Mutants of ClearMessage: the list is kept, empty or with its first message.
ClearMessage_emptied(t) ==
  /\ At(t, "clear")
  /\ messages' = {<<>> : l \in messages}
  /\ expected' = <<>>
  /\ Done(t)
  /\ UNCHANGED <<storeVars, live, calls, known, members, historyVars>>
ClearMessage_first(t) ==
  /\ At(t, "clear")
  /\ messages' = {SubSeq(l, 1, 1) : l \in messages}
  /\ expected' = <<>>
  /\ Done(t)
  /\ UNCHANGED <<storeVars, live, calls, known, members, historyVars>>
ClearMessage(t) ==
  /\ At(t, "clear")
  /\ messages' = None
  /\ expected' = <<>>
  /\ Done(t)
  /\ UNCHANGED <<storeVars, live, calls, known, members, historyVars>>

-----------------------------------------------------------------------------
(* messaging's MemMessageStore *)

(* The task that listens for messages pushes them one after another.        *)
Listener(t, m) ==
  /\ \A u \in Busy : task[u].op # "push_message"
  /\ Call(t, "push_message", m)

(* push_message: store.get, and store.insert or store.get_mut.              *)
PushGet(t) ==
  /\ At(t, "push")
  /\ Goto(t, IF history = None THEN "push_first" ELSE "push_append")
  /\ UNCHANGED <<storeVars, messages, live, calls, pastVars, historyVars>>
PushFirst(t) ==
  /\ At(t, "push_first")
  /\ history' = {<<task[t].arg>>}
  /\ pushed' = Append(pushed, task[t].arg)
  /\ Done(t)
  /\ UNCHANGED <<storeVars, messages, live, calls, pastVars>>
PushAppend(t) ==
  /\ At(t, "push_append")
  /\ history' = {Append(l, task[t].arg) : l \in history}
  /\ pushed' = Append(pushed, task[t].arg)
  /\ Done(t)
  /\ UNCHANGED <<storeVars, messages, live, calls, pastVars>>

(* insert_empty_record: store.get, store.insert.                            *)
RecordGet(t) ==
  /\ At(t, "record")
  /\ IF history # None THEN Done(t) ELSE Goto(t, "record_insert")
  /\ UNCHANGED <<storeVars, messages, live, calls, pastVars, historyVars>>
RecordInsert(t) ==
  /\ At(t, "record_insert")
  /\ history' = {<<>>}
  /\ Done(t)
  /\ UNCHANGED <<storeVars, messages, live, calls, pastVars, pushed>>

(* clear_message keeps the record of the peer, empty_store does not.        *)
ClearHistory(t) ==
  /\ At(t, "clear_history")
  /\ history' = {<<>> : l \in history}
  /\ pushed' = <<>>
  /\ Done(t)
  /\ UNCHANGED <<storeVars, messages, live, calls, pastVars>>
EmptyStore(t) ==
  /\ At(t, "empty")
  /\ history' = None
  /\ pushed' = <<>>
  /\ Done(t)
  /\ UNCHANGED <<storeVars, messages, live, calls, pastVars>>

-----------------------------------------------------------------------------
Init ==
  /\ vacant = None /\ populated = None /\ subscribed = FALSE
  /\ messages = None
  /\ history = None /\ pushed = <<>>
  /\ live = FALSE
  /\ task = [t \in Tasks |-> Idle]
  /\ calls = 0
  /\ known = FALSE /\ members = {} /\ expected = <<>>
  /\ crossed = {} /\ raced = {}

Calls(t) ==
  \/ \E op \in {"subscribe_topic", "subscribe_topic_hash",
                "unsubscribe_topic_hash", "participants", "clear_message",
                "insert_empty_record", "clear_history", "empty_store"} :
       Call(t, op, None)
  \/ \E op \in {"join_topic", "leave_topic"}, p \in Peers : Call(t, op, p)
  \/ \E m \in Messages :
       Call(t, "publish_message", m) \/ Listener(t, m)

Swarm(t) == SubscribeTopic(t) \/ UnsubscribeTopic(t) \/ PublishMessage(t)

TopicStore(t) ==
  \/ HashVacant(t) \/ HashPopulated(t) \/ HashInsert(t)
  \/ TopicRemove(t) \/ TopicPromote(t) \/ TopicPopulated(t) \/ TopicInsert(t)
  \/ SubscribedContains(t) \/ SubscribedInsert(t) \/ Unsubscribe(t)
  \/ JoinVacant(t) \/ JoinPopulated(t) \/ LeaveVacant(t) \/ LeavePopulated(t)
  \/ ParticipantsPopulated(t) \/ ParticipantsVacant(t)

MessageStore(t) == InsertMessage(t) \/ InsertFirst(t) \/ ClearMessage(t)

History(t) ==
  \/ PushGet(t) \/ PushFirst(t) \/ PushAppend(t)
  \/ RecordGet(t) \/ RecordInsert(t) \/ ClearHistory(t) \/ EmptyStore(t)

Next ==
  \E t \in Tasks :
    Calls(t) \/ Swarm(t) \/ TopicStore(t) \/ MessageStore(t) \/ History(t)

Spec == Init /\ [][Next]_vars

-----------------------------------------------------------------------------
(* Properties.  The stores are not linearizable: each property names the    *)
(* overlaps of calls under which it may fail, and holds under all others.   *)

(* No call is under way; a task that panicked does not go on.               *)
Quiescent == \A t \in Busy : At(t, "unreachable")

(* What the stores should have: the peers that joined and have not left,    *)
(* where participants looks; the messages inserted and pushed, in order.    *)
AllListed == (IF populated # None THEN populated ELSE vacant) =
             (IF known THEN {members} ELSE None)
AllStored == messages = IF expected = <<>> THEN None ELSE {expected}
AllPushed == history = {pushed} \/ (history = None /\ pushed = <<>>)

(* A task holds a list exactly while it promotes the topic, and a topic     *)
(* that has an entry in the message store has a message.                    *)
TypeOK ==
  /\ vacant \in {None} \cup {{l} : l \in SUBSET Peers}
  /\ populated \in {None} \cup {{l} : l \in SUBSET Peers}
  /\ subscribed \in BOOLEAN /\ live \in BOOLEAN /\ known \in BOOLEAN
  /\ members \subseteq Peers
  /\ expected \in Seq(Messages) /\ pushed \in Seq(Messages)
  /\ \A store \in {messages, history} :
       store = None \/ \E l \in store : store = {l} /\ l \in Seq(Messages)
  /\ messages # {<<>>}
  /\ task \in [Tasks -> Task]
  /\ \A t \in Tasks : task[t].held # None <=> At(t, "topic_promote")
  /\ calls \in 0 .. MaxCalls /\ crossed \subseteq Tasks

(* A topic that has been inserted is never lost, under any interleaving: it *)
(* is in one of the maps, or a task is moving it from one to the other      *)
(* (gossipsub.rs:733-735).                                                  *)
KnownNeverLost ==
  known => vacant # None \/ populated # None
           \/ \E t \in Tasks : task[t].held # None

(* hash_topics lists topics "that only has known hash" (gossipsub.rs:644):  *)
(* a topic is not in both maps, unless an insert_hash ran during an         *)
(* insert_topic.                                                            *)
OneMap == Demotes \notin raced => vacant = None \/ populated = None

(* A known topic is found: participants does not answer None for it, and    *)
(* join_topic does not reach its unreachable!() (gossipsub.rs:787), unless  *)
(* insert_topic had the topic in neither map at some moment of that call.   *)
KnownIsFound ==
  \A t \in Tasks : task[t].missed \/ At(t, "unreachable") => t \in crossed

(* join_topic finds the topic that it has inserted itself: unreachable!()   *)
(* is not reached (gossipsub.rs:787).  Violated: insert_topic takes the     *)
(* topic out of vacant between the insert_hash and the get_mut.             *)
JoinReturns == \A t \in Tasks : ~At(t, "unreachable")

(* What participants answers between calls are the peers that joined and    *)
(* have not left, through promotions too, unless two insertions of the      *)
(* topic overlapped or a leave overlapped a promotion                       *)
(* (gossipsub.rs:732-797).                                                  *)
ParticipantsExact ==
  Quiescent /\ raced \cap (FirstInserts \cup {Demotes, WhileLeaving}) = {}
  => AllListed

(* Between calls the store says subscribed exactly when the swarm is,       *)
(* although it is told after the swarm has answered, unless an unsubscribe  *)
(* overlapped a subscribe (gossipsub.rs:148, 170).                          *)
SubscriptionsAgree ==
  Quiescent /\ raced \cap Unordered = {} => subscribed = live

(* Both message stores have every message inserted since they were cleared, *)
(* once and in the order of the insertions, whatever is published, received *)
(* or cleared at once, unless two inserts for a topic both found no list    *)
(* (gossipsub.rs:832-839), or a record was inserted or the history emptied  *)
(* during a push (messaging.rs:175-193).                                    *)
MessagesComplete ==
  /\ FirstMessages \notin raced => AllStored
  /\ raced \cap WhilePushing = {} => AllPushed
=============================================================================
