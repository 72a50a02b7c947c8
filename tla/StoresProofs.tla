---------------------------- MODULE StoresProofs ----------------------------
(***************************************************************************)
(* Proofs about Stores: every invariant that the run checks, for any       *)
(* number of tasks, peers, messages and calls.                             *)
(*                                                                         *)
(* A property of the stores holds while certain overlaps of calls have not *)
(* happened, and raced remembers the overlaps: every step adds those of    *)
(* its own outcome (Overlapped).  So each part of the invariant says where *)
(* a task may be in its call, and what it relies on there, and a step of   *)
(* another task that would break this is an overlap that raced has.        *)
(***************************************************************************)
EXTENDS Stores, TLAPS

-----------------------------------------------------------------------------
(* Where a task is.                                                         *)

(* The next step of the task, if any.                                       *)
Loc(r) == IF r.todo = <<>> THEN "idle" ELSE Head(r.todo)

HashLocs  == {"insert_hash", "hash_populated", "hash_insert"}
TopicLocs == {"insert_topic", "topic_promote", "topic_populated", "topic_insert"}
SubLocs   == {"subscribe", "subscribe_insert"}
JoinLocs  == {"join", "join_populated", "unreachable"}
SubOps    == {"subscribe_topic", "subscribe_topic_hash"}

(* The last part of a call, and a call that has one part only.              *)
LastOf ==
  [subscribe_topic        |-> {"command"} \cup SubLocs,
   subscribe_topic_hash   |-> {"command"} \cup SubLocs,
   unsubscribe_topic_hash |-> {"command", "unsubscribe"},
   publish_message        |-> {"command", "insert_message", "insert_first"},
   join_topic             |-> JoinLocs,
   leave_topic            |-> {"leave", "leave_populated"},
   participants           |-> {"get", "get_vacant"},
   clear_message          |-> {"clear"},
   push_message           |-> {"push", "push_first", "push_append"},
   insert_empty_record    |-> {"record", "record_insert"},
   clear_history          |-> {"clear_history"},
   empty_store            |-> {"empty"}]

(* What a task may have still to do of its call.                            *)
Placed(r) ==
  \/ r.todo = <<>> /\ r.op = "participants"
  \/ \E l \in LastOf[r.op] : r.todo = <<l>>
  \/ r.op = "join_topic" /\ \E l \in HashLocs : r.todo = <<l, "join">>
  \/ r.op = "subscribe_topic_hash" /\ \E l \in HashLocs : r.todo = <<l, "subscribe">>
  \/ /\ r.op = "subscribe_topic"
     /\ \/ \E l \in HashLocs :
             r.todo = <<l, "subscribe", "insert_topic", "subscribe">>
        \/ \E l \in SubLocs : r.todo = <<l, "insert_topic", "subscribe">>
        \/ \E l \in TopicLocs : r.todo = <<l, "subscribe">>

ArgOK(r) ==
  /\ r.op \in {"join_topic", "leave_topic"} => r.arg \in Peers
  /\ r.op \in {"publish_message", "push_message"} => r.arg \in Messages

(* Two tasks in the middle of calls that do not tolerate each other: raced  *)
(* has the overlap.                                                         *)
Clashes(r, s) ==
  /\ Loc(r) \in HashLocs /\ Loc(s) \in HashLocs => {"insert_hash"} \in raced
  /\ Loc(r) \in TopicLocs /\ Loc(s) \in TopicLocs => {"insert_topic"} \in raced
  /\ Loc(r) \in HashLocs /\ Loc(s) \in TopicLocs => Demotes \in raced
  /\ Loc(r) \in {"leave", "leave_populated"} /\ Loc(s) \in TopicLocs
     => WhileLeaving \in raced
  /\ /\ r.op = "unsubscribe_topic_hash" /\ s.op \in SubOps
     /\ Loc(r) # "idle" /\ Loc(s) # "idle"
     => raced \cap Unordered # {}
  /\ Loc(r) = "insert_first" /\ Loc(s) = "insert_first" => FirstMessages \in raced
  /\ /\ Loc(r) \in {"push", "push_first", "push_append"}
     /\ Loc(s) \in {"record", "record_insert", "empty"}
     => raced \cap WhilePushing # {}

(* Every task is somewhere in its call, with an argument of the right kind; *)
(* one task at a time pushes received messages; and raced has the overlaps  *)
(* of the moment.                                                           *)
PlaceInv ==
  /\ \A t \in Tasks : Placed(task[t]) /\ ArgOK(task[t])
  /\ \A t, u \in Tasks :
       task[t].op = "push_message" /\ task[u].op = "push_message" => t = u
  /\ \A t, u \in Tasks : t # u => Clashes(task[t], task[u])

-----------------------------------------------------------------------------
(* The inductive invariant.                                                 *)

(* The topic is known exactly while some list of participants exists.       *)
KnownInv ==
  known <=> vacant # None \/ populated # None
            \/ \E t \in Tasks : task[t].held # None

(* A task that is about to insert the topic into one of the maps knows that *)
(* the other one has it not.                                                *)
MapInv ==
  Demotes \notin raced =>
    /\ vacant = None \/ populated = None
    /\ \A t \in Tasks :
         /\ Loc(task[t]) = "hash_insert" => populated = None
         /\ Loc(task[t]) \in {"topic_promote", "topic_populated", "topic_insert"}
            => vacant = None

(* A task that looks for a known topic in one map after the other has still *)
(* to look into the one that has it, unless another task took the topic out *)
(* of its map during the call, which crossed remembers.                     *)
FoundAt(t) ==
  LET r == task[t] IN
  t \notin crossed =>
    /\ ~r.missed
    /\ Loc(r) = "get" /\ r.knew => vacant # None \/ populated # None
    /\ Loc(r) = "get_vacant" /\ r.knew /\ ~r.found => vacant # None
    /\ Loc(r) = "join" => vacant # None \/ populated # None
    /\ Loc(r) = "join_populated" => populated # None
    /\ Loc(r) # "unreachable"
FoundInv == \A t \in Tasks : FoundAt(t)

(* The one list of participants, wherever it is, has the members; a task    *)
(* about to insert an empty list does so for a topic that is not known.     *)
Inserting == FirstInserts \cup {Demotes, WhileLeaving}
ExactAt(r) ==
  /\ r.held \subseteq {members}
  /\ Loc(r) = "hash_populated" => vacant = None
  /\ Loc(r) \in {"hash_insert", "topic_insert"} => ~known
  /\ Loc(r) = "topic_promote" => populated = None
  /\ Loc(r) = "leave" /\ r.knew => vacant # None \/ populated # None
  /\ Loc(r) = "leave_populated" /\ r.knew => populated # None
ExactInv ==
  raced \cap Inserting = {} =>
    /\ ~known => members = {}
    /\ vacant \subseteq {members} /\ populated \subseteq {members}
    /\ \A t \in Tasks : ExactAt(task[t])

(* A task that has still to tell the store of a subscription: the swarm is  *)
(* as the task will say, and only such a task lets the two differ.          *)
Subscribes(r)   == r.op \in SubOps /\ Loc(r) # "command"
Unsubscribes(r) == Loc(r) = "unsubscribe"
SubscribeInv ==
  raced \cap Unordered = {} =>
    /\ \A t \in Tasks :
         /\ Subscribes(task[t]) => live
         /\ Unsubscribes(task[t]) => ~live
    /\ subscribed # live =>
         \E t \in Tasks : Subscribes(task[t]) \/ Unsubscribes(task[t])

(* A task about to insert the first message of a list finds no list.        *)
MessagesInv ==
  FirstMessages \notin raced =>
    /\ messages = IF expected = <<>> THEN None ELSE {expected}
    /\ \A t \in Tasks : Loc(task[t]) = "insert_first" => messages = None
HistoryInv ==
  raced \cap WhilePushing = {} =>
    /\ history = {pushed} \/ (history = None /\ pushed = <<>>)
    /\ \A t \in Tasks :
         /\ Loc(task[t]) = "push_first" => history = None
         /\ Loc(task[t]) = "push_append" => history # None
         /\ Loc(task[t]) = "record_insert" => pushed = <<>>

Inv ==
  /\ TypeOK /\ PlaceInv /\ KnownInv /\ MapInv /\ FoundInv /\ ExactInv
  /\ SubscribeInv /\ MessagesInv /\ HistoryInv

-----------------------------------------------------------------------------
(* Lemmas about places.                                                     *)

LEMMA Tuples ==
  ASSUME NEW a, NEW b, NEW c, NEW d
  PROVE  /\ <<a>> # <<>> /\ Head(<<a>>) = a /\ Tail(<<a>>) = <<>>
         /\ <<a, b>> # <<>> /\ Head(<<a, b>>) = a /\ Tail(<<a, b>>) = <<b>>
         /\ <<a, b, c>> # <<>> /\ Head(<<a, b, c>>) = a
         /\ Tail(<<a, b, c>>) = <<b, c>>
         /\ <<a, b, c, d>> # <<>> /\ Head(<<a, b, c, d>>) = a
         /\ Tail(<<a, b, c, d>>) = <<b, c, d>>
OBVIOUS

LEMMA Replaced ==
  ASSUME NEW a, NEW b, NEW c, NEW d, NEW k
  PROVE  /\ [<<a>> EXCEPT ![1] = k] = <<k>>
         /\ [<<a, b>> EXCEPT ![1] = k] = <<k, b>>
         /\ [<<a, b, c>> EXCEPT ![1] = k] = <<k, b, c>>
         /\ [<<a, b, c, d>> EXCEPT ![1] = k] = <<k, b, c, d>>
OBVIOUS

LEMMA Parts ==
  /\ \A l \in HashLocs : l \in Labels /\ PartOf[l] = "insert_hash"
  /\ \A l \in TopicLocs : l \in Labels /\ PartOf[l] = "insert_topic"
  /\ \A l \in SubLocs : l \in Labels /\ PartOf[l] = "subscribe"
  /\ PartOf["join"] = "join" /\ PartOf["join_populated"] = "join"
  /\ PartOf["leave"] = "leave" /\ PartOf["leave_populated"] = "leave"
  /\ PartOf["get"] = "participants" /\ PartOf["get_vacant"] = "participants"
  /\ PartOf["insert_first"] = "insert_first"
  /\ PartOf["push"] = "push" /\ PartOf["push_first"] = "push"
  /\ PartOf["push_append"] = "push"
  /\ PartOf["record"] = "record" /\ PartOf["record_insert"] = "record"
  /\ PartOf["empty"] = "empty"
BY DEF PartOf, Labels, HashLocs, TopicLocs, SubLocs

LEMMA LabelsAre ==
  Labels = HashLocs \cup TopicLocs \cup SubLocs \cup JoinLocs
           \cup {"unsubscribe", "leave", "leave_populated", "get", "get_vacant",
                 "insert_message", "insert_first", "clear", "push", "push_first",
                 "push_append", "record", "record_insert", "clear_history",
                 "empty", "command"}
BY DEF PartOf, Labels, HashLocs, TopicLocs, SubLocs, JoinLocs

LEMMA Lasts ==
  ASSUME NEW op \in Ops
  PROVE  LastOf[op] \subseteq Labels
BY LabelsAre DEF LastOf, Ops, SubLocs, JoinLocs

Todos == UNION {[1 .. n -> Labels] : n \in 0 .. 4}

LEMMA TodosHas ==
  ASSUME NEW a \in Labels, NEW b \in Labels, NEW c \in Labels, NEW d \in Labels
  PROVE  /\ <<>> \in Todos /\ <<a>> \in Todos /\ <<a, b>> \in Todos
         /\ <<a, b, c>> \in Todos /\ <<a, b, c, d>> \in Todos
<1>1. <<>> \in [1 .. 0 -> Labels]
  OBVIOUS
<1>2. <<a>> \in [1 .. 1 -> Labels]
  OBVIOUS
<1>3. <<a, b>> \in [1 .. 2 -> Labels]
  OBVIOUS
<1>4. <<a, b, c>> \in [1 .. 3 -> Labels]
  OBVIOUS
<1>5. <<a, b, c, d>> \in [1 .. 4 -> Labels]
  OBVIOUS
<1>6. 0 \in 0 .. 4 /\ 1 \in 0 .. 4 /\ 2 \in 0 .. 4 /\ 3 \in 0 .. 4 /\ 4 \in 0 .. 4
  OBVIOUS
<1> QED
  BY <1>1, <1>2, <1>3, <1>4, <1>5, <1>6 DEF Todos

(* A placed task has labels to do.                                          *)
LEMMA PlacedTodo ==
  ASSUME NEW r, r.op \in Ops, Placed(r)
  PROVE  r.todo \in Todos
<1>1. /\ \A l \in HashLocs : l \in Labels
      /\ \A l \in TopicLocs : l \in Labels
      /\ \A l \in SubLocs : l \in Labels
      /\ \A l \in LastOf[r.op] : l \in Labels
      /\ "join" \in Labels /\ "subscribe" \in Labels /\ "insert_topic" \in Labels
  BY LabelsAre, Lasts DEF JoinLocs, SubLocs, TopicLocs
<1> QED
  BY <1>1, TodosHas DEF Placed

(* The part that follows, by the call and the place.                        *)
Follows(op, l) ==
  IF l \in HashLocs THEN IF op = "join_topic" THEN {"join"} ELSE {"subscribe"}
  ELSE IF l \in TopicLocs THEN {"subscribe"}
  ELSE IF l \in SubLocs /\ op = "subscribe_topic" THEN {"insert_topic", "idle"}
  ELSE {"idle"}

(* The places between which a task moves inside a part of its call.         *)
SameTodo(op, l, k) ==
  \/ l \in HashLocs /\ k \in HashLocs
  \/ l \in TopicLocs /\ k \in TopicLocs
  \/ l \in SubLocs /\ k \in SubLocs
  \/ l \in LastOf[op] \ SubLocs /\ k \in LastOf[op]

LEMMA Disjoint ==
  /\ HashLocs \cap TopicLocs = {} /\ HashLocs \cap SubLocs = {}
  /\ TopicLocs \cap SubLocs = {}
  /\ \A op \in Ops : LastOf[op] \cap HashLocs = {} /\ LastOf[op] \cap TopicLocs = {}
  /\ \A op \in Ops \ SubOps : LastOf[op] \cap SubLocs = {}
  /\ \A op \in SubOps : SubLocs \subseteq LastOf[op]
  /\ \A op \in Ops : "idle" \notin LastOf[op]
BY DEF LastOf, Ops, HashLocs, TopicLocs, SubLocs, JoinLocs, SubOps

(* A task that goes on with its call inside a part.                         *)
LEMMA PlacedGoto ==
  ASSUME NEW r, r.op \in Ops, Placed(r), r.todo # <<>>,
         NEW k, SameTodo(r.op, Loc(r), k),
         NEW s, s.op = r.op, s.todo = [r.todo EXCEPT ![1] = k]
  PROVE  Placed(s) /\ Loc(s) = k
<1>1. CASE \E l \in LastOf[r.op] : r.todo = <<l>>
  <2>1. PICK l \in LastOf[r.op] : r.todo = <<l>>
    BY <1>1
  <2>2. Loc(r) = l /\ s.todo = <<k>> /\ s.todo # <<>> /\ Head(s.todo) = k
    BY <2>1, Tuples, Replaced DEF Loc
  <2>3. k \in LastOf[s.op]
    BY <2>1, <2>2, Disjoint DEF SameTodo
  <2> QED
    BY <2>2, <2>3 DEF Placed, Loc
<1>2. CASE r.op = "join_topic" /\ \E l \in HashLocs : r.todo = <<l, "join">>
  <2>1. PICK l \in HashLocs : r.todo = <<l, "join">>
    BY <1>2
  <2>2. Loc(r) = l /\ s.todo = <<k, "join">> /\ s.todo # <<>> /\ Head(s.todo) = k
    BY <2>1, Tuples, Replaced DEF Loc
  <2>3. k \in HashLocs
    BY <2>1, <2>2, Disjoint DEF SameTodo
  <2> QED
    BY <1>2, <2>2, <2>3 DEF Placed, Loc
<1>3. CASE r.op = "subscribe_topic_hash"
           /\ \E l \in HashLocs : r.todo = <<l, "subscribe">>
  <2>1. PICK l \in HashLocs : r.todo = <<l, "subscribe">>
    BY <1>3
  <2>2. Loc(r) = l /\ s.todo = <<k, "subscribe">> /\ s.todo # <<>> /\ Head(s.todo) = k
    BY <2>1, Tuples, Replaced DEF Loc
  <2>3. k \in HashLocs
    BY <2>1, <2>2, Disjoint DEF SameTodo
  <2> QED
    BY <1>3, <2>2, <2>3 DEF Placed, Loc
<1>4. CASE /\ r.op = "subscribe_topic"
           /\ \E l \in HashLocs :
                r.todo = <<l, "subscribe", "insert_topic", "subscribe">>
  <2>1. PICK l \in HashLocs : r.todo = <<l, "subscribe", "insert_topic", "subscribe">>
    BY <1>4
  <2>2. /\ Loc(r) = l /\ s.todo = <<k, "subscribe", "insert_topic", "subscribe">>
        /\ s.todo # <<>> /\ Head(s.todo) = k
    BY <2>1, Tuples, Replaced DEF Loc
  <2>3. k \in HashLocs
    BY <2>1, <2>2, Disjoint DEF SameTodo
  <2> QED
    BY <1>4, <2>2, <2>3 DEF Placed, Loc
<1>5. CASE /\ r.op = "subscribe_topic"
           /\ \E l \in SubLocs : r.todo = <<l, "insert_topic", "subscribe">>
  <2>1. PICK l \in SubLocs : r.todo = <<l, "insert_topic", "subscribe">>
    BY <1>5
  <2>2. /\ Loc(r) = l /\ s.todo = <<k, "insert_topic", "subscribe">>
        /\ s.todo # <<>> /\ Head(s.todo) = k
    BY <2>1, Tuples, Replaced DEF Loc
  <2>3. k \in SubLocs
    BY <2>1, <2>2, Disjoint DEF SameTodo
  <2> QED
    BY <1>5, <2>2, <2>3 DEF Placed, Loc
<1>6. CASE r.op = "subscribe_topic" /\ \E l \in TopicLocs : r.todo = <<l, "subscribe">>
  <2>1. PICK l \in TopicLocs : r.todo = <<l, "subscribe">>
    BY <1>6
  <2>2. Loc(r) = l /\ s.todo = <<k, "subscribe">> /\ s.todo # <<>> /\ Head(s.todo) = k
    BY <2>1, Tuples, Replaced DEF Loc
  <2>3. k \in TopicLocs
    BY <2>1, <2>2, Disjoint DEF SameTodo
  <2> QED
    BY <1>6, <2>2, <2>3 DEF Placed, Loc
<1> QED
  BY <1>1, <1>2, <1>3, <1>4, <1>5, <1>6 DEF Placed

(* A task that is done with a part of its call.                             *)
LEMMA PlacedDone ==
  ASSUME NEW r, r.op \in Ops, Placed(r), r.todo # <<>>
  PROVE  /\ Tail(r.todo) = <<>> => "idle" \in Follows(r.op, Loc(r))
         /\ \A s : s.op = r.op /\ s.todo = Tail(r.todo) /\ s.todo # <<>>
                   => Placed(s) /\ Loc(s) \in Follows(r.op, Loc(r)) /\ Loc(s) # "idle"
         /\ Loc(r) \in Labels
<1>1. CASE \E l \in LastOf[r.op] : r.todo = <<l>>
  <2>1. PICK l \in LastOf[r.op] : r.todo = <<l>>
    BY <1>1
  <2>2. Loc(r) = l /\ Tail(r.todo) = <<>>
    BY <2>1, Tuples DEF Loc
  <2>3. l \notin HashLocs /\ l \notin TopicLocs /\ l \in Labels
    BY <2>1, Disjoint, Lasts
  <2> QED
    BY <2>2, <2>3 DEF Follows
<1>2. CASE r.op = "join_topic" /\ \E l \in HashLocs : r.todo = <<l, "join">>
  <2>1. PICK l \in HashLocs : r.todo = <<l, "join">>
    BY <1>2
  <2>2. Loc(r) = l /\ Tail(r.todo) = <<"join">> /\ <<"join">> # <<>>
        /\ Head(<<"join">>) = "join"
    BY <2>1, Tuples DEF Loc
  <2>3. "join" \in LastOf["join_topic"] /\ l \in Labels
    BY <2>1, Parts DEF LastOf, JoinLocs
  <2> QED
    BY <1>2, <2>2, <2>3 DEF Follows, Placed, Loc
<1>3. CASE r.op = "subscribe_topic_hash"
           /\ \E l \in HashLocs : r.todo = <<l, "subscribe">>
  <2>1. PICK l \in HashLocs : r.todo = <<l, "subscribe">>
    BY <1>3
  <2>2. Loc(r) = l /\ Tail(r.todo) = <<"subscribe">> /\ <<"subscribe">> # <<>>
        /\ Head(<<"subscribe">>) = "subscribe"
    BY <2>1, Tuples DEF Loc
  <2>3. "subscribe" \in LastOf["subscribe_topic_hash"] /\ l \in Labels
    BY <2>1, Parts DEF LastOf, SubLocs
  <2> QED
    BY <1>3, <2>2, <2>3 DEF Follows, Placed, Loc
<1>4. CASE /\ r.op = "subscribe_topic"
           /\ \E l \in HashLocs :
                r.todo = <<l, "subscribe", "insert_topic", "subscribe">>
  <2>1. PICK l \in HashLocs : r.todo = <<l, "subscribe", "insert_topic", "subscribe">>
    BY <1>4
  <2>2. /\ Loc(r) = l /\ Tail(r.todo) = <<"subscribe", "insert_topic", "subscribe">>
        /\ <<"subscribe", "insert_topic", "subscribe">> # <<>>
        /\ Head(<<"subscribe", "insert_topic", "subscribe">>) = "subscribe"
    BY <2>1, Tuples DEF Loc
  <2>3. "subscribe" \in SubLocs /\ l \in Labels
    BY <2>1, Parts DEF SubLocs
  <2> QED
    BY <1>4, <2>2, <2>3 DEF Follows, Placed, Loc
<1>5. CASE /\ r.op = "subscribe_topic"
           /\ \E l \in SubLocs : r.todo = <<l, "insert_topic", "subscribe">>
  <2>1. PICK l \in SubLocs : r.todo = <<l, "insert_topic", "subscribe">>
    BY <1>5
  <2>2. /\ Loc(r) = l /\ Tail(r.todo) = <<"insert_topic", "subscribe">>
        /\ <<"insert_topic", "subscribe">> # <<>>
        /\ Head(<<"insert_topic", "subscribe">>) = "insert_topic"
    BY <2>1, Tuples DEF Loc
  <2>3. "insert_topic" \in TopicLocs /\ l \in Labels /\ l \notin HashLocs /\ l \notin TopicLocs
    BY <2>1, Parts, Disjoint DEF TopicLocs
  <2> QED
    BY <1>5, <2>1, <2>2, <2>3 DEF Follows, Placed, Loc
<1>6. CASE r.op = "subscribe_topic" /\ \E l \in TopicLocs : r.todo = <<l, "subscribe">>
  <2>1. PICK l \in TopicLocs : r.todo = <<l, "subscribe">>
    BY <1>6
  <2>2. Loc(r) = l /\ Tail(r.todo) = <<"subscribe">> /\ <<"subscribe">> # <<>>
        /\ Head(<<"subscribe">>) = "subscribe"
    BY <2>1, Tuples DEF Loc
  <2>3. "subscribe" \in LastOf["subscribe_topic"] /\ l \in Labels /\ l \notin HashLocs
    BY <2>1, Parts, Disjoint DEF LastOf, SubLocs
  <2> QED
    BY <1>6, <2>1, <2>2, <2>3 DEF Follows, Placed, Loc
<1> QED
  BY <1>1, <1>2, <1>3, <1>4, <1>5, <1>6 DEF Placed

-----------------------------------------------------------------------------
(* What a step does to the tasks.                                           *)

Held == {None} \cup {{l} : l \in SUBSET Peers}

LEMMA IdleIs ==
  /\ Idle \in Task /\ Idle.op = "participants" /\ Idle.todo = <<>>
  /\ Idle.held = None /\ ~Idle.missed
  /\ Placed(Idle) /\ ArgOK(Idle) /\ Loc(Idle) = "idle"
<1>1. <<>> \in Todos
  <2>1. "command" \in Labels
    BY LabelsAre
  <2> QED
    BY <2>1, TodosHas
<1>2. /\ Idle.op = "participants" /\ Idle.todo = <<>>
      /\ Idle.held = None /\ ~Idle.missed
  BY DEF Idle
<1>3. Idle \in Task
  BY <1>1 DEF Idle, Task, Todos, Ops
<1>4. Placed(Idle) /\ ArgOK(Idle) /\ Loc(Idle) = "idle"
  BY <1>2 DEF Placed, ArgOK, Loc
<1> QED
  BY <1>2, <1>3, <1>4

LEMMA Became ==
  ASSUME TypeOK, NEW t \in Tasks, NEW r \in Task, Becomes(t, r)
  PROVE  /\ task' \in [Tasks -> Task] /\ task'[t] = r
         /\ \A u \in Tasks : u # t => task'[u] = task[u]
BY DEF TypeOK, Becomes

(* The steps of other tasks, as the parts of the invariant see them.        *)
Alone(t) ==
  /\ task' \in [Tasks -> Task]
  /\ \A u \in Tasks : u # t => task'[u] = task[u]
  /\ raced' = raced \cup Racing' /\ crossed' = Crosses(t)
  /\ Placed(task'[t]) /\ ArgOK(task'[t])
  /\ task'[t].held # None <=> Loc(task'[t]) = "topic_promote"

(* The call goes on, at k; or it is over.                                   *)
Continues(t, k) ==
  /\ Loc(task'[t]) = k
  /\ task'[t].op = task[t].op /\ task'[t].arg = task[t].arg
  /\ task'[t].knew = task[t].knew /\ task'[t].missed = task[t].missed
Ends(t) == task'[t] = Idle /\ Loc(task'[t]) = "idle"

LEMMA AtIs ==
  ASSUME NEW t \in Tasks, NEW l, At(t, l)
  PROVE  task[t].todo # <<>> /\ Loc(task[t]) = l
BY DEF At, Busy, Loc

LEMMA HoldsNone ==
  ASSUME TypeOK, NEW t \in Tasks, Loc(task[t]) # "topic_promote"
  PROVE  task[t].held = None
BY DEF TypeOK, At, Busy, Loc

LEMMA Went ==
  ASSUME TypeOK, PlaceInv, NEW t \in Tasks, NEW l, NEW k, At(t, l), Goto(t, k),
         SameTodo(task[t].op, l, k), l # "topic_promote", k # "topic_promote"
  PROVE  Alone(t) /\ Continues(t, k)
<1> DEFINE r == task[t]
           q == [r.todo EXCEPT ![1] = k]
           s == [r EXCEPT !.todo = q]
<1>1. r \in Task /\ r.op \in Ops /\ Placed(r) /\ ArgOK(r)
  BY DEF TypeOK, Task, PlaceInv
<1>2. r.todo # <<>> /\ Loc(r) = l
  BY AtIs
<1>3. /\ s.op = r.op /\ s.todo = q /\ s.arg = r.arg /\ s.knew = r.knew
      /\ s.missed = r.missed /\ s.held = r.held /\ s.found = r.found
  BY <1>1 DEF Task
<1>4. Becomes(t, s)
  BY DEF Goto
<1> HIDE DEF s
<1> HIDE DEF q
<1>5. Placed(s) /\ Loc(s) = k
  <2>1. SameTodo(r.op, Loc(r), k)
    BY <1>2
  <2>2. s.op = r.op /\ s.todo = [r.todo EXCEPT ![1] = k]
    BY <1>3 DEF q
  <2> HIDE DEF r
  <2> QED
    BY <1>1, <1>2, <2>1, <2>2, PlacedGoto
<1>6. q \in Todos
  BY <1>1, <1>3, <1>5, PlacedTodo
<1>7. s \in Task
  BY <1>1, <1>6 DEF s, Task, Todos
<1>8. task' \in [Tasks -> Task] /\ task'[t] = s
      /\ \A u \in Tasks : u # t => task'[u] = task[u]
  BY <1>4, <1>7, Became
<1>9. ArgOK(s)
  BY <1>1, <1>3 DEF ArgOK
<1> QED
  BY <1>2, <1>3, <1>4, <1>5, <1>8, <1>9, HoldsNone DEF Alone, Continues, Becomes

LEMMA Finished ==
  ASSUME TypeOK, PlaceInv, NEW t \in Tasks, NEW l, At(t, l), Done(t),
         l # "topic_promote"
  PROVE  /\ Alone(t)
         /\ \/ Ends(t) /\ "idle" \in Follows(task[t].op, l)
            \/ \E k \in Follows(task[t].op, l) \ {"idle"} : Continues(t, k)
<1> DEFINE r == task[t]
           s == [r EXCEPT !.todo = Tail(r.todo)]
<1>1. r \in Task /\ r.op \in Ops /\ Placed(r) /\ ArgOK(r)
  BY DEF TypeOK, Task, PlaceInv
<1>2. r.todo # <<>> /\ Loc(r) = l
  BY AtIs
<1>a. CASE Tail(r.todo) = <<>>
  <2>1. Becomes(t, Idle)
    BY <1>a DEF Done
  <2>2. task' \in [Tasks -> Task] /\ task'[t] = Idle
        /\ \A u \in Tasks : u # t => task'[u] = task[u]
    BY <2>1, Became, IdleIs
  <2>3. "idle" \in Follows(r.op, l)
    BY <1>1, <1>2, <1>a, PlacedDone
  <2> QED
    BY <2>1, <2>2, <2>3, IdleIs DEF Alone, Ends, Becomes
<1>b. CASE Tail(r.todo) # <<>>
  <2>1. Becomes(t, s)
    BY <1>b DEF Done
  <2>2. /\ s.op = r.op /\ s.todo = Tail(r.todo) /\ s.arg = r.arg /\ s.knew = r.knew
        /\ s.missed = r.missed /\ s.held = r.held
    BY <1>1 DEF Task
  <2> HIDE DEF s
  <2>3. Placed(s) /\ Loc(s) \in Follows(r.op, l) /\ Loc(s) # "idle"
    BY <1>1, <1>2, <1>b, <2>2, PlacedDone
  <2>4. Tail(r.todo) \in Todos
    BY <1>1, <2>2, <2>3, PlacedTodo
  <2>5. s \in Task
    BY <1>1, <2>4 DEF s, Task, Todos
  <2>6. task' \in [Tasks -> Task] /\ task'[t] = s
        /\ \A u \in Tasks : u # t => task'[u] = task[u]
    BY <2>1, <2>5, Became
  <2>7. ArgOK(s)
    BY <1>1, <2>2 DEF ArgOK
  <2>8. Loc(s) # "topic_promote"
    BY <2>3 DEF Follows
  <2> QED
    BY <1>2, <2>1, <2>2, <2>3, <2>6, <2>7, <2>8, HoldsNone DEF Alone, Continues, Becomes
<1> QED
  BY <1>a, <1>b

(* The call of a task, by its place.                                        *)
LEMMA OpAt ==
  ASSUME NEW r, r.op \in Ops, Placed(r)
  PROVE  /\ Loc(r) = "idle" => r.todo = <<>> /\ r.op = "participants"
         /\ Loc(r) \in HashLocs => r.op \in SubOps \cup {"join_topic"}
         /\ Loc(r) \in TopicLocs => r.op = "subscribe_topic"
         /\ Loc(r) \in SubLocs => r.op \in SubOps
         /\ Loc(r) \notin HashLocs \cup TopicLocs \cup {"idle"} => Loc(r) \in LastOf[r.op]
         /\ r.op \in SubOps
            => Loc(r) \in {"command"} \cup HashLocs \cup TopicLocs \cup SubLocs
         /\ Loc(r) \in {"idle"} \cup Labels
<1>1. CASE r.todo = <<>> /\ r.op = "participants"
  <2>1. Loc(r) = "idle"
    BY <1>1 DEF Loc
  <2>2. /\ "idle" \notin HashLocs /\ "idle" \notin TopicLocs /\ "idle" \notin SubLocs
        /\ "participants" \notin SubOps
    BY DEF HashLocs, TopicLocs, SubLocs, SubOps
  <2> QED
    BY <1>1, <2>1, <2>2
<1>2. CASE \E l \in LastOf[r.op] : r.todo = <<l>>
  <2>1. PICK l \in LastOf[r.op] : r.todo = <<l>>
    BY <1>2
  <2>2. Loc(r) = l
    BY <2>1, Tuples DEF Loc
  <2>3. l \in Labels /\ l # "idle" /\ l \notin HashLocs /\ l \notin TopicLocs
    BY <2>1, Lasts, Disjoint
  <2>4. l \in SubLocs => r.op \in SubOps
    BY <2>1, Disjoint
  <2>5. r.op \in SubOps => l \in {"command"} \cup SubLocs
    BY <2>1 DEF LastOf, SubOps
  <2> QED
    BY <2>1, <2>2, <2>3, <2>4, <2>5
<1>3. CASE r.op = "join_topic" /\ \E l \in HashLocs : r.todo = <<l, "join">>
  <2>1. Loc(r) \in HashLocs
    BY <1>3, Tuples DEF Loc
  <2> QED
    BY <1>3, <2>1, Disjoint, Parts DEF HashLocs, SubOps
<1>4. CASE r.op = "subscribe_topic_hash"
           /\ \E l \in HashLocs : r.todo = <<l, "subscribe">>
  <2>1. Loc(r) \in HashLocs
    BY <1>4, Tuples DEF Loc
  <2> QED
    BY <1>4, <2>1, Disjoint, Parts DEF HashLocs, SubOps
<1>5. CASE /\ r.op = "subscribe_topic"
           /\ \E l \in HashLocs :
                r.todo = <<l, "subscribe", "insert_topic", "subscribe">>
  <2>1. Loc(r) \in HashLocs
    BY <1>5, Tuples DEF Loc
  <2> QED
    BY <1>5, <2>1, Disjoint, Parts DEF HashLocs, SubOps
<1>6. CASE /\ r.op = "subscribe_topic"
           /\ \E l \in SubLocs : r.todo = <<l, "insert_topic", "subscribe">>
  <2>1. Loc(r) \in SubLocs
    BY <1>6, Tuples DEF Loc
  <2>2. r.op \in SubOps
    BY <1>6 DEF SubOps
  <2>3. SubLocs \subseteq LastOf[r.op]
    BY <2>2, Disjoint
  <2>4. Loc(r) # "idle"
    BY <2>1 DEF SubLocs
  <2> QED
    BY <2>1, <2>2, <2>3, <2>4, Disjoint, Parts
<1>7. CASE r.op = "subscribe_topic" /\ \E l \in TopicLocs : r.todo = <<l, "subscribe">>
  <2>1. Loc(r) \in TopicLocs
    BY <1>7, Tuples DEF Loc
  <2>2. Loc(r) # "idle" /\ r.op \in SubOps
    BY <1>7, <2>1 DEF TopicLocs, SubOps
  <2> QED
    BY <1>7, <2>1, <2>2, Disjoint, Parts
<1> QED
  BY <1>1, <1>2, <1>3, <1>4, <1>5, <1>6, <1>7 DEF Placed

(* The same for the places of one call only.                                *)
LEMMA OpOf ==
  ASSUME NEW r, r.op \in Ops, Placed(r)
  PROVE  /\ Loc(r) \in JoinLocs <=> r.op = "join_topic" /\ Loc(r) \notin HashLocs
         /\ Loc(r) \in {"leave", "leave_populated"} <=> r.op = "leave_topic"
         /\ Loc(r) \in {"get", "get_vacant", "idle"} <=> r.op = "participants"
         /\ Loc(r) = "unsubscribe"
            <=> r.op = "unsubscribe_topic_hash" /\ Loc(r) # "command"
         /\ Loc(r) \in {"insert_message", "insert_first"}
            <=> r.op = "publish_message" /\ Loc(r) # "command"
         /\ Loc(r) \in {"push", "push_first", "push_append"} <=> r.op = "push_message"
         /\ Loc(r) \in {"record", "record_insert"} <=> r.op = "insert_empty_record"
         /\ Loc(r) = "clear" <=> r.op = "clear_message"
         /\ Loc(r) = "clear_history" <=> r.op = "clear_history"
         /\ Loc(r) = "empty" <=> r.op = "empty_store"
<1>1. CASE Loc(r) = "idle"
  BY <1>1, OpAt DEF JoinLocs
<1>2. CASE Loc(r) \in HashLocs \cup TopicLocs
  BY <1>2, OpAt DEF JoinLocs, HashLocs, TopicLocs, SubOps
<1>3. CASE Loc(r) \notin HashLocs \cup TopicLocs \cup {"idle"}
  <2>1. Loc(r) \in LastOf[r.op]
    BY <1>3, OpAt
  <2>2. r.op \in Ops
    OBVIOUS
  <2> QED
    BY <1>3, <2>1, <2>2 DEF LastOf, Ops, JoinLocs, SubLocs
<1> QED
  BY <1>1, <1>2, <1>3

(* Where the steps of the topic store take their task.                      *)
Hashed(t) ==
  Continues(t, IF task[t].op = "join_topic" THEN "join" ELSE "subscribe")

LEMMA HashDone ==
  ASSUME TypeOK, PlaceInv, NEW t \in Tasks, NEW l \in HashLocs, At(t, l), Done(t)
  PROVE  Alone(t) /\ Hashed(t) /\ Loc(task[t]) = l
<1>1. Follows(task[t].op, l) = {IF task[t].op = "join_topic" THEN "join" ELSE "subscribe"}
      /\ l # "topic_promote"
  BY DEF Follows, HashLocs
<1> QED
  BY <1>1, Finished, AtIs DEF Hashed

LEMMA TopicDone ==
  ASSUME TypeOK, PlaceInv, NEW t \in Tasks, NEW l \in TopicLocs, At(t, l), Done(t),
         l # "topic_promote"
  PROVE  Alone(t) /\ Continues(t, "subscribe") /\ Loc(task[t]) = l
<1>1. Follows(task[t].op, l) = {"subscribe"}
  BY Disjoint DEF Follows
<1> QED
  BY <1>1, Finished, AtIs

LEMMA SubDone ==
  ASSUME TypeOK, PlaceInv, NEW t \in Tasks, NEW l \in SubLocs, At(t, l), Done(t)
  PROVE  /\ Alone(t) /\ Loc(task[t]) = l
         /\ Ends(t) \/ Continues(t, "insert_topic")
<1>1. Follows(task[t].op, l) \subseteq {"insert_topic", "idle"} /\ l # "topic_promote"
  BY Disjoint DEF Follows, SubLocs
<1> QED
  BY <1>1, Finished, AtIs

LEMMA LastDone ==
  ASSUME TypeOK, PlaceInv, NEW t \in Tasks, NEW l, At(t, l), Done(t),
         l \notin HashLocs \cup TopicLocs \cup SubLocs
  PROVE  Alone(t) /\ Loc(task[t]) = l /\ Ends(t)
<1>1. Follows(task[t].op, l) = {"idle"} /\ l # "topic_promote"
  BY DEF Follows, TopicLocs
<1> QED
  BY <1>1, Finished, AtIs

LEMMA Rewritten ==
  ASSUME TypeOK, PlaceInv, NEW t \in Tasks, NEW s \in Task, NEW k, Becomes(t, s),
         s.op = task[t].op, s.arg = task[t].arg, s.knew = task[t].knew,
         s.missed = task[t].missed, Placed(s), Loc(s) = k,
         s.held # None <=> k = "topic_promote"
  PROVE  Alone(t) /\ Continues(t, k) /\ task'[t] = s
<1>1. task' \in [Tasks -> Task] /\ task'[t] = s
      /\ \A u \in Tasks : u # t => task'[u] = task[u]
  BY Became
<1>2. ArgOK(s)
  BY DEF ArgOK, PlaceInv
<1> QED
  BY <1>1, <1>2 DEF Alone, Continues, Becomes

LEMMA RemoveMoves ==
  ASSUME TypeOK, PlaceInv, NEW t \in Tasks, TopicRemove(t)
  PROVE  /\ Alone(t) /\ Loc(task[t]) = "insert_topic"
         /\ IF vacant # None
            THEN Continues(t, "topic_promote") /\ task'[t].held = vacant
            ELSE Continues(t, "topic_populated")
<1> DEFINE r == task[t]
           q == [r.todo EXCEPT ![1] = "topic_promote"]
           s == [r EXCEPT !.held = vacant, !.todo = q]
<1>1. r \in Task /\ r.op \in Ops /\ Placed(r) /\ vacant \in Held
  BY DEF TypeOK, Task, PlaceInv, Held
<1>2. At(t, "insert_topic") /\ Loc(r) = "insert_topic" /\ r.todo # <<>>
  BY AtIs DEF TopicRemove
<1>3. /\ SameTodo(r.op, "insert_topic", "topic_promote")
      /\ SameTodo(r.op, "insert_topic", "topic_populated")
  BY DEF SameTodo, TopicLocs
<1>4. CASE vacant = None
  <2>1. Goto(t, "topic_populated")
    BY <1>4 DEF TopicRemove
  <2> QED
    BY <1>2, <1>3, <1>4, <2>1, Went
<1>5. CASE vacant # None
  <2>1. Becomes(t, s)
    BY <1>5 DEF TopicRemove
  <2>2. /\ s.op = r.op /\ s.todo = q /\ s.arg = r.arg /\ s.knew = r.knew
        /\ s.missed = r.missed /\ s.held = vacant
    BY <1>1 DEF Task
  <2> HIDE DEF s
  <2>3. Placed(s) /\ Loc(s) = "topic_promote"
    BY <1>1, <1>2, <1>3, <2>2, PlacedGoto, ZenonT(60)
  <2>4. q \in Todos
    BY <1>1, <2>2, <2>3, PlacedTodo
  <2>5. s \in Task
    BY <1>1, <2>4 DEF s, Task, Todos, Held
  <2> HIDE DEF q
  <2> QED
    BY <1>2, <1>5, <2>1, <2>2, <2>3, <2>5, Rewritten
<1> QED
  BY <1>4, <1>5

LEMMA PromoteMoves ==
  ASSUME TypeOK, PlaceInv, NEW t \in Tasks, TopicPromote(t)
  PROVE  /\ Alone(t) /\ Loc(task[t]) = "topic_promote"
         /\ Continues(t, "subscribe") /\ task'[t].held = None
<1> DEFINE r == task[t]
           q == Tail(r.todo)
           s == [r EXCEPT !.held = None, !.todo = q]
<1>1. r \in Task /\ r.op \in Ops /\ Placed(r)
  BY DEF TypeOK, Task, PlaceInv
<1>2. At(t, "topic_promote") /\ Loc(r) = "topic_promote" /\ r.todo # <<>>
  BY AtIs DEF TopicPromote
<1>3. Follows(r.op, "topic_promote") = {"subscribe"}
  BY DEF Follows, HashLocs, TopicLocs
<1>4. Becomes(t, s)
  BY DEF TopicPromote
<1>5. /\ s.op = r.op /\ s.todo = q /\ s.arg = r.arg /\ s.knew = r.knew
      /\ s.missed = r.missed /\ s.held = None
  BY <1>1 DEF Task
<1> HIDE DEF s
<1>6. q # <<>>
  BY <1>1, <1>2, <1>3, PlacedDone
<1>7. Placed(s) /\ Loc(s) = "subscribe"
  BY <1>1, <1>2, <1>3, <1>5, <1>6, PlacedDone
<1>8. q \in Todos
  BY <1>1, <1>5, <1>7, PlacedTodo
<1>9. s \in Task
  BY <1>1, <1>8 DEF s, Task, Todos
<1> HIDE DEF q
<1> QED
  BY <1>2, <1>4, <1>5, <1>7, <1>9, Rewritten

LEMMA GetMoves ==
  ASSUME TypeOK, PlaceInv, NEW t \in Tasks, ParticipantsPopulated(t)
  PROVE  /\ Alone(t) /\ Loc(task[t]) = "get" /\ Continues(t, "get_vacant")
         /\ task'[t].found = (populated # None)
<1> DEFINE r == task[t]
           b == populated # None
           q == <<"get_vacant">>
           s == [r EXCEPT !.found = b, !.todo = q]
<1>1. r \in Task /\ r.op \in Ops /\ Placed(r)
  BY DEF TypeOK, Task, PlaceInv
<1>2. Loc(r) = "get"
  BY AtIs DEF ParticipantsPopulated
<1>3. r.op = "participants"
  BY <1>1, <1>2, OpOf
<1>4. Becomes(t, s)
  BY DEF ParticipantsPopulated
<1>5. b \in BOOLEAN
  OBVIOUS
<1> HIDE DEF b
<1>6. /\ s.op = r.op /\ s.todo = q /\ s.arg = r.arg /\ s.knew = r.knew
      /\ s.missed = r.missed /\ s.held = r.held /\ s.found = b
  BY <1>1 DEF Task
<1>7. q \in Todos
  <2>1. "get_vacant" \in Labels
    BY LabelsAre
  <2> QED
    BY <2>1, TodosHas
<1> HIDE DEF q
<1>8. s \in Task
  BY <1>1, <1>5, <1>7 DEF Task, Todos
<1> HIDE DEF s
<1>9. Placed(s) /\ Loc(s) = "get_vacant"
  <2>1. "get_vacant" \in LastOf[s.op]
    BY <1>3, <1>6 DEF LastOf
  <2> QED
    BY <1>6, <2>1, Tuples DEF q, Placed, Loc
<1>10. Alone(t) /\ Continues(t, "get_vacant") /\ task'[t] = s
  BY <1>2, <1>4, <1>6, <1>8, <1>9, Rewritten, HoldsNone
<1> QED
  BY <1>2, <1>6, <1>10 DEF b

LEMMA GetVacantMoves ==
  ASSUME TypeOK, PlaceInv, NEW t \in Tasks, ParticipantsVacant(t)
  PROVE  /\ Alone(t) /\ Loc(task[t]) = "get_vacant" /\ Loc(task'[t]) = "idle"
         /\ task'[t].op = "participants" /\ task'[t].held = None
         /\ task'[t].missed = (task[t].knew /\ ~task[t].found /\ vacant = None)
<1> DEFINE b == task[t].knew /\ ~task[t].found /\ vacant = None
           s == [Idle EXCEPT !.missed = b]
<1>1. Becomes(t, s)
  BY DEF ParticipantsVacant
<1>2. b \in BOOLEAN
  OBVIOUS
<1>3. Loc(task[t]) = "get_vacant"
  BY AtIs DEF ParticipantsVacant
<1> HIDE DEF b
<1>4. s \in Task /\ s.op = "participants" /\ s.todo = <<>> /\ s.held = None
      /\ s.missed = b
  BY <1>2, IdleIs DEF Task
<1> HIDE DEF s
<1>5. Placed(s) /\ Loc(s) = "idle" /\ ArgOK(s)
  BY <1>4 DEF Placed, Loc, ArgOK
<1>6. task' \in [Tasks -> Task] /\ task'[t] = s
      /\ \A u \in Tasks : u # t => task'[u] = task[u]
  BY <1>1, <1>4, Became
<1> QED
  BY <1>1, <1>3, <1>4, <1>5, <1>6 DEF Alone, Becomes, b

(* Where the steps of the topic store take their task.                      *)
TopicMoves(t) ==
  /\ HashVacant(t) =>
       /\ Alone(t) /\ Loc(task[t]) = "insert_hash"
       /\ IF vacant # None THEN Hashed(t) ELSE Continues(t, "hash_populated")
  /\ HashPopulated(t) =>
       /\ Alone(t) /\ Loc(task[t]) = "hash_populated"
       /\ IF populated # None THEN Hashed(t) ELSE Continues(t, "hash_insert")
  /\ HashInsert(t) =>
       /\ Alone(t) /\ Loc(task[t]) = "hash_insert"
       /\ Hashed(t)
  /\ TopicPopulated(t) =>
       /\ Alone(t) /\ Loc(task[t]) = "topic_populated"
       /\ IF populated # None THEN Continues(t, "subscribe") ELSE Continues(t, "topic_insert")
  /\ TopicInsert(t) =>
       /\ Alone(t) /\ Loc(task[t]) = "topic_insert"
       /\ Continues(t, "subscribe")
  /\ SubscribedContains(t) =>
       /\ Alone(t) /\ Loc(task[t]) = "subscribe"
       /\ IF subscribed THEN (Ends(t) \/ Continues(t, "insert_topic")) ELSE Continues(t, "subscribe_insert")
  /\ SubscribedInsert(t) =>
       /\ Alone(t) /\ Loc(task[t]) = "subscribe_insert"
       /\ (Ends(t) \/ Continues(t, "insert_topic"))
  /\ Unsubscribe(t) =>
       /\ Alone(t) /\ Loc(task[t]) = "unsubscribe"
       /\ Ends(t)
  /\ JoinVacant(t) =>
       /\ Alone(t) /\ Loc(task[t]) = "join"
       /\ IF vacant # None THEN Ends(t) ELSE Continues(t, "join_populated")
  /\ JoinPopulated(t) =>
       /\ Alone(t) /\ Loc(task[t]) = "join_populated"
       /\ IF populated # None THEN Ends(t) ELSE Continues(t, "unreachable")
  /\ LeaveVacant(t) =>
       /\ Alone(t) /\ Loc(task[t]) = "leave"
       /\ IF vacant # None THEN Ends(t) ELSE Continues(t, "leave_populated")
  /\ LeavePopulated(t) =>
       /\ Alone(t) /\ Loc(task[t]) = "leave_populated"
       /\ Ends(t)
  /\ TopicRemove(t) =>
       /\ Alone(t) /\ Loc(task[t]) = "insert_topic"
       /\ IF vacant # None
          THEN Continues(t, "topic_promote") /\ task'[t].held = vacant
          ELSE Continues(t, "topic_populated")
  /\ TopicPromote(t) =>
       /\ Alone(t) /\ Loc(task[t]) = "topic_promote" /\ Continues(t, "subscribe")
       /\ task'[t].held = None
  /\ ParticipantsPopulated(t) =>
       /\ Alone(t) /\ Loc(task[t]) = "get" /\ Continues(t, "get_vacant")
       /\ task'[t].found = (populated # None)
  /\ ParticipantsVacant(t) =>
       /\ Alone(t) /\ Loc(task[t]) = "get_vacant" /\ Loc(task'[t]) = "idle"
       /\ task'[t].op = "participants"
       /\ task'[t].missed = (task[t].knew /\ ~task[t].found /\ vacant = None)

LEMMA TopicMovesAre ==
  ASSUME TypeOK, PlaceInv, NEW t \in Tasks
  PROVE  TopicMoves(t)
<1>1. ASSUME HashVacant(t)
      PROVE  /\ Alone(t) /\ Loc(task[t]) = "insert_hash"
             /\ IF vacant # None THEN Hashed(t) ELSE Continues(t, "hash_populated")
  <2>1. At(t, "insert_hash") /\ "insert_hash" \in HashLocs
    BY <1>1 DEF HashVacant, HashLocs, TopicLocs, SubLocs
  <2>2. CASE vacant # None
    BY <1>1, <2>1, <2>2, HashDone DEF HashVacant
  <2>3. CASE ~(vacant # None)
    <3>1. Goto(t, "hash_populated")
      BY <1>1, <2>3 DEF HashVacant
    <3>2. SameTodo(task[t].op, "insert_hash", "hash_populated")
      BY DEF SameTodo, HashLocs
    <3> QED
      BY <2>1, <2>3, <3>1, <3>2, Went, AtIs
  <2> QED
    BY <2>2, <2>3
<1>2. ASSUME HashPopulated(t)
      PROVE  /\ Alone(t) /\ Loc(task[t]) = "hash_populated"
             /\ IF populated # None THEN Hashed(t) ELSE Continues(t, "hash_insert")
  <2>1. At(t, "hash_populated") /\ "hash_populated" \in HashLocs
    BY <1>2 DEF HashPopulated, HashLocs, TopicLocs, SubLocs
  <2>2. CASE populated # None
    BY <1>2, <2>1, <2>2, HashDone DEF HashPopulated
  <2>3. CASE ~(populated # None)
    <3>1. Goto(t, "hash_insert")
      BY <1>2, <2>3 DEF HashPopulated
    <3>2. SameTodo(task[t].op, "hash_populated", "hash_insert")
      BY DEF SameTodo, HashLocs
    <3> QED
      BY <2>1, <2>3, <3>1, <3>2, Went, AtIs
  <2> QED
    BY <2>2, <2>3
<1>3. ASSUME HashInsert(t)
      PROVE  /\ Alone(t) /\ Loc(task[t]) = "hash_insert"
             /\ Hashed(t)
  <2>1. At(t, "hash_insert") /\ "hash_insert" \in HashLocs
    BY <1>3 DEF HashInsert, HashLocs, TopicLocs, SubLocs
  <2> QED
    BY <1>3, <2>1, HashDone DEF HashInsert
<1>4. ASSUME TopicPopulated(t)
      PROVE  /\ Alone(t) /\ Loc(task[t]) = "topic_populated"
             /\ IF populated # None THEN Continues(t, "subscribe") ELSE Continues(t, "topic_insert")
  <2>1. At(t, "topic_populated") /\ "topic_populated" \in TopicLocs
    BY <1>4 DEF TopicPopulated, HashLocs, TopicLocs, SubLocs
  <2>2. CASE populated # None
    BY <1>4, <2>1, <2>2, TopicDone DEF TopicPopulated
  <2>3. CASE ~(populated # None)
    <3>1. Goto(t, "topic_insert")
      BY <1>4, <2>3 DEF TopicPopulated
    <3>2. SameTodo(task[t].op, "topic_populated", "topic_insert")
      BY DEF SameTodo, TopicLocs
    <3> QED
      BY <2>1, <2>3, <3>1, <3>2, Went, AtIs
  <2> QED
    BY <2>2, <2>3
<1>5. ASSUME TopicInsert(t)
      PROVE  /\ Alone(t) /\ Loc(task[t]) = "topic_insert"
             /\ Continues(t, "subscribe")
  <2>1. At(t, "topic_insert") /\ "topic_insert" \in TopicLocs
    BY <1>5 DEF TopicInsert, HashLocs, TopicLocs, SubLocs
  <2> QED
    BY <1>5, <2>1, TopicDone DEF TopicInsert
<1>6. ASSUME SubscribedContains(t)
      PROVE  /\ Alone(t) /\ Loc(task[t]) = "subscribe"
             /\ IF subscribed THEN (Ends(t) \/ Continues(t, "insert_topic")) ELSE Continues(t, "subscribe_insert")
  <2>1. At(t, "subscribe") /\ "subscribe" \in SubLocs
    BY <1>6 DEF SubscribedContains, HashLocs, TopicLocs, SubLocs
  <2>2. CASE subscribed
    BY <1>6, <2>1, <2>2, SubDone DEF SubscribedContains
  <2>3. CASE ~(subscribed)
    <3>1. Goto(t, "subscribe_insert")
      BY <1>6, <2>3 DEF SubscribedContains
    <3>2. SameTodo(task[t].op, "subscribe", "subscribe_insert")
      BY DEF SameTodo, SubLocs
    <3> QED
      BY <2>1, <2>3, <3>1, <3>2, Went, AtIs
  <2> QED
    BY <2>2, <2>3
<1>7. ASSUME SubscribedInsert(t)
      PROVE  /\ Alone(t) /\ Loc(task[t]) = "subscribe_insert"
             /\ (Ends(t) \/ Continues(t, "insert_topic"))
  <2>1. At(t, "subscribe_insert") /\ "subscribe_insert" \in SubLocs
    BY <1>7 DEF SubscribedInsert, HashLocs, TopicLocs, SubLocs
  <2> QED
    BY <1>7, <2>1, SubDone DEF SubscribedInsert
<1>8. ASSUME Unsubscribe(t)
      PROVE  /\ Alone(t) /\ Loc(task[t]) = "unsubscribe"
             /\ Ends(t)
  <2>1. At(t, "unsubscribe") /\ "unsubscribe" \notin HashLocs \cup TopicLocs \cup SubLocs
    BY <1>8 DEF Unsubscribe, HashLocs, TopicLocs, SubLocs
  <2> QED
    BY <1>8, <2>1, LastDone DEF Unsubscribe
<1>9. ASSUME JoinVacant(t)
      PROVE  /\ Alone(t) /\ Loc(task[t]) = "join"
             /\ IF vacant # None THEN Ends(t) ELSE Continues(t, "join_populated")
  <2>1. At(t, "join") /\ "join" \notin HashLocs \cup TopicLocs \cup SubLocs
    BY <1>9 DEF JoinVacant, HashLocs, TopicLocs, SubLocs
  <2>2. CASE vacant # None
    BY <1>9, <2>1, <2>2, LastDone DEF JoinVacant
  <2>3. CASE ~(vacant # None)
    <3>1. Goto(t, "join_populated")
      BY <1>9, <2>3 DEF JoinVacant
    <3>2. SameTodo(task[t].op, "join", "join_populated")
      <4>1. Loc(task[t]) = "join" /\ Placed(task[t]) /\ task[t].op \in Ops
        BY <2>1, AtIs DEF TypeOK, Task, PlaceInv
      <4>2. "join" \in LastOf[task[t].op] \ SubLocs /\ "join_populated" \in LastOf[task[t].op]
        BY <4>1, OpOf DEF LastOf, JoinLocs, SubLocs, HashLocs
      <4> QED
        BY <4>2 DEF SameTodo
    <3> QED
      BY <2>1, <2>3, <3>1, <3>2, Went, AtIs
  <2> QED
    BY <2>2, <2>3
<1>10. ASSUME JoinPopulated(t)
      PROVE  /\ Alone(t) /\ Loc(task[t]) = "join_populated"
             /\ IF populated # None THEN Ends(t) ELSE Continues(t, "unreachable")
  <2>1. At(t, "join_populated") /\ "join_populated" \notin HashLocs \cup TopicLocs \cup SubLocs
    BY <1>10 DEF JoinPopulated, HashLocs, TopicLocs, SubLocs
  <2>2. CASE populated # None
    BY <1>10, <2>1, <2>2, LastDone DEF JoinPopulated
  <2>3. CASE ~(populated # None)
    <3>1. Goto(t, "unreachable")
      BY <1>10, <2>3 DEF JoinPopulated
    <3>2. SameTodo(task[t].op, "join_populated", "unreachable")
      <4>1. Loc(task[t]) = "join_populated" /\ Placed(task[t]) /\ task[t].op \in Ops
        BY <2>1, AtIs DEF TypeOK, Task, PlaceInv
      <4>2. "join_populated" \in LastOf[task[t].op] \ SubLocs /\ "unreachable" \in LastOf[task[t].op]
        BY <4>1, OpOf DEF LastOf, JoinLocs, SubLocs, HashLocs
      <4> QED
        BY <4>2 DEF SameTodo
    <3> QED
      BY <2>1, <2>3, <3>1, <3>2, Went, AtIs
  <2> QED
    BY <2>2, <2>3
<1>11. ASSUME LeaveVacant(t)
      PROVE  /\ Alone(t) /\ Loc(task[t]) = "leave"
             /\ IF vacant # None THEN Ends(t) ELSE Continues(t, "leave_populated")
  <2>1. At(t, "leave") /\ "leave" \notin HashLocs \cup TopicLocs \cup SubLocs
    BY <1>11 DEF LeaveVacant, HashLocs, TopicLocs, SubLocs
  <2>2. CASE vacant # None
    BY <1>11, <2>1, <2>2, LastDone DEF LeaveVacant
  <2>3. CASE ~(vacant # None)
    <3>1. Goto(t, "leave_populated")
      BY <1>11, <2>3 DEF LeaveVacant
    <3>2. SameTodo(task[t].op, "leave", "leave_populated")
      <4>1. Loc(task[t]) = "leave" /\ Placed(task[t]) /\ task[t].op \in Ops
        BY <2>1, AtIs DEF TypeOK, Task, PlaceInv
      <4>2. "leave" \in LastOf[task[t].op] \ SubLocs /\ "leave_populated" \in LastOf[task[t].op]
        BY <4>1, OpOf DEF LastOf, JoinLocs, SubLocs, HashLocs
      <4> QED
        BY <4>2 DEF SameTodo
    <3> QED
      BY <2>1, <2>3, <3>1, <3>2, Went, AtIs
  <2> QED
    BY <2>2, <2>3
<1>12. ASSUME LeavePopulated(t)
      PROVE  /\ Alone(t) /\ Loc(task[t]) = "leave_populated"
             /\ Ends(t)
  <2>1. At(t, "leave_populated") /\ "leave_populated" \notin HashLocs \cup TopicLocs \cup SubLocs
    BY <1>12 DEF LeavePopulated, HashLocs, TopicLocs, SubLocs
  <2> QED
    BY <1>12, <2>1, LastDone DEF LeavePopulated
<1>13. /\ TopicRemove(t) =>
           /\ Alone(t) /\ Loc(task[t]) = "insert_topic"
           /\ IF vacant # None
              THEN Continues(t, "topic_promote") /\ task'[t].held = vacant
              ELSE Continues(t, "topic_populated")
       /\ TopicPromote(t) =>
           /\ Alone(t) /\ Loc(task[t]) = "topic_promote"
           /\ Continues(t, "subscribe") /\ task'[t].held = None
       /\ ParticipantsPopulated(t) =>
           /\ Alone(t) /\ Loc(task[t]) = "get" /\ Continues(t, "get_vacant")
           /\ task'[t].found = (populated # None)
       /\ ParticipantsVacant(t) =>
           /\ Alone(t) /\ Loc(task[t]) = "get_vacant" /\ Loc(task'[t]) = "idle"
           /\ task'[t].op = "participants" /\ task'[t].held = None
           /\ task'[t].missed = (task[t].knew /\ ~task[t].found /\ vacant = None)
  BY RemoveMoves, PromoteMoves, GetMoves, GetVacantMoves
<1> QED
  BY <1>1, <1>2, <1>3, <1>4, <1>5, <1>6, <1>7, <1>8, <1>9, <1>10, <1>11,
     <1>12, <1>13 DEF TopicMoves

(* Where the steps of the message stores take their task.                   *)
MessageMoves(t) ==
  /\ InsertMessage(t) =>
       /\ Alone(t) /\ Loc(task[t]) = "insert_message"
       /\ IF messages # None THEN Ends(t) ELSE Continues(t, "insert_first")
  /\ InsertFirst(t) =>
       /\ Alone(t) /\ Loc(task[t]) = "insert_first"
       /\ Ends(t)
  /\ ClearMessage(t) =>
       /\ Alone(t) /\ Loc(task[t]) = "clear"
       /\ Ends(t)

LEMMA MessageMovesAre ==
  ASSUME TypeOK, PlaceInv, NEW t \in Tasks
  PROVE  MessageMoves(t)
<1>1. ASSUME InsertMessage(t)
      PROVE  /\ Alone(t) /\ Loc(task[t]) = "insert_message"
             /\ IF messages # None THEN Ends(t) ELSE Continues(t, "insert_first")
  <2>1. At(t, "insert_message") /\ "insert_message" \notin HashLocs \cup TopicLocs \cup SubLocs
    BY <1>1 DEF InsertMessage, HashLocs, TopicLocs, SubLocs
  <2>2. CASE messages # None
    BY <1>1, <2>1, <2>2, LastDone DEF InsertMessage
  <2>3. CASE ~(messages # None)
    <3>1. Goto(t, "insert_first")
      BY <1>1, <2>3 DEF InsertMessage
    <3>2. SameTodo(task[t].op, "insert_message", "insert_first")
      <4>1. Loc(task[t]) = "insert_message" /\ Placed(task[t]) /\ task[t].op \in Ops
        BY <2>1, AtIs DEF TypeOK, Task, PlaceInv
      <4>2. "insert_message" \in LastOf[task[t].op] \ SubLocs /\ "insert_first" \in LastOf[task[t].op]
        BY <4>1, OpOf DEF LastOf, JoinLocs, SubLocs, HashLocs
      <4> QED
        BY <4>2 DEF SameTodo
    <3> QED
      BY <2>1, <2>3, <3>1, <3>2, Went, AtIs
  <2> QED
    BY <2>2, <2>3
<1>2. ASSUME InsertFirst(t)
      PROVE  /\ Alone(t) /\ Loc(task[t]) = "insert_first"
             /\ Ends(t)
  <2>1. At(t, "insert_first") /\ "insert_first" \notin HashLocs \cup TopicLocs \cup SubLocs
    BY <1>2 DEF InsertFirst, HashLocs, TopicLocs, SubLocs
  <2> QED
    BY <1>2, <2>1, LastDone DEF InsertFirst
<1>3. ASSUME ClearMessage(t)
      PROVE  /\ Alone(t) /\ Loc(task[t]) = "clear"
             /\ Ends(t)
  <2>1. At(t, "clear") /\ "clear" \notin HashLocs \cup TopicLocs \cup SubLocs
    BY <1>3 DEF ClearMessage, HashLocs, TopicLocs, SubLocs
  <2> QED
    BY <1>3, <2>1, LastDone DEF ClearMessage
<1> QED
  BY <1>1, <1>2, <1>3 DEF MessageMoves


HistoryMoves(t) ==
  /\ PushFirst(t) =>
       /\ Alone(t) /\ Loc(task[t]) = "push_first"
       /\ Ends(t)
  /\ PushAppend(t) =>
       /\ Alone(t) /\ Loc(task[t]) = "push_append"
       /\ Ends(t)
  /\ RecordGet(t) =>
       /\ Alone(t) /\ Loc(task[t]) = "record"
       /\ IF history # None THEN Ends(t) ELSE Continues(t, "record_insert")
  /\ RecordInsert(t) =>
       /\ Alone(t) /\ Loc(task[t]) = "record_insert"
       /\ Ends(t)
  /\ ClearHistory(t) =>
       /\ Alone(t) /\ Loc(task[t]) = "clear_history"
       /\ Ends(t)
  /\ EmptyStore(t) =>
       /\ Alone(t) /\ Loc(task[t]) = "empty"
       /\ Ends(t)
  /\ PushGet(t) =>
       /\ Alone(t) /\ Loc(task[t]) = "push"
       /\ Continues(t, IF history = None THEN "push_first" ELSE "push_append")

LEMMA HistoryMovesAre ==
  ASSUME TypeOK, PlaceInv, NEW t \in Tasks
  PROVE  HistoryMoves(t)
<1>1. ASSUME PushFirst(t)
      PROVE  /\ Alone(t) /\ Loc(task[t]) = "push_first"
             /\ Ends(t)
  <2>1. At(t, "push_first") /\ "push_first" \notin HashLocs \cup TopicLocs \cup SubLocs
    BY <1>1 DEF PushFirst, HashLocs, TopicLocs, SubLocs
  <2> QED
    BY <1>1, <2>1, LastDone DEF PushFirst
<1>2. ASSUME PushAppend(t)
      PROVE  /\ Alone(t) /\ Loc(task[t]) = "push_append"
             /\ Ends(t)
  <2>1. At(t, "push_append") /\ "push_append" \notin HashLocs \cup TopicLocs \cup SubLocs
    BY <1>2 DEF PushAppend, HashLocs, TopicLocs, SubLocs
  <2> QED
    BY <1>2, <2>1, LastDone DEF PushAppend
<1>3. ASSUME RecordGet(t)
      PROVE  /\ Alone(t) /\ Loc(task[t]) = "record"
             /\ IF history # None THEN Ends(t) ELSE Continues(t, "record_insert")
  <2>1. At(t, "record") /\ "record" \notin HashLocs \cup TopicLocs \cup SubLocs
    BY <1>3 DEF RecordGet, HashLocs, TopicLocs, SubLocs
  <2>2. CASE history # None
    BY <1>3, <2>1, <2>2, LastDone DEF RecordGet
  <2>3. CASE ~(history # None)
    <3>1. Goto(t, "record_insert")
      BY <1>3, <2>3 DEF RecordGet
    <3>2. SameTodo(task[t].op, "record", "record_insert")
      <4>1. Loc(task[t]) = "record" /\ Placed(task[t]) /\ task[t].op \in Ops
        BY <2>1, AtIs DEF TypeOK, Task, PlaceInv
      <4>2. "record" \in LastOf[task[t].op] \ SubLocs /\ "record_insert" \in LastOf[task[t].op]
        BY <4>1, OpOf DEF LastOf, JoinLocs, SubLocs, HashLocs
      <4> QED
        BY <4>2 DEF SameTodo
    <3> QED
      BY <2>1, <2>3, <3>1, <3>2, Went, AtIs
  <2> QED
    BY <2>2, <2>3
<1>4. ASSUME RecordInsert(t)
      PROVE  /\ Alone(t) /\ Loc(task[t]) = "record_insert"
             /\ Ends(t)
  <2>1. At(t, "record_insert") /\ "record_insert" \notin HashLocs \cup TopicLocs \cup SubLocs
    BY <1>4 DEF RecordInsert, HashLocs, TopicLocs, SubLocs
  <2> QED
    BY <1>4, <2>1, LastDone DEF RecordInsert
<1>5. ASSUME ClearHistory(t)
      PROVE  /\ Alone(t) /\ Loc(task[t]) = "clear_history"
             /\ Ends(t)
  <2>1. At(t, "clear_history") /\ "clear_history" \notin HashLocs \cup TopicLocs \cup SubLocs
    BY <1>5 DEF ClearHistory, HashLocs, TopicLocs, SubLocs
  <2> QED
    BY <1>5, <2>1, LastDone DEF ClearHistory
<1>6. ASSUME EmptyStore(t)
      PROVE  /\ Alone(t) /\ Loc(task[t]) = "empty"
             /\ Ends(t)
  <2>1. At(t, "empty") /\ "empty" \notin HashLocs \cup TopicLocs \cup SubLocs
    BY <1>6 DEF EmptyStore, HashLocs, TopicLocs, SubLocs
  <2> QED
    BY <1>6, <2>1, LastDone DEF EmptyStore
<1>7. ASSUME PushGet(t)
      PROVE  /\ Alone(t) /\ Loc(task[t]) = "push"
             /\ Continues(t, IF history = None THEN "push_first" ELSE "push_append")
  <2>1. At(t, "push") /\ Loc(task[t]) = "push"
    BY <1>7, AtIs DEF PushGet
  <2>2. task[t].op = "push_message"
    BY <2>1, OpOf DEF TypeOK, Task, PlaceInv
  <2>3. /\ SameTodo(task[t].op, "push", "push_first")
        /\ SameTodo(task[t].op, "push", "push_append")
    BY <2>2 DEF SameTodo, LastOf, SubLocs
  <2>4. CASE history = None
    BY <1>7, <2>1, <2>3, <2>4, Went DEF PushGet
  <2>5. CASE history # None
    BY <1>7, <2>1, <2>3, <2>5, Went DEF PushGet
  <2> QED
    BY <2>4, <2>5
<1> QED
  BY <1>1, <1>2, <1>3, <1>4, <1>5, <1>6, <1>7 DEF HistoryMoves

(* A call begins, and the swarm answers.                                    *)
Starts == {"command", "insert_hash", "leave", "get", "clear", "push", "record",
           "clear_history", "empty"}

LEMMA Programs ==
  /\ Program("subscribe_topic") = <<"insert_hash", "subscribe", "insert_topic", "subscribe">>
  /\ Program("subscribe_topic_hash") = <<"insert_hash", "subscribe">>
  /\ Program("unsubscribe_topic_hash") = <<"unsubscribe">>
  /\ Program("publish_message") = <<"insert_message">>
  /\ Program("join_topic") = <<"insert_hash", "join">>
  /\ Program("leave_topic") = <<"leave">>
  /\ Program("participants") = <<"get">>
  /\ Program("clear_message") = <<"clear">>
  /\ Program("push_message") = <<"push">>
  /\ Program("insert_empty_record") = <<"record">>
  /\ Program("clear_history") = <<"clear_history">>
  /\ Program("empty_store") = <<"empty">>
BY DEF Program

LEMMA OneTodo ==
  ASSUME NEW r, NEW l \in LastOf[r.op], r.todo = <<l>>
  PROVE  Placed(r) /\ Loc(r) = l
BY Tuples DEF Placed, Loc

LEMMA ProgramPlaced ==
  ASSUME NEW r, r.op \in Ops, r.todo = Program(r.op)
  PROVE  /\ Placed(r)
         /\ r.op \notin AsksSwarm => Loc(r) \in Starts
         /\ r.op \in SubOps => Loc(r) = "insert_hash"
         /\ r.op = "unsubscribe_topic_hash" => Loc(r) = "unsubscribe"
         /\ r.op = "publish_message" => Loc(r) = "insert_message"
<1>1. CASE r.op = "subscribe_topic"
  <2>1. r.todo = <<"insert_hash", "subscribe", "insert_topic", "subscribe">>
        /\ "insert_hash" \in HashLocs
    BY <1>1, Programs DEF HashLocs
  <2>2. Placed(r)
    BY <1>1, <2>1 DEF Placed
  <2>3. Loc(r) = "insert_hash"
    BY <2>1, Tuples DEF Loc
  <2> QED
    BY <1>1, <2>2, <2>3 DEF AsksSwarm, SubOps
<1>2. CASE r.op = "subscribe_topic_hash"
  <2>1. r.todo = <<"insert_hash", "subscribe">> /\ "insert_hash" \in HashLocs
    BY <1>2, Programs DEF HashLocs
  <2>2. Placed(r)
    BY <1>2, <2>1 DEF Placed
  <2>3. Loc(r) = "insert_hash"
    BY <2>1, Tuples DEF Loc
  <2> QED
    BY <1>2, <2>2, <2>3 DEF AsksSwarm, SubOps
<1>3. CASE r.op = "join_topic"
  <2>1. r.todo = <<"insert_hash", "join">> /\ "insert_hash" \in HashLocs
    BY <1>3, Programs DEF HashLocs
  <2>2. Placed(r)
    BY <1>3, <2>1 DEF Placed
  <2>3. Loc(r) = "insert_hash"
    BY <2>1, Tuples DEF Loc
  <2> QED
    BY <1>3, <2>2, <2>3 DEF Starts, SubOps
<1>4. CASE r.op \notin SubOps \cup {"join_topic"}
  <2>1. \E l \in LastOf[r.op] :
          /\ r.todo = <<l>>
          /\ r.op \notin AsksSwarm => l \in Starts
          /\ r.op = "unsubscribe_topic_hash" => l = "unsubscribe"
          /\ r.op = "publish_message" => l = "insert_message"
    BY <1>4, Programs DEF Ops, SubOps, LastOf, AsksSwarm, Starts
  <2> QED
    BY <1>4, <2>1, OneTodo
<1> QED
  BY <1>1, <1>2, <1>3, <1>4 DEF SubOps

LEMMA CallMoves ==
  ASSUME TypeOK, PlaceInv, NEW t \in Tasks, NEW op \in Ops,
         NEW arg \in Peers \cup Messages \cup {None}, Call(t, op, arg),
         op \in {"join_topic", "leave_topic"} => arg \in Peers,
         op \in {"publish_message", "push_message"} => arg \in Messages
  PROVE  /\ Alone(t) /\ Loc(task[t]) = "idle" /\ Loc(task'[t]) \in Starts
         /\ task'[t].op = op /\ task'[t].knew = known /\ ~task'[t].missed
         /\ op \in AsksSwarm => Loc(task'[t]) = "command"
<1> DEFINE q == IF op \in AsksSwarm THEN <<"command">> ELSE Program(op)
           s == [Idle EXCEPT !.op = op, !.arg = arg, !.knew = known, !.todo = q]
<1>1. Becomes(t, s)
  BY DEF Call
<1>2. Loc(task[t]) = "idle"
  BY DEF Call, Busy, Loc
<1>3. /\ s.op = op /\ s.arg = arg /\ s.knew = known /\ s.todo = q
      /\ s.held = None /\ s.missed = FALSE
  BY DEF Idle
<1> HIDE DEF s
<1>4. Placed(s) /\ Loc(s) \in Starts /\ (op \in AsksSwarm => Loc(s) = "command")
  <2>1. CASE op \in AsksSwarm
    <3>1. "command" \in LastOf[op]
      BY <2>1 DEF LastOf, AsksSwarm
    <3> QED
      BY <1>3, <2>1, <3>1, OneTodo DEF Starts
  <2>2. CASE op \notin AsksSwarm
    BY <1>3, <2>2, ProgramPlaced
  <2> QED
    BY <2>1, <2>2
<1>5. q \in Todos
  BY <1>3, <1>4, PlacedTodo
<1> HIDE DEF q
<1>6. s \in Task
  BY <1>5, IdleIs DEF s, Task, Todos, TypeOK
<1>7. ArgOK(s)
  BY <1>3 DEF ArgOK
<1>8. task' \in [Tasks -> Task] /\ task'[t] = s
      /\ \A u \in Tasks : u # t => task'[u] = task[u]
  BY <1>1, <1>6, Became
<1> QED
  BY <1>1, <1>2, <1>3, <1>4, <1>7, <1>8 DEF Alone, Becomes, Starts

LEMMA AnsweredMoves ==
  ASSUME TypeOK, PlaceInv, NEW t \in Tasks, At(t, "command"),
         NEW changed \in BOOLEAN, Answered(t, changed)
  PROVE  /\ Alone(t) /\ Loc(task[t]) = "command"
         /\ IF ~changed THEN Ends(t)
            ELSE /\ task[t].op \in SubOps => Continues(t, "insert_hash")
                 /\ task[t].op = "unsubscribe_topic_hash" => Continues(t, "unsubscribe")
                 /\ task[t].op = "publish_message" => Continues(t, "insert_message")
<1> DEFINE r == task[t]
           q == Program(r.op)
           s == [r EXCEPT !.todo = q]
<1>1. r \in Task /\ r.op \in Ops /\ Placed(r)
  BY DEF TypeOK, Task, PlaceInv
<1>2. Loc(r) = "command" /\ "command" \notin HashLocs \cup TopicLocs \cup SubLocs
  BY AtIs DEF HashLocs, TopicLocs, SubLocs
<1>3. CASE ~changed
  <2>1. Done(t)
    BY <1>3 DEF Answered
  <2> QED
    BY <1>2, <1>3, <2>1, LastDone
<1>4. CASE changed
  <2>1. Becomes(t, s)
    BY <1>4 DEF Answered
  <2>2. /\ s.op = r.op /\ s.todo = q /\ s.arg = r.arg /\ s.knew = r.knew
        /\ s.missed = r.missed /\ s.held = r.held
    BY <1>1 DEF Task
  <2> HIDE DEF s
  <2>3. /\ Placed(s)
        /\ r.op \in SubOps => Loc(s) = "insert_hash"
        /\ r.op = "unsubscribe_topic_hash" => Loc(s) = "unsubscribe"
        /\ r.op = "publish_message" => Loc(s) = "insert_message"
    BY <1>1, <2>2, ProgramPlaced
  <2>4. r.op \in SubOps \cup {"unsubscribe_topic_hash", "publish_message"}
    <3>1. "command" \in LastOf[r.op]
      BY <1>1, <1>2, OpAt
    <3> QED
      BY <1>1, <3>1 DEF LastOf, Ops, SubOps, SubLocs, JoinLocs
  <2>5. q \in Todos
    BY <1>1, <2>2, <2>3, PlacedTodo
  <2>6. s \in Task
    BY <1>1, <2>5 DEF s, Task, Todos
  <2> HIDE DEF q
  <2>7. Alone(t) /\ Continues(t, Loc(s))
    BY <1>2, <2>1, <2>2, <2>3, <2>4, <2>6, Rewritten, HoldsNone
  <2> QED
    BY <1>2, <1>4, <2>3, <2>7
<1> QED
  BY <1>3, <1>4

-----------------------------------------------------------------------------
(* raced has the overlaps of the moment after every step.                   *)

LEMMA Overlapped ==
  ASSUME NEW u \in Tasks, NEW v \in Tasks, u # v, Racing' \subseteq raced',
         Loc(task'[u]) # "idle", Loc(task'[v]) # "idle",
         NEW a \in {task'[u].op, PartOf[Loc(task'[u])]},
         NEW b \in {task'[v].op, PartOf[Loc(task'[v])]}, {a, b} \in Overlaps
  PROVE  {a, b} \in raced'
<1>1. u \in Busy' /\ v \in Busy' \ {u}
  BY DEF Busy, Loc
<1>2. a \in In(u)' /\ b \in In(v)'
  BY <1>1 DEF In, Loc
<1> DEFINE From(x) == UNION {{{c, d} : c \in In(x)', d \in In(y)'} : y \in Busy' \ {x}}
<1>3. {a, b} \in {{c, d} : c \in In(u)', d \in In(v)'}
  BY <1>2
<1>4. {a, b} \in From(u)
  BY <1>1, <1>3
<1> HIDE DEF From
<1>5. {a, b} \in UNION {From(x) : x \in Busy'}
  BY <1>1, <1>4
<1>6. {a, b} \in Racing'
  BY <1>5 DEF Racing, From
<1> QED
  BY <1>6

LEMMA OverlapsHas ==
  /\ {"insert_hash", "insert_hash"} \in Overlaps
  /\ {"insert_hash", "insert_hash"} = {"insert_hash"}
  /\ {"insert_topic", "insert_topic"} \in Overlaps
  /\ {"insert_topic", "insert_topic"} = {"insert_topic"}
  /\ {"insert_hash", "insert_topic"} \in Overlaps
  /\ {"leave", "insert_topic"} \in Overlaps
  /\ {"insert_first", "insert_first"} \in Overlaps
  /\ {"insert_first", "insert_first"} = {"insert_first"}
  /\ {"push", "record"} \in Overlaps /\ {"push", "empty"} \in Overlaps
  /\ \A op \in SubOps : {"unsubscribe_topic_hash", op} \in Overlaps
BY DEF Overlaps, FirstInserts, Demotes, WhileLeaving, Unordered, FirstMessages,
       WhilePushing, SubOps

LEMMA ClashesKept ==
  ASSUME NEW u \in Tasks, NEW v \in Tasks, u # v, Racing' \subseteq raced'
  PROVE  Clashes(task[u], task[v])'
<1> DEFINE r == task'[u]
           s == task'[v]
<1>0. /\ \A l \in HashLocs : l # "idle" /\ PartOf[l] = "insert_hash"
      /\ \A l \in TopicLocs : l # "idle" /\ PartOf[l] = "insert_topic"
  BY Parts DEF HashLocs, TopicLocs
<1> HIDE DEF r, s
<1>k. ASSUME NEW a \in {r.op, PartOf[Loc(r)]}, NEW b \in {s.op, PartOf[Loc(s)]},
             {a, b} \in Overlaps, Loc(r) # "idle", Loc(s) # "idle"
      PROVE  {a, b} \in raced'
  BY <1>k, Overlapped DEF r, s
<1>1. Loc(r) \in HashLocs /\ Loc(s) \in HashLocs => {"insert_hash"} \in raced'
  BY <1>0, <1>k, OverlapsHas
<1>2. Loc(r) \in TopicLocs /\ Loc(s) \in TopicLocs => {"insert_topic"} \in raced'
  BY <1>0, <1>k, OverlapsHas
<1>3. Loc(r) \in HashLocs /\ Loc(s) \in TopicLocs => Demotes \in raced'
  BY <1>0, <1>k, OverlapsHas DEF Demotes
<1>4. Loc(r) \in {"leave", "leave_populated"} /\ Loc(s) \in TopicLocs
      => WhileLeaving \in raced'
  <2>1. \A l \in {"leave", "leave_populated"} : l # "idle" /\ PartOf[l] = "leave"
    BY Parts
  <2> QED
    BY <1>0, <1>k, <2>1, OverlapsHas DEF WhileLeaving
<1>5. /\ r.op = "unsubscribe_topic_hash" /\ s.op \in SubOps
      /\ Loc(r) # "idle" /\ Loc(s) # "idle"
      => raced' \cap Unordered # {}
  <2>1. ASSUME r.op = "unsubscribe_topic_hash", s.op \in SubOps,
               Loc(r) # "idle", Loc(s) # "idle"
        PROVE  {"unsubscribe_topic_hash", s.op} \in raced'
    BY <1>k, <2>1, OverlapsHas
  <2>2. \A op \in SubOps : {"unsubscribe_topic_hash", op} \in Unordered
    BY DEF SubOps, Unordered
  <2> QED
    BY <2>1, <2>2
<1>6. Loc(r) = "insert_first" /\ Loc(s) = "insert_first" => FirstMessages \in raced'
  <2>1. PartOf["insert_first"] = "insert_first"
    BY Parts
  <2> QED
    BY <1>k, <2>1, OverlapsHas DEF FirstMessages
<1>7. /\ Loc(r) \in {"push", "push_first", "push_append"}
      /\ Loc(s) \in {"record", "record_insert", "empty"}
      => raced' \cap WhilePushing # {}
  <2>1. /\ \A l \in {"push", "push_first", "push_append"} :
             l # "idle" /\ PartOf[l] = "push"
        /\ \A l \in {"record", "record_insert"} : l # "idle" /\ PartOf[l] = "record"
        /\ PartOf["empty"] = "empty"
    BY Parts
  <2>2. CASE Loc(s) \in {"record", "record_insert"}
    BY <1>k, <2>1, <2>2, OverlapsHas DEF WhilePushing
  <2>3. CASE Loc(s) = "empty"
    BY <1>k, <2>1, <2>3, OverlapsHas DEF WhilePushing
  <2> QED
    BY <2>2, <2>3
<1> QED
  BY <1>1, <1>2, <1>3, <1>4, <1>5, <1>6, <1>7 DEF Clashes, r, s

-----------------------------------------------------------------------------
(* The steps, by the store they are about.                                  *)

Step(t) == Calls(t) \/ Swarm(t) \/ TopicStore(t) \/ MessageStore(t) \/ History(t)

LEMMA CallsMove ==
  ASSUME TypeOK, PlaceInv, NEW t \in Tasks, Calls(t)
  PROVE  /\ Alone(t) /\ Loc(task[t]) = "idle" /\ Loc(task'[t]) \in Starts
         /\ task'[t].knew = known /\ ~task'[t].missed
         /\ task'[t].op \in AsksSwarm => Loc(task'[t]) = "command"
         /\ task'[t].op = "push_message"
            => \A u \in Tasks : task[u].op # "push_message"
         /\ calls' \in 0 .. MaxCalls
         /\ UNCHANGED <<storeVars, messages, live, pastVars, historyVars>>
<1>1. ASSUME NEW op \in Ops, NEW arg \in Peers \cup Messages \cup {None},
             Call(t, op, arg),
             op \in {"join_topic", "leave_topic"} => arg \in Peers,
             op \in {"publish_message", "push_message"} => arg \in Messages,
             op = "push_message" => \A u \in Busy : task[u].op # "push_message"
      PROVE  /\ Alone(t) /\ Loc(task[t]) = "idle" /\ Loc(task'[t]) \in Starts
             /\ task'[t].knew = known /\ ~task'[t].missed
             /\ task'[t].op \in AsksSwarm => Loc(task'[t]) = "command"
             /\ task'[t].op = "push_message"
                => \A u \in Tasks : task[u].op # "push_message"
             /\ calls' \in 0 .. MaxCalls
             /\ UNCHANGED <<storeVars, messages, live, pastVars, historyVars>>
  <2>1. /\ Alone(t) /\ Loc(task[t]) = "idle" /\ Loc(task'[t]) \in Starts
        /\ task'[t].op = op /\ task'[t].knew = known /\ ~task'[t].missed
        /\ op \in AsksSwarm => Loc(task'[t]) = "command"
    BY <1>1, CallMoves
  <2>2. ASSUME NEW u \in Tasks, u \notin Busy
        PROVE  task[u].op # "push_message"
    <3>1. task[u].op \in Ops /\ Placed(task[u]) /\ Loc(task[u]) = "idle"
      BY <2>2 DEF TypeOK, Task, PlaceInv, Busy, Loc
    <3> QED
      BY <3>1, OpAt
  <2>3. calls' \in 0 .. MaxCalls
    BY <1>1, MaxCallsAssumption DEF Call, TypeOK
  <2>4. UNCHANGED <<storeVars, messages, live, pastVars, historyVars>>
    BY <1>1 DEF Call
  <2> QED
    BY <1>1, <2>1, <2>2, <2>3, <2>4
<1>2. CASE \E op \in {"subscribe_topic", "subscribe_topic_hash",
                      "unsubscribe_topic_hash", "participants", "clear_message",
                      "insert_empty_record", "clear_history", "empty_store"} :
             Call(t, op, None)
  BY <1>1, <1>2 DEF Ops
<1>3. CASE \E op \in {"join_topic", "leave_topic"}, p \in Peers : Call(t, op, p)
  BY <1>1, <1>3 DEF Ops
<1>4. CASE \E m \in Messages : Call(t, "publish_message", m)
  BY <1>1, <1>4 DEF Ops
<1>5. CASE \E m \in Messages : Listener(t, m)
  BY <1>1, <1>5 DEF Ops, Listener
<1> QED
  BY <1>2, <1>3, <1>4, <1>5 DEF Calls

LEMMA SwarmMoves ==
  ASSUME TypeOK, PlaceInv, NEW t \in Tasks, Swarm(t)
  PROVE  /\ Alone(t) /\ Loc(task[t]) = "command"
         /\ \/ UNCHANGED live /\ Ends(t)
            \/ /\ task[t].op \in SubOps /\ ~live /\ live'
               /\ Continues(t, "insert_hash")
            \/ /\ task[t].op = "unsubscribe_topic_hash" /\ live /\ ~live'
               /\ Continues(t, "unsubscribe")
            \/ /\ task[t].op = "publish_message" /\ UNCHANGED live
               /\ Continues(t, "insert_message")
         /\ live' \in BOOLEAN
         /\ UNCHANGED <<storeVars, messages, calls, pastVars, historyVars>>
<1>0. live \in BOOLEAN
  BY DEF TypeOK
<1>1. CASE SubscribeTopic(t)
  <2>1. PICK ok \in BOOLEAN : live' = (live \/ ok) /\ Answered(t, ~live /\ ok)
    BY <1>1 DEF SubscribeTopic
  <2>2. At(t, "command") /\ task[t].op \in SubOps
    BY <1>1 DEF SubscribeTopic, SubOps
  <2>3. UNCHANGED <<storeVars, messages, calls, pastVars, historyVars>>
    BY <1>1 DEF SubscribeTopic
  <2>4. CASE ~live /\ ok
    <3>1. Answered(t, TRUE)
      BY <2>1, <2>4
    <3>2. Alone(t) /\ Loc(task[t]) = "command" /\ Continues(t, "insert_hash")
      BY <2>2, <3>1, AnsweredMoves
    <3>3. live' = TRUE
      BY <2>1, <2>4
    <3> QED
      BY <2>2, <2>3, <2>4, <3>2, <3>3
  <2>5. CASE ~(~live /\ ok)
    <3>1. Answered(t, FALSE)
      BY <2>1, <2>5
    <3>2. Alone(t) /\ Loc(task[t]) = "command" /\ Ends(t)
      BY <2>2, <3>1, AnsweredMoves
    <3>3. live' = live
      BY <1>0, <2>1, <2>5
    <3> QED
      BY <1>0, <2>3, <3>2, <3>3
  <2> QED
    BY <2>4, <2>5
<1>2. CASE UnsubscribeTopic(t)
  <2>1. /\ At(t, "command") /\ task[t].op = "unsubscribe_topic_hash"
        /\ live' = FALSE /\ Answered(t, live)
        /\ UNCHANGED <<storeVars, messages, calls, pastVars, historyVars>>
    BY <1>2 DEF UnsubscribeTopic
  <2>2. /\ Alone(t) /\ Loc(task[t]) = "command"
        /\ IF live THEN Continues(t, "unsubscribe") ELSE Ends(t)
    BY <1>0, <2>1, AnsweredMoves
  <2> QED
    BY <1>0, <2>1, <2>2
<1>3. CASE PublishMessage(t)
  <2>1. /\ At(t, "command") /\ task[t].op = "publish_message"
        /\ UNCHANGED <<storeVars, messages, live, calls, pastVars, historyVars>>
    BY <1>3 DEF PublishMessage
  <2>2. PICK ok \in BOOLEAN : Answered(t, ok)
    BY <1>3 DEF PublishMessage
  <2>3. /\ Alone(t) /\ Loc(task[t]) = "command"
        /\ Continues(t, "insert_message") \/ Ends(t)
    BY <2>1, <2>2, AnsweredMoves
  <2> QED
    BY <1>0, <2>1, <2>3
<1> QED
  BY <1>1, <1>2, <1>3 DEF Swarm

LEMMA StepAlone ==
  ASSUME TypeOK, PlaceInv, NEW t \in Tasks, Step(t)
  PROVE  Alone(t)
<1>1. CASE TopicStore(t)
  BY <1>1, TopicMovesAre DEF TopicStore, TopicMoves
<1>2. CASE MessageStore(t)
  BY <1>2, MessageMovesAre DEF MessageStore, MessageMoves
<1>3. CASE History(t)
  BY <1>3, HistoryMovesAre DEF History, HistoryMoves
<1> QED
  BY <1>1, <1>2, <1>3, CallsMove, SwarmMoves DEF Step

LEMMA TopicFrame ==
  ASSUME NEW t \in Tasks, TopicStore(t)
  PROVE  UNCHANGED <<messages, live, calls, expected, history, pushed>>
BY DEF TopicStore, HashVacant, HashPopulated, HashInsert, TopicRemove, TopicPromote,
       TopicPopulated, TopicInsert, SubscribedContains, SubscribedInsert,
       Unsubscribe, JoinVacant, JoinPopulated, LeaveVacant, LeavePopulated,
       ParticipantsPopulated, ParticipantsVacant, storeVars, pastVars, historyVars

LEMMA MessageFrame ==
  ASSUME NEW t \in Tasks, MessageStore(t)
  PROVE  UNCHANGED <<vacant, populated, subscribed, live, calls, known, members,
                     history, pushed>>
BY DEF MessageStore, InsertMessage, InsertFirst, ClearMessage, storeVars, historyVars

LEMMA HistoryFrame ==
  ASSUME NEW t \in Tasks, History(t)
  PROVE  UNCHANGED <<vacant, populated, subscribed, messages, live, calls, known,
                     members, expected>>
BY DEF History, PushGet, PushFirst, PushAppend, RecordGet, RecordInsert,
       ClearHistory, EmptyStore, storeVars, pastVars, historyVars

(* A step goes on with the call of its task, ends it, or begins one.        *)
LEMMA StepOp ==
  ASSUME TypeOK, PlaceInv, NEW t \in Tasks, Step(t), ~Calls(t)
  PROVE  task'[t].op \in {task[t].op, "participants"}
<1>1. CASE TopicStore(t)
  BY <1>1, TopicMovesAre, IdleIs
     DEF TopicStore, TopicMoves, Hashed, Continues, Ends
<1>2. CASE MessageStore(t)
  BY <1>2, MessageMovesAre, IdleIs DEF MessageStore, MessageMoves, Continues, Ends
<1>3. CASE History(t)
  BY <1>3, HistoryMovesAre, IdleIs DEF History, HistoryMoves, Continues, Ends
<1>4. CASE Swarm(t)
  BY <1>4, SwarmMoves, IdleIs DEF Continues, Ends
<1> QED
  BY <1>1, <1>2, <1>3, <1>4 DEF Step

(* Only a task that is in the middle of a call takes another step of it.    *)
LEMMA StepBusy ==
  ASSUME NEW t \in Tasks, Step(t), ~Calls(t)
  PROVE  t \in Busy
<1>1. ASSUME NEW l, At(t, l)
      PROVE  t \in Busy
  BY <1>1 DEF At
<1>2. CASE Swarm(t)
  BY <1>1, <1>2 DEF Swarm, SubscribeTopic, UnsubscribeTopic, PublishMessage
<1>3. CASE TopicStore(t)
  BY <1>1, <1>3
     DEF TopicStore, HashVacant, HashPopulated, HashInsert, TopicRemove,
         TopicPromote, TopicPopulated, TopicInsert, SubscribedContains,
         SubscribedInsert, Unsubscribe, JoinVacant, JoinPopulated, LeaveVacant,
         LeavePopulated, ParticipantsPopulated, ParticipantsVacant
<1>4. CASE MessageStore(t)
  BY <1>1, <1>4 DEF MessageStore, InsertMessage, InsertFirst, ClearMessage
<1>5. CASE History(t)
  BY <1>1, <1>5
     DEF History, PushGet, PushFirst, PushAppend, RecordGet, RecordInsert,
         ClearHistory, EmptyStore
<1> QED
  BY <1>2, <1>3, <1>4, <1>5 DEF Step

LEMMA PlaceKept ==
  ASSUME TypeOK, PlaceInv, NEW t \in Tasks, Step(t)
  PROVE  PlaceInv'
<1>1. Alone(t)
  BY StepAlone
<1>2. ASSUME NEW u \in Tasks
      PROVE  (Placed(task[u]) /\ ArgOK(task[u]))'
  <2>1. Placed(task'[u]) /\ ArgOK(task'[u])
    BY <1>1 DEF Alone, PlaceInv
  <2>2. Placed(task[u])'
    BY <2>1, Zenon
  <2>3. ArgOK(task[u])'
    BY <2>1 DEF ArgOK
  <2> QED
    BY <2>2, <2>3
<1>3. ASSUME NEW u \in Tasks, NEW v \in Tasks,
             task'[u].op = "push_message", task'[v].op = "push_message"
      PROVE  u = v
  <2>1. CASE Calls(t)
    BY <1>1, <1>3, <2>1, CallsMove DEF Alone, PlaceInv
  <2>2. CASE ~Calls(t)
    BY <1>1, <1>3, <2>2, StepOp DEF Alone, PlaceInv
  <2> QED
    BY <2>1, <2>2
<1>4. ASSUME NEW u \in Tasks, NEW v \in Tasks, u # v
      PROVE  Clashes(task[u], task[v])'
  BY <1>1, <1>4, ClashesKept DEF Alone
<1> QED
  BY <1>2, <1>3, <1>4 DEF PlaceInv

-----------------------------------------------------------------------------
(* Types.                                                                   *)

StoreOK(store) ==
  store = None \/ \E l \in store : store = {l} /\ l \in Seq(Messages)

LEMMA ListsOK ==
  ASSUME NEW h \in Held, NEW p \in Peers
  PROVE  /\ {l \cup {p} : l \in h} \in Held
         /\ {l \ {p} : l \in h} \in Held
         /\ {l \cup {p} : l \in h} = None <=> h = None
         /\ {l \ {p} : l \in h} = None <=> h = None
<1>1. CASE h = None
  BY <1>1 DEF None, Held
<1>2. CASE h # None
  <2>1. PICK l \in SUBSET Peers : h = {l}
    BY <1>2 DEF Held
  <2>2. {x \cup {p} : x \in h} = {l \cup {p}} /\ {x \ {p} : x \in h} = {l \ {p}}
    BY <2>1
  <2>3. l \cup {p} \in SUBSET Peers /\ l \ {p} \in SUBSET Peers
    OBVIOUS
  <2> QED
    BY <1>2, <2>2, <2>3 DEF Held, None
<1> QED
  BY <1>1, <1>2

LEMMA AppendsOK ==
  ASSUME NEW store, StoreOK(store), NEW m \in Messages
  PROVE  /\ StoreOK({Append(l, m) : l \in store})
         /\ {Append(l, m) : l \in store} = None <=> store = None
<1>1. CASE store = None
  BY <1>1 DEF StoreOK, None
<1>2. CASE store # None
  <2>1. PICK l \in store : store = {l} /\ l \in Seq(Messages)
    BY <1>2 DEF StoreOK
  <2>2. {Append(x, m) : x \in store} = {Append(l, m)}
    BY <2>1
  <2>3. Append(l, m) \in Seq(Messages)
    BY <2>1
  <2> QED
    BY <1>2, <2>2, <2>3 DEF StoreOK, None
<1> QED
  BY <1>1, <1>2

LEMMA AppendsSome ==
  ASSUME NEW store, StoreOK(store), NEW m \in Messages
  PROVE  {Append(l, m) : l \in store} # {<<>>}
<1> SUFFICES ASSUME {Append(l, m) : l \in store} = {<<>>}
             PROVE  FALSE
  OBVIOUS
<1>1. PICK l \in store : Append(l, m) = <<>>
  <2>1. <<>> \in {Append(l, m) : l \in store}
    OBVIOUS
  <2> QED
    BY <2>1
<1>2. l \in Seq(Messages)
  BY DEF StoreOK, None
<1>3. Len(Append(l, m)) = Len(l) + 1 /\ Len(l) \in Nat
  BY <1>2
<1>4. Len(Append(l, m)) # 0
  BY <1>3
<1> QED
  BY <1>1, <1>4

LEMMA StoresHas ==
  /\ StoreOK(None) /\ StoreOK({<<>>})
  /\ \A m \in Messages : StoreOK({<<m>>}) /\ {<<m>>} # {<<>>}
  /\ \A store : StoreOK(store) => StoreOK({<<>> : l \in store})
<1>1. <<>> \in Seq(Messages) /\ \A m \in Messages : <<m>> \in Seq(Messages)
  OBVIOUS
<1>5. ASSUME NEW m \in Messages
      PROVE  {<<m>>} # {<<>>}
  <2>1. <<m>> # <<>>
    OBVIOUS
  <2> QED
    BY <2>1
<1>2. StoreOK(None)
  BY DEF StoreOK
<1>3. StoreOK({<<>>}) /\ \A m \in Messages : StoreOK({<<m>>})
  BY <1>1 DEF StoreOK
<1>4. ASSUME NEW store, StoreOK(store)
      PROVE  StoreOK({<<>> : l \in store})
  <2>1. CASE store = None
    BY <2>1, <1>2 DEF None
  <2>2. CASE store # None
    <3>1. {<<>> : l \in store} = {<<>>}
      BY <2>2 DEF None
    <3> QED
      BY <1>3, <3>1
  <2> QED
    BY <2>1, <2>2
<1> QED
  BY <1>2, <1>3, <1>4, <1>5

LEMMA HeldHas == {{}} \in Held /\ None \in Held /\ {{}} # None
BY DEF Held, None

(* The parts of TypeOK that the stores' steps can disturb.                  *)
TopicType ==
  /\ vacant \in Held /\ populated \in Held
  /\ subscribed \in BOOLEAN /\ known \in BOOLEAN /\ members \subseteq Peers
MessageType ==
  expected \in Seq(Messages) /\ StoreOK(messages) /\ messages # {<<>>}
HistoryType == pushed \in Seq(Messages) /\ StoreOK(history)

LEMMA TypeParts ==
  ASSUME TypeOK
  PROVE  TopicType /\ MessageType /\ HistoryType
BY DEF TypeOK, TopicType, MessageType, HistoryType, StoreOK, Held

LEMMA TopicTypeKept ==
  ASSUME TypeOK, PlaceInv, NEW t \in Tasks, TopicStore(t)
  PROVE  TopicType'
<1> USE TypeParts DEF TopicType
<1>0. /\ task[t] \in Task /\ Placed(task[t]) /\ ArgOK(task[t])
      /\ task[t].held \in Held /\ task[t].op \in Ops
  BY DEF TypeOK, PlaceInv, Task, Held
<1>1. CASE \/ HashVacant(t) \/ HashPopulated(t) \/ TopicPopulated(t)
           \/ SubscribedContains(t) \/ ParticipantsPopulated(t)
           \/ ParticipantsVacant(t)
  BY <1>1 DEF HashVacant, HashPopulated, TopicPopulated, SubscribedContains,
              ParticipantsPopulated, ParticipantsVacant, storeVars, pastVars
<1>2. CASE HashInsert(t) \/ TopicInsert(t) \/ TopicPromote(t) \/ TopicRemove(t)
  BY <1>0, <1>2, HeldHas
     DEF HashInsert, TopicInsert, TopicPromote, TopicRemove, pastVars
<1>3. CASE SubscribedInsert(t) \/ Unsubscribe(t)
  BY <1>3 DEF SubscribedInsert, Unsubscribe, pastVars
<1>4. CASE JoinVacant(t) \/ JoinPopulated(t)
  <2>1. Loc(task[t]) \in JoinLocs
    BY <1>4, TopicMovesAre DEF TopicMoves, JoinLocs
  <2>2. task[t].arg \in Peers
    BY <1>0, <2>1, OpOf DEF ArgOK
  <2> DEFINE V == {l \cup {task[t].arg} : l \in vacant}
             P == {l \cup {task[t].arg} : l \in populated}
  <2>3. V \in Held /\ P \in Held
    BY <2>2, ListsOK
  <2>4. /\ vacant' \in {V, vacant} /\ populated' \in {P, populated}
        /\ members' \in {members, members \cup {task[t].arg}}
        /\ UNCHANGED <<subscribed, known>>
    BY <1>4 DEF JoinVacant, JoinPopulated
  <2> HIDE DEF V, P
  <2> QED
    BY <2>2, <2>3, <2>4
<1>5. CASE LeaveVacant(t) \/ LeavePopulated(t)
  <2>1. Loc(task[t]) \in {"leave", "leave_populated"}
    BY <1>5, TopicMovesAre DEF TopicMoves
  <2>2. task[t].arg \in Peers
    BY <1>0, <2>1, OpOf DEF ArgOK
  <2> DEFINE V == {l \ {task[t].arg} : l \in vacant}
             P == {l \ {task[t].arg} : l \in populated}
  <2>3. V \in Held /\ P \in Held
    BY <2>2, ListsOK
  <2>4. /\ vacant' \in {V, vacant} /\ populated' \in {P, populated}
        /\ members' \in {members, members \ {task[t].arg}}
        /\ UNCHANGED <<subscribed, known>>
    BY <1>5 DEF LeaveVacant, LeavePopulated
  <2> HIDE DEF V, P
  <2> QED
    BY <2>2, <2>3, <2>4
<1> QED
  BY <1>1, <1>2, <1>3, <1>4, <1>5 DEF TopicStore

LEMMA MessageArg ==
  ASSUME TypeOK, PlaceInv, NEW t \in Tasks
  PROVE  /\ InsertMessage(t) \/ InsertFirst(t) => task[t].arg \in Messages
         /\ PushFirst(t) \/ PushAppend(t) => task[t].arg \in Messages
<1>1. Placed(task[t]) /\ ArgOK(task[t]) /\ task[t].op \in Ops
  BY DEF TypeOK, PlaceInv, Task
<1>2. InsertMessage(t) \/ InsertFirst(t)
      => Loc(task[t]) \in {"insert_message", "insert_first"}
  BY MessageMovesAre DEF MessageMoves
<1>3. PushFirst(t) \/ PushAppend(t) => Loc(task[t]) \in {"push_first", "push_append"}
  BY HistoryMovesAre DEF HistoryMoves
<1> QED
  BY <1>1, <1>2, <1>3, OpOf DEF ArgOK

LEMMA MessageTypeKept ==
  ASSUME TypeOK, PlaceInv, NEW t \in Tasks, MessageStore(t)
  PROVE  MessageType'
<1> USE TypeParts DEF MessageType
<1>1. CASE InsertMessage(t)
  <2> DEFINE S == {Append(l, task[t].arg) : l \in messages}
  <2>1. StoreOK(S)
    BY <1>1, MessageArg, AppendsOK
  <2>2. S # {<<>>}
    BY <1>1, MessageArg, AppendsSome
  <2>3. /\ messages' \in {messages, S}
        /\ expected' \in {expected, Append(expected, task[t].arg)}
    BY <1>1 DEF InsertMessage
  <2> HIDE DEF S
  <2> QED
    BY <1>1, <2>1, <2>2, <2>3, MessageArg
<1>2. CASE InsertFirst(t)
  BY <1>2, MessageArg, StoresHas DEF InsertFirst
<1>3. CASE ClearMessage(t)
  BY <1>3, StoresHas DEF ClearMessage, None
<1> QED
  BY <1>1, <1>2, <1>3 DEF MessageStore

LEMMA HistoryTypeKept ==
  ASSUME TypeOK, PlaceInv, NEW t \in Tasks, History(t)
  PROVE  HistoryType'
<1> USE TypeParts DEF HistoryType
<1>1. CASE PushGet(t) \/ RecordGet(t)
  BY <1>1 DEF PushGet, RecordGet, historyVars
<1>2. CASE PushFirst(t)
  BY <1>2, MessageArg, StoresHas DEF PushFirst
<1>3. CASE PushAppend(t)
  <2> DEFINE S == {Append(l, task[t].arg) : l \in history}
  <2>1. StoreOK(S)
    BY <1>3, MessageArg, AppendsOK
  <2>2. history' = S /\ pushed' = Append(pushed, task[t].arg)
    BY <1>3 DEF PushAppend
  <2> HIDE DEF S
  <2> QED
    BY <1>3, <2>1, <2>2, MessageArg
<1>4. CASE RecordInsert(t)
  BY <1>4, StoresHas DEF RecordInsert
<1>5. CASE ClearHistory(t)
  BY <1>5, StoresHas DEF ClearHistory
<1>6. CASE EmptyStore(t)
  BY <1>6, StoresHas DEF EmptyStore
<1> QED
  BY <1>1, <1>2, <1>3, <1>4, <1>5, <1>6 DEF History

LEMMA TypeKept ==
  ASSUME TypeOK, PlaceInv, NEW t \in Tasks, Step(t)
  PROVE  TypeOK'
<1>1. Alone(t)
  BY StepAlone
<1>2. TopicType' /\ MessageType' /\ HistoryType' /\ live' \in BOOLEAN
      /\ calls' \in 0 .. MaxCalls
  <2>0. live \in BOOLEAN /\ calls \in 0 .. MaxCalls
    BY DEF TypeOK
  <2>1. CASE Calls(t)
    BY <2>0, <2>1, CallsMove, TypeParts
       DEF TopicType, MessageType, HistoryType, storeVars, pastVars, historyVars
  <2>2. CASE Swarm(t)
    BY <2>0, <2>2, SwarmMoves, TypeParts
       DEF TopicType, MessageType, HistoryType, storeVars, pastVars, historyVars
  <2>3. CASE TopicStore(t)
    BY <2>0, <2>3, TopicFrame, TopicTypeKept, TypeParts DEF MessageType, HistoryType
  <2>4. CASE MessageStore(t)
    BY <2>0, <2>4, MessageFrame, MessageTypeKept, TypeParts DEF TopicType, HistoryType
  <2>5. CASE History(t)
    BY <2>0, <2>5, HistoryFrame, HistoryTypeKept, TypeParts DEF TopicType, MessageType
  <2> QED
    BY <2>1, <2>2, <2>3, <2>4, <2>5 DEF Step
<1>3. ASSUME NEW u \in Tasks
      PROVE  (task[u].held # None <=> At(u, "topic_promote"))'
  <2>1. task'[u].held # None <=> Loc(task'[u]) = "topic_promote"
    <3>1. task[u].held # None <=> Loc(task[u]) = "topic_promote"
      BY DEF TypeOK, At, Busy, Loc
    <3> QED
      BY <1>1, <3>1 DEF Alone
  <2> QED
    BY <2>1 DEF At, Busy, Loc
<1>4. crossed' \subseteq Tasks
  BY <1>1 DEF Alone, Crosses, TypeOK, Busy
<1> QED
  BY <1>1, <1>2, <1>3, <1>4
     DEF TypeOK, Alone, TopicType, MessageType, HistoryType, StoreOK, Held

-----------------------------------------------------------------------------
(* The message stores.                                                      *)

LEMMA OneMessage ==
  ASSUME NEW m \in Messages, NEW s \in Seq(Messages)
  PROVE  /\ Append(<<>>, m) = <<m>> /\ Append(s, m) # <<>>
         /\ {Append(l, m) : l \in {s}} = {Append(s, m)}
OBVIOUS

LEMMA MessagesFrame ==
  ASSUME MessagesInv, NEW t \in Tasks, Alone(t), UNCHANGED <<messages, expected>>,
         Loc(task'[t]) # "insert_first"
  PROVE  MessagesInv'
BY DEF MessagesInv, Alone

LEMMA MessagesKept ==
  ASSUME TypeOK, PlaceInv, PlaceInv', MessagesInv, NEW t \in Tasks, Step(t)
  PROVE  MessagesInv'
<1>0. Alone(t)
  BY StepAlone
<1>1. CASE Calls(t)
  <2>1. Loc(task'[t]) # "insert_first" /\ UNCHANGED <<messages, expected>>
    BY <1>1, CallsMove DEF Starts, pastVars
  <2> QED
    BY <1>0, <2>1, MessagesFrame
<1>2. CASE Swarm(t)
  <2>1. Loc(task'[t]) # "insert_first" /\ UNCHANGED <<messages, expected>>
    BY <1>2, SwarmMoves DEF Continues, Ends, pastVars
  <2> QED
    BY <1>0, <2>1, MessagesFrame
<1>3. CASE TopicStore(t)
  <2>1. Loc(task'[t]) # "insert_first"
    BY <1>3, TopicMovesAre DEF TopicStore, TopicMoves, Hashed, Continues, Ends
  <2> QED
    BY <1>0, <1>3, <2>1, MessagesFrame, TopicFrame
<1>4. CASE History(t)
  <2>1. Loc(task'[t]) # "insert_first"
    BY <1>4, HistoryMovesAre DEF History, HistoryMoves, Continues, Ends
  <2> QED
    BY <1>0, <1>4, <2>1, MessagesFrame, HistoryFrame
<1>5. CASE MessageStore(t)
  <2> SUFFICES ASSUME FirstMessages \notin raced'
               PROVE  /\ messages' = IF expected' = <<>> THEN None ELSE {expected'}
                      /\ \A u \in Tasks :
                           Loc(task'[u]) = "insert_first" => messages' = None
    BY DEF MessagesInv
  <2>1. /\ messages = IF expected = <<>> THEN None ELSE {expected}
        /\ \A u \in Tasks : Loc(task[u]) = "insert_first" => messages = None
    BY <1>0 DEF MessagesInv, Alone
  <2>2. expected \in Seq(Messages)
    BY DEF TypeOK
  <2>3. ASSUME NEW u \in Tasks, u # t
        PROVE  ~(Loc(task[u]) = "insert_first" /\ Loc(task[t]) = "insert_first")
    <3>1. FirstMessages \notin raced
      BY <1>0 DEF Alone
    <3> QED
      BY <2>3, <3>1 DEF PlaceInv, Clashes
  <2>4. CASE InsertMessage(t)
    <3>1. CASE messages # None
      <4>1. messages = {expected} /\ task[t].arg \in Messages
        BY <2>1, <2>4, <3>1, MessageArg
      <4>2. messages' = {Append(expected, task[t].arg)}
        BY <2>2, <2>4, <3>1, <4>1, OneMessage DEF InsertMessage
      <4>3. expected' = Append(expected, task[t].arg) /\ expected' # <<>>
        BY <2>2, <2>4, <3>1, <4>1, OneMessage DEF InsertMessage
      <4>4. Loc(task'[t]) = "idle"
        BY <2>4, <3>1, MessageMovesAre DEF MessageMoves, Ends
      <4> QED
        BY <1>0, <2>1, <3>1, <4>2, <4>3, <4>4 DEF Alone
    <3>2. CASE messages = None
      BY <2>1, <2>4, <3>2 DEF InsertMessage
    <3> QED
      BY <3>1, <3>2
  <2>5. CASE InsertFirst(t)
    <3>1. Loc(task[t]) = "insert_first" /\ Loc(task'[t]) = "idle"
      BY <2>5, MessageMovesAre DEF MessageMoves, Ends
    <3>2. expected = <<>> /\ task[t].arg \in Messages
      BY <2>1, <2>5, <3>1, MessageArg DEF None
    <3>3. messages' = {<<task[t].arg>>} /\ expected' = <<task[t].arg>>
      BY <2>5, <3>2, OneMessage DEF InsertFirst
    <3>4. ASSUME NEW u \in Tasks
          PROVE  Loc(task'[u]) # "insert_first"
      BY <1>0, <2>3, <3>1 DEF Alone
    <3> QED
      BY <3>3, <3>4
  <2>6. CASE ClearMessage(t)
    BY <2>6 DEF ClearMessage
  <2> QED
    BY <1>5, <2>4, <2>5, <2>6 DEF MessageStore
<1> QED
  BY <1>1, <1>2, <1>3, <1>4, <1>5 DEF Step

HistoryLocs == {"push_first", "push_append", "record_insert"}

LEMMA HistoryInvFrame ==
  ASSUME HistoryInv, NEW t \in Tasks, Alone(t), UNCHANGED <<history, pushed>>,
         Loc(task'[t]) \notin HistoryLocs
  PROVE  HistoryInv'
<1> SUFFICES ASSUME raced' \cap WhilePushing = {}
             PROVE  HistoryInv'
  BY DEF HistoryInv
<1>1. raced \cap WhilePushing = {}
  BY DEF Alone
<1> QED
  BY <1>1 DEF HistoryInv, Alone, HistoryLocs

LEMMA HistoryKept ==
  ASSUME TypeOK, PlaceInv, PlaceInv', HistoryInv, NEW t \in Tasks, Step(t)
  PROVE  HistoryInv'
<1>0. Alone(t)
  BY StepAlone
<1>1. CASE Calls(t)
  <2>1. Loc(task'[t]) \notin HistoryLocs /\ UNCHANGED <<history, pushed>>
    BY <1>1, CallsMove DEF Starts, HistoryLocs, historyVars
  <2> QED
    BY <1>0, <2>1, HistoryInvFrame
<1>2. CASE Swarm(t)
  <2>1. Loc(task'[t]) \notin HistoryLocs /\ UNCHANGED <<history, pushed>>
    BY <1>2, SwarmMoves DEF Continues, Ends, HistoryLocs, historyVars
  <2> QED
    BY <1>0, <2>1, HistoryInvFrame
<1>3. CASE TopicStore(t)
  <2>1. Loc(task'[t]) \notin HistoryLocs
    BY <1>3, TopicMovesAre
       DEF TopicStore, TopicMoves, Hashed, Continues, Ends, HistoryLocs
  <2> QED
    BY <1>0, <1>3, <2>1, HistoryInvFrame, TopicFrame
<1>4. CASE MessageStore(t)
  <2>1. Loc(task'[t]) \notin HistoryLocs
    BY <1>4, MessageMovesAre DEF MessageStore, MessageMoves, Continues, Ends, HistoryLocs
  <2> QED
    BY <1>0, <1>4, <2>1, HistoryInvFrame, MessageFrame
<1>5. CASE History(t)
  <2> SUFFICES ASSUME raced' \cap WhilePushing = {}
               PROVE  HistoryInv'
    BY DEF HistoryInv
  <2>0. raced \cap WhilePushing = {}
    BY <1>0 DEF Alone
  <2>1. /\ history = {pushed} \/ (history = None /\ pushed = <<>>)
        /\ \A u \in Tasks :
             /\ Loc(task[u]) = "push_first" => history = None
             /\ Loc(task[u]) = "push_append" => history # None
             /\ Loc(task[u]) = "record_insert" => pushed = <<>>
    BY <2>0 DEF HistoryInv
  <2>2. pushed \in Seq(Messages)
    BY DEF TypeOK
  <2>3. ASSUME NEW u \in Tasks, u # t
        PROVE  /\ Loc(task[t]) \in {"push", "push_first", "push_append"}
                  => Loc(task[u]) \notin HistoryLocs
               /\ Loc(task[t]) \in {"record", "record_insert", "empty"}
                  => Loc(task[u]) \notin {"push", "push_first", "push_append"}
    <3>1. Clashes(task[t], task[u]) /\ Clashes(task[u], task[t])
      BY <2>3 DEF PlaceInv
    <3>2. /\ Placed(task[t]) /\ Placed(task[u])
          /\ task[t].op \in Ops /\ task[u].op \in Ops
          /\ ~(task[t].op = "push_message" /\ task[u].op = "push_message")
      BY <2>3 DEF PlaceInv, TypeOK, Task
    <3>3. ~(/\ Loc(task[t]) \in {"push", "push_first", "push_append"}
            /\ Loc(task[u]) \in {"push", "push_first", "push_append"})
      BY <3>2, OpOf
    <3> QED
      BY <2>0, <3>1, <3>3 DEF Clashes, HistoryLocs
  <2>4. CASE PushGet(t) \/ RecordGet(t)
    <3>1. /\ UNCHANGED <<history, pushed>>
          /\ Loc(task'[t]) = "push_first" => history = None
          /\ Loc(task'[t]) = "push_append" => history # None
          /\ Loc(task'[t]) = "record_insert" => history = None
      BY <2>4, HistoryMovesAre
         DEF HistoryMoves, Continues, Ends, PushGet, RecordGet, historyVars
    <3>2. history = None => pushed = <<>>
      BY <2>1 DEF None
    <3> QED
      BY <1>0, <2>1, <3>1, <3>2 DEF HistoryInv, Alone
  <2>5. CASE PushFirst(t)
    <3>1. Loc(task[t]) = "push_first" /\ Loc(task'[t]) = "idle"
      BY <2>5, HistoryMovesAre DEF HistoryMoves, Ends
    <3>2. pushed = <<>> /\ task[t].arg \in Messages
      BY <2>1, <2>5, <3>1, MessageArg DEF None
    <3>3. history' = {<<task[t].arg>>} /\ pushed' = <<task[t].arg>>
      BY <2>5, <3>2, OneMessage DEF PushFirst
    <3>4. ASSUME NEW u \in Tasks
          PROVE  Loc(task'[u]) \notin HistoryLocs
      BY <1>0, <2>3, <3>1 DEF Alone, HistoryLocs
    <3> QED
      BY <3>3, <3>4 DEF HistoryInv, HistoryLocs
  <2>6. CASE PushAppend(t)
    <3>1. Loc(task[t]) = "push_append" /\ Loc(task'[t]) = "idle"
      BY <2>6, HistoryMovesAre DEF HistoryMoves, Ends
    <3>2. history = {pushed} /\ task[t].arg \in Messages
      BY <2>1, <2>6, <3>1, MessageArg
    <3>3. history' = {Append(pushed, task[t].arg)} /\ pushed' = Append(pushed, task[t].arg)
      BY <2>2, <2>6, <3>2, OneMessage DEF PushAppend
    <3>4. ASSUME NEW u \in Tasks
          PROVE  Loc(task'[u]) \notin HistoryLocs
      BY <1>0, <2>3, <3>1 DEF Alone, HistoryLocs
    <3> QED
      BY <3>3, <3>4 DEF HistoryInv, HistoryLocs
  <2>7. CASE RecordInsert(t) \/ EmptyStore(t)
    <3>1. Loc(task[t]) \in {"record_insert", "empty"} /\ Loc(task'[t]) = "idle"
      BY <2>7, HistoryMovesAre DEF HistoryMoves, Ends
    <3>2. history' \in {{<<>>}, None} /\ pushed' = <<>>
      BY <2>1, <2>7, <3>1, HistoryMovesAre DEF RecordInsert, EmptyStore, HistoryMoves
    <3>3. ASSUME NEW u \in Tasks
          PROVE  Loc(task'[u]) \notin {"push_first", "push_append"}
      BY <1>0, <2>3, <3>1 DEF Alone
    <3> QED
      BY <3>2, <3>3 DEF HistoryInv
  <2>8. CASE ClearHistory(t)
    <3>1. Loc(task'[t]) = "idle"
      BY <2>8, HistoryMovesAre DEF HistoryMoves, Ends
    <3>2. history' = {<<>> : l \in history} /\ pushed' = <<>>
      BY <2>8 DEF ClearHistory
    <3>3. CASE history = None
      <4>1. history' = None
        BY <3>2, <3>3 DEF None
      <4> QED
        BY <1>0, <2>1, <3>1, <3>2, <3>3, <4>1 DEF HistoryInv, Alone
    <3>4. CASE history # None
      <4>1. history' = {<<>>} /\ history' # None
        BY <3>2, <3>4 DEF None
      <4> QED
        BY <1>0, <2>1, <3>1, <3>2, <3>4, <4>1 DEF HistoryInv, Alone
    <3> QED
      BY <3>3, <3>4
  <2> QED
    BY <1>5, <2>4, <2>5, <2>6, <2>7, <2>8 DEF History
<1> QED
  BY <1>1, <1>2, <1>3, <1>4, <1>5 DEF Step

-----------------------------------------------------------------------------
(* The subscription.                                                        *)

LEMMA SubscribeFrame ==
  ASSUME SubscribeInv, NEW t \in Tasks, Alone(t), UNCHANGED <<subscribed, live>>,
         Subscribes(task'[t]) <=> Subscribes(task[t]),
         Unsubscribes(task'[t]) <=> Unsubscribes(task[t])
  PROVE  SubscribeInv'
<1> SUFFICES ASSUME raced' \cap Unordered = {}
             PROVE  SubscribeInv'
  BY DEF SubscribeInv
<1>1. raced \cap Unordered = {}
  BY DEF Alone
<1>2. \A u \in Tasks : /\ Subscribes(task'[u]) <=> Subscribes(task[u])
                       /\ Unsubscribes(task'[u]) <=> Unsubscribes(task[u])
  BY DEF Alone
<1> QED
  BY <1>1, <1>2 DEF SubscribeInv

(* The place of a task that subscribes, and of one that does not.           *)
LEMMA SubscribesAt ==
  ASSUME NEW r, r.op \in Ops, Placed(r)
  PROVE  /\ Loc(r) \in TopicLocs \cup SubLocs => Subscribes(r) /\ ~Unsubscribes(r)
         /\ Loc(r) \in HashLocs => ~Unsubscribes(r) /\ (Subscribes(r) <=> r.op # "join_topic")
         /\ Loc(r) \notin HashLocs \cup TopicLocs \cup SubLocs => ~Subscribes(r)
         /\ Loc(r) = "unsubscribe" <=> Unsubscribes(r)
<1>1. /\ \A l \in HashLocs \cup TopicLocs \cup SubLocs : l # "command" /\ l # "unsubscribe"
      /\ "join_topic" \notin SubOps /\ "subscribe_topic" \in SubOps
  BY DEF HashLocs, TopicLocs, SubLocs, SubOps
<1> QED
  BY <1>1, OpAt DEF Subscribes, Unsubscribes

LEMMA SubscribeKept ==
  ASSUME TypeOK, PlaceInv, TypeOK', PlaceInv', SubscribeInv, NEW t \in Tasks, Step(t)
  PROVE  SubscribeInv'
<1> DEFINE Frame == /\ UNCHANGED <<subscribed, live>>
                    /\ Subscribes(task'[t]) <=> Subscribes(task[t])
                    /\ Unsubscribes(task'[t]) <=> Unsubscribes(task[t])
<1>0. Alone(t)
  BY StepAlone
<1>p. /\ task[t].op \in Ops /\ Placed(task[t])
      /\ task'[t].op \in Ops /\ Placed(task'[t])
  BY <1>0 DEF TypeOK, PlaceInv, Task, Alone
<1>f. ASSUME Frame
      PROVE  SubscribeInv'
  BY <1>0, <1>f, SubscribeFrame
<1>l. /\ "idle" \notin HashLocs \cup TopicLocs \cup SubLocs
      /\ "command" \notin HashLocs \cup TopicLocs \cup SubLocs
      /\ "insert_message" \notin HashLocs \cup TopicLocs \cup SubLocs
      /\ "unsubscribe" \notin HashLocs \cup TopicLocs \cup SubLocs
      /\ "insert_hash" \in HashLocs
  BY DEF HashLocs, TopicLocs, SubLocs
<1>1. CASE Calls(t)
  <2>1. UNCHANGED <<subscribed, live>>
    BY <1>1, CallsMove DEF storeVars
  <2>2. ~Subscribes(task[t]) /\ ~Unsubscribes(task[t])
    BY <1>1, <1>p, <1>l, CallsMove, SubscribesAt
  <2>3. ~Subscribes(task'[t])
    BY <1>1, CallsMove DEF Subscribes, SubOps, AsksSwarm
  <2>4. ~Unsubscribes(task'[t])
    BY <1>1, CallsMove DEF Unsubscribes, Starts
  <2> QED
    BY <1>f, <2>1, <2>2, <2>3, <2>4
<1>2. CASE MessageStore(t)
  <2>1. UNCHANGED <<subscribed, live>>
    BY <1>2, MessageFrame
  <2>2. /\ Loc(task[t]) \in {"insert_message", "insert_first", "clear"}
        /\ Loc(task'[t]) \in {"insert_first", "idle"}
    BY <1>2, MessageMovesAre DEF MessageStore, MessageMoves, Continues, Ends
  <2> QED
    BY <1>f, <1>p, <2>1, <2>2, SubscribesAt DEF HashLocs, TopicLocs, SubLocs
<1>3. CASE History(t)
  <2>1. UNCHANGED <<subscribed, live>>
    BY <1>3, HistoryFrame
  <2>2. /\ Loc(task[t]) \in {"push", "push_first", "push_append", "record",
                             "record_insert", "clear_history", "empty"}
        /\ Loc(task'[t]) \in HistoryLocs \cup {"idle"}
    BY <1>3, HistoryMovesAre DEF History, HistoryMoves, Continues, Ends, HistoryLocs
  <2> QED
    BY <1>f, <1>p, <2>1, <2>2, SubscribesAt DEF HashLocs, TopicLocs, SubLocs, HistoryLocs
<1>4. CASE /\ Loc(task[t]) = "command" /\ Ends(t) /\ UNCHANGED <<subscribed, live>>
  BY <1>4, <1>f, <1>p, <1>l, SubscribesAt DEF Ends
<1>5. CASE Swarm(t)
  <2>1. CASE UNCHANGED live /\ Ends(t)
    BY <1>4, <1>5, <2>1, SwarmMoves DEF storeVars
  <2>2. CASE task[t].op = "publish_message" /\ UNCHANGED live /\ Continues(t, "insert_message")
    <3>1. UNCHANGED <<subscribed, live>> /\ Loc(task[t]) = "command"
      BY <1>5, <2>2, SwarmMoves DEF storeVars
    <3>2. Loc(task'[t]) = "insert_message"
      BY <2>2 DEF Continues
    <3> QED
      BY <1>f, <1>p, <1>l, <3>1, <3>2, SubscribesAt
  <2>3. CASE task[t].op \in SubOps /\ ~live /\ live' /\ Continues(t, "insert_hash")
    <3>1. Subscribes(task'[t]) /\ ~Unsubscribes(task'[t])
      BY <2>3 DEF Continues, Subscribes, Unsubscribes
    <3>2. SUFFICES ASSUME raced' \cap Unordered = {}
                   PROVE  \A u \in Tasks : ~Unsubscribes(task'[u])
      BY <2>3, <3>1 DEF SubscribeInv
    <3>3. ASSUME NEW u \in Tasks, u # t, Unsubscribes(task[u])
          PROVE  FALSE
      <4>1. task[u].op = "unsubscribe_topic_hash" /\ Loc(task[u]) # "idle"
        <5>1. task[u].op \in Ops /\ Placed(task[u])
          BY DEF TypeOK, PlaceInv, Task
        <5> QED
          BY <3>3, <5>1, OpOf DEF Unsubscribes
      <4>2. Clashes(task[u], task[t]) /\ Loc(task[t]) = "command"
        BY <1>5, <3>3, SwarmMoves DEF PlaceInv
      <4>3. raced \cap Unordered # {}
        BY <2>3, <4>1, <4>2 DEF Clashes
      <4> QED
        BY <1>0, <3>2, <4>3 DEF Alone
    <3> QED
      BY <1>0, <3>1, <3>3 DEF Alone
  <2>4. CASE /\ task[t].op = "unsubscribe_topic_hash" /\ live /\ ~live'
             /\ Continues(t, "unsubscribe")
    <3>1. Unsubscribes(task'[t]) /\ ~Subscribes(task'[t])
      BY <2>4, <1>p, <1>l, SubscribesAt DEF Continues
    <3>2. SUFFICES ASSUME raced' \cap Unordered = {}
                   PROVE  \A u \in Tasks : ~Subscribes(task'[u])
      BY <2>4, <3>1 DEF SubscribeInv
    <3>3. ASSUME NEW u \in Tasks, u # t, Subscribes(task[u])
          PROVE  FALSE
      <4>1. task[u].op \in SubOps /\ Loc(task[u]) # "idle"
        <5>1. task[u].op \in Ops /\ Placed(task[u])
          BY DEF TypeOK, PlaceInv, Task
        <5> QED
          BY <3>3, <5>1, <1>l, SubscribesAt DEF Subscribes
      <4>2. Clashes(task[t], task[u]) /\ Loc(task[t]) = "command"
        BY <1>5, <3>3, SwarmMoves DEF PlaceInv
      <4>3. raced \cap Unordered # {}
        BY <2>4, <4>1, <4>2 DEF Clashes
      <4> QED
        BY <1>0, <3>2, <4>3 DEF Alone
    <3> QED
      BY <1>0, <3>1, <3>3 DEF Alone
  <2> QED
    BY <1>5, <2>1, <2>2, <2>3, <2>4, SwarmMoves
<1>6. CASE TopicStore(t)
  <2>1. CASE HashVacant(t) \/ HashPopulated(t) \/ HashInsert(t)
    <3>1. UNCHANGED <<subscribed, live>>
      BY <2>1 DEF HashVacant, HashPopulated, HashInsert, storeVars
    <3>2. /\ Loc(task[t]) \in HashLocs /\ task'[t].op = task[t].op
          /\ Loc(task'[t]) \in HashLocs
             \/ Loc(task'[t]) = IF task[t].op = "join_topic" THEN "join" ELSE "subscribe"
      BY <2>1, TopicMovesAre DEF TopicMoves, Hashed, Continues, HashLocs
    <3>3. "join" \notin HashLocs \cup TopicLocs \cup SubLocs /\ "subscribe" \in SubLocs
      BY DEF HashLocs, TopicLocs, SubLocs
    <3>4. "join" # "unsubscribe"
      OBVIOUS
    <3> QED
      BY <1>f, <1>p, <3>1, <3>2, <3>3, <3>4, SubscribesAt
  <2>2. CASE TopicRemove(t) \/ TopicPromote(t) \/ TopicPopulated(t) \/ TopicInsert(t)
    <3>1. UNCHANGED <<subscribed, live>>
      BY <2>2 DEF TopicRemove, TopicPromote, TopicPopulated, TopicInsert, storeVars
    <3>2. Loc(task[t]) \in TopicLocs /\ Loc(task'[t]) \in TopicLocs \cup SubLocs
      BY <2>2, TopicMovesAre DEF TopicMoves, Continues, TopicLocs, SubLocs
    <3> QED
      BY <1>f, <1>p, <3>1, <3>2, SubscribesAt
  <2>3. CASE SubscribedContains(t) \/ SubscribedInsert(t)
    <3>1. Loc(task[t]) \in SubLocs
      BY <2>3, TopicMovesAre DEF TopicMoves, SubLocs
    <3>2. CASE Loc(task'[t]) \in TopicLocs \cup SubLocs /\ subscribed' = subscribed
      <4>1. UNCHANGED <<subscribed, live>>
        BY <2>3, <3>2 DEF SubscribedContains, SubscribedInsert
      <4> QED
        BY <1>f, <1>p, <3>1, <3>2, <4>1, SubscribesAt
    <3>3. CASE subscribed' = TRUE
      <4>1. Subscribes(task[t]) /\ ~Unsubscribes(task'[t]) /\ live' = live
        <5>1. Loc(task'[t]) # "unsubscribe"
          BY <2>3, TopicMovesAre DEF TopicMoves, Continues, Ends
        <5>2. live' = live
          BY <2>3 DEF SubscribedContains, SubscribedInsert
        <5> QED
          BY <1>p, <3>1, <5>1, <5>2, SubscribesAt
      <4>2. SUFFICES ASSUME raced' \cap Unordered = {}
                     PROVE  SubscribeInv'
        BY DEF SubscribeInv
      <4>3. raced \cap Unordered = {}
        BY <1>0, <4>2 DEF Alone
      <4>4. live = TRUE /\ \A u \in Tasks : ~Unsubscribes(task[u])
        BY <4>1, <4>3 DEF SubscribeInv, TypeOK
      <4>5. \A u \in Tasks : ~Unsubscribes(task'[u])
        BY <1>0, <4>1, <4>4 DEF Alone
      <4>6. live' = TRUE
        BY <4>1, <4>4
      <4> QED
        BY <3>3, <4>5, <4>6 DEF SubscribeInv
    <3>4. subscribed' = TRUE
          \/ (Loc(task'[t]) \in TopicLocs \cup SubLocs /\ subscribed' = subscribed)
      BY <2>3, TopicMovesAre
         DEF TopicMoves, Continues, SubscribedContains, SubscribedInsert, SubLocs,
             storeVars, TypeOK
    <3> QED
      BY <3>2, <3>3, <3>4
  <2>4. CASE Unsubscribe(t)
    <3>1. Loc(task[t]) = "unsubscribe" /\ Loc(task'[t]) = "idle"
      BY <2>4, TopicMovesAre DEF TopicMoves, Ends
    <3>2. Unsubscribes(task[t]) /\ ~Subscribes(task'[t]) /\ ~Unsubscribes(task'[t])
      BY <1>p, <1>l, <3>1, SubscribesAt
    <3>3. subscribed' = FALSE /\ live' = live
      BY <2>4 DEF Unsubscribe
    <3>4. SUFFICES ASSUME raced' \cap Unordered = {}
                   PROVE  SubscribeInv'
      BY DEF SubscribeInv
    <3>5. raced \cap Unordered = {}
      BY <1>0, <3>4 DEF Alone
    <3>6. live = FALSE /\ \A u \in Tasks : ~Subscribes(task[u])
      BY <3>2, <3>5 DEF SubscribeInv, TypeOK
    <3>7. \A u \in Tasks : ~Subscribes(task'[u])
      BY <1>0, <3>2, <3>6 DEF Alone
    <3>8. live' = FALSE
      BY <3>3, <3>6
    <3> QED
      BY <3>3, <3>7, <3>8 DEF SubscribeInv
  <2>5. CASE \/ JoinVacant(t) \/ JoinPopulated(t) \/ LeaveVacant(t)
             \/ LeavePopulated(t) \/ ParticipantsPopulated(t) \/ ParticipantsVacant(t)
    <3>1. UNCHANGED <<subscribed, live>>
      BY <2>5 DEF JoinVacant, JoinPopulated, LeaveVacant, LeavePopulated,
                  ParticipantsPopulated, ParticipantsVacant, storeVars
    <3> DEFINE Away == JoinLocs \cup {"leave", "leave_populated", "get", "get_vacant", "idle"}
    <3>2. Loc(task[t]) \in Away /\ Loc(task'[t]) \in Away
      BY <2>5, TopicMovesAre DEF TopicMoves, Continues, Ends, JoinLocs
    <3>3. \A l \in Away : l \notin HashLocs \cup TopicLocs \cup SubLocs /\ l # "unsubscribe"
      BY DEF HashLocs, TopicLocs, SubLocs, JoinLocs
    <3> HIDE DEF Away
    <3> QED
      BY <1>f, <1>p, <3>1, <3>2, <3>3, SubscribesAt
  <2> QED
    BY <1>6, <2>1, <2>2, <2>3, <2>4, <2>5 DEF TopicStore
<1> QED
  BY <1>1, <1>2, <1>3, <1>5, <1>6 DEF Step

-----------------------------------------------------------------------------
(* The topic.                                                               *)

(* A step that leaves the maps as they are, but for members of the lists,   *)
(* and takes its task to no place where the invariant says anything.        *)
Somewhere == {"idle", "command", "insert_hash", "insert_topic", "subscribe",
              "subscribe_insert", "unsubscribe", "insert_message", "insert_first",
              "clear", "push", "push_first", "push_append", "record",
              "record_insert", "clear_history", "empty"}
SameMaps ==
  /\ vacant' = None <=> vacant = None
  /\ populated' = None <=> populated = None
  /\ UNCHANGED known

LEMMA HeldAt ==
  ASSUME TypeOK, NEW u \in Tasks
  PROVE  task[u].held # None <=> Loc(task[u]) = "topic_promote"
BY DEF TypeOK, At, Busy, Loc

LEMMA HeldThen ==
  ASSUME TypeOK', NEW u \in Tasks
  PROVE  task'[u].held # None <=> Loc(task'[u]) = "topic_promote"
BY DEF TypeOK, At, Busy, Loc

(* The steps of the other stores.                                           *)
LEMMA OtherStores ==
  ASSUME TypeOK, PlaceInv, NEW t \in Tasks,
         Swarm(t) \/ MessageStore(t) \/ History(t)
  PROVE  /\ UNCHANGED <<vacant, populated, known, members>>
         /\ Loc(task'[t]) \in Somewhere /\ Loc(task[t]) \in Somewhere
         /\ ~task[t].missed => ~task'[t].missed
<1>1. CASE Swarm(t)
  BY <1>1, SwarmMoves, IdleIs DEF Continues, Ends, Somewhere, storeVars, pastVars
<1>2. CASE MessageStore(t)
  <2>1. /\ Loc(task'[t]) \in Somewhere /\ Loc(task[t]) \in Somewhere
        /\ ~task[t].missed => ~task'[t].missed
    BY <1>2, MessageMovesAre, IdleIs
       DEF MessageStore, MessageMoves, Continues, Ends, Somewhere
  <2> QED
    BY <1>2, <2>1, MessageFrame
<1>3. CASE History(t)
  <2>1. /\ Loc(task'[t]) \in Somewhere /\ Loc(task[t]) \in Somewhere
        /\ ~task[t].missed => ~task'[t].missed
    BY <1>3, HistoryMovesAre, IdleIs
       DEF History, HistoryMoves, Continues, Ends, Somewhere
  <2> QED
    BY <1>3, <2>1, HistoryFrame
<1> QED
  BY <1>1, <1>2, <1>3

(* The steps of the topic store that read, or change a list.                *)
Reads(t) == \/ HashVacant(t) \/ HashPopulated(t) \/ TopicPopulated(t)
            \/ SubscribedContains(t) \/ SubscribedInsert(t) \/ Unsubscribe(t)
            \/ ParticipantsPopulated(t) \/ ParticipantsVacant(t)
Joins(t) == JoinVacant(t) \/ JoinPopulated(t) \/ LeaveVacant(t) \/ LeavePopulated(t)

LEMMA ReadsFrame ==
  ASSUME NEW t \in Tasks, Reads(t)
  PROVE  UNCHANGED <<vacant, populated, known, members>>
BY DEF Reads, HashVacant, HashPopulated, TopicPopulated, SubscribedContains,
       SubscribedInsert, Unsubscribe, ParticipantsPopulated, ParticipantsVacant,
       storeVars, pastVars

LEMMA PeerArg ==
  ASSUME TypeOK, PlaceInv, NEW t \in Tasks, Joins(t)
  PROVE  task[t].arg \in Peers
<1>1. Placed(task[t]) /\ ArgOK(task[t]) /\ task[t].op \in Ops
  BY DEF TypeOK, PlaceInv, Task
<1>2. Loc(task[t]) \in JoinLocs \cup {"leave", "leave_populated"}
  BY TopicMovesAre DEF Joins, TopicMoves, JoinLocs
<1> QED
  BY <1>1, <1>2, OpOf DEF ArgOK

LEMMA JoinsFrame ==
  ASSUME TypeOK, PlaceInv, NEW t \in Tasks, Joins(t)
  PROVE  SameMaps
<1> DEFINE p == task[t].arg
<1>1. p \in Peers /\ vacant \in Held /\ populated \in Held
  BY PeerArg DEF TypeOK, Held
<1> HIDE DEF p
<1>2. /\ {l \cup {p} : l \in vacant} = None <=> vacant = None
      /\ {l \ {p} : l \in vacant} = None <=> vacant = None
      /\ {l \cup {p} : l \in populated} = None <=> populated = None
      /\ {l \ {p} : l \in populated} = None <=> populated = None
  BY <1>1, ListsOK
<1>3. /\ vacant' \in {vacant, {l \cup {p} : l \in vacant}, {l \ {p} : l \in vacant}}
      /\ populated' \in {populated, {l \cup {p} : l \in populated},
                         {l \ {p} : l \in populated}}
      /\ known' = known
  BY DEF Joins, JoinVacant, JoinPopulated, LeaveVacant, LeavePopulated, p
<1> QED
  BY <1>2, <1>3 DEF SameMaps

LEMMA TopicSteps ==
  ASSUME NEW t \in Tasks, TopicStore(t)
  PROVE  \/ Reads(t) \/ Joins(t) \/ HashInsert(t) \/ TopicInsert(t)
         \/ TopicRemove(t) \/ TopicPromote(t)
BY DEF TopicStore, Reads, Joins

(* Of these, none but TopicRemove and TopicPromote holds a list.            *)
LEMMA NotPromoting ==
  ASSUME TypeOK, PlaceInv, NEW t \in Tasks, Step(t), ~TopicRemove(t), ~TopicPromote(t)
  PROVE  Loc(task[t]) # "topic_promote" /\ Loc(task'[t]) # "topic_promote"
<1>1. CASE TopicStore(t)
  BY <1>1, TopicMovesAre DEF TopicStore, TopicMoves, Hashed, Continues, Ends
<1>2. CASE Calls(t)
  BY <1>2, CallsMove DEF Starts
<1> QED
  BY <1>1, <1>2, OtherStores DEF Step, Somewhere

LEMMA KnownFrame ==
  ASSUME TypeOK, TypeOK', KnownInv, NEW t \in Tasks, Alone(t), SameMaps,
         Loc(task[t]) # "topic_promote", Loc(task'[t]) # "topic_promote"
  PROVE  KnownInv'
<1>1. \A u \in Tasks : task'[u].held # None <=> task[u].held # None
  BY HeldAt, HeldThen DEF Alone
<1> QED
  BY <1>1 DEF KnownInv, SameMaps

LEMMA KnownKept ==
  ASSUME TypeOK, PlaceInv, TypeOK', KnownInv, NEW t \in Tasks, Step(t)
  PROVE  KnownInv'
<1>0. Alone(t)
  BY StepAlone
<1>1. CASE HashInsert(t) \/ TopicInsert(t)
  BY <1>1, HeldHas DEF KnownInv, HashInsert, TopicInsert
<1>2. CASE TopicRemove(t)
  <2>1. Loc(task[t]) = "insert_topic" /\ known' = known /\ populated' = populated
        /\ vacant' = None
    BY <1>2, TopicMovesAre DEF TopicMoves, TopicRemove, pastVars
  <2>2. CASE vacant = None
    <3>1. Loc(task'[t]) = "topic_populated"
      BY <1>2, <2>2, TopicMovesAre DEF TopicMoves, Continues
    <3> QED
      BY <1>0, <2>1, <2>2, <3>1, KnownFrame DEF SameMaps
  <2>3. CASE vacant # None
    <3>1. task'[t].held # None
      BY <1>2, <2>3, TopicMovesAre DEF TopicMoves
    <3> QED
      BY <2>1, <2>3, <3>1 DEF KnownInv
  <2> QED
    BY <2>2, <2>3
<1>3. CASE TopicPromote(t)
  <2>1. Loc(task[t]) = "topic_promote" /\ known' = known /\ populated' = task[t].held
    BY <1>3, TopicMovesAre DEF TopicMoves, TopicPromote, pastVars
  <2>2. task[t].held # None
    BY <2>1, HeldAt
  <2> QED
    BY <2>1, <2>2 DEF KnownInv
<1>4. CASE ~(HashInsert(t) \/ TopicInsert(t) \/ TopicRemove(t) \/ TopicPromote(t))
  <2>1. SameMaps
    <3>1. CASE Calls(t)
      BY <3>1, CallsMove DEF SameMaps, storeVars, pastVars
    <3>2. CASE TopicStore(t)
      BY <1>4, <3>2, TopicSteps, ReadsFrame, JoinsFrame DEF SameMaps
    <3> QED
      BY <3>1, <3>2, OtherStores DEF Step, SameMaps
  <2> QED
    BY <1>0, <1>4, <2>1, KnownFrame, NotPromoting
<1> QED
  BY <1>1, <1>2, <1>3, <1>4

LEMMA MapFrame ==
  ASSUME MapInv, NEW t \in Tasks, Alone(t), SameMaps,
         Loc(task'[t]) \notin {"hash_insert", "topic_promote", "topic_populated",
                               "topic_insert"}
  PROVE  MapInv'
BY DEF MapInv, Alone, SameMaps

LEMMA MapKept ==
  ASSUME TypeOK, PlaceInv, MapInv, NEW t \in Tasks, Step(t)
  PROVE  MapInv'
<1>0. Alone(t)
  BY StepAlone
<1>1. CASE Swarm(t) \/ MessageStore(t) \/ History(t)
  BY <1>0, <1>1, OtherStores, MapFrame DEF Somewhere, SameMaps
<1>2. CASE Calls(t)
  BY <1>0, <1>2, CallsMove, MapFrame DEF Starts, SameMaps, storeVars, pastVars
<1>3. CASE Joins(t)
  <2>1. Loc(task'[t]) \in JoinLocs \cup {"leave_populated", "idle"}
    BY <1>3, TopicMovesAre DEF Joins, TopicMoves, Continues, Ends, JoinLocs
  <2> QED
    BY <1>0, <1>3, <2>1, JoinsFrame, MapFrame DEF JoinLocs
<1>4. ASSUME NEW u \in Tasks, u # t, Demotes \notin raced'
      PROVE  /\ ~(Loc(task[u]) \in HashLocs /\ Loc(task[t]) \in TopicLocs)
             /\ ~(Loc(task[t]) \in HashLocs /\ Loc(task[u]) \in TopicLocs)
  <2>1. Demotes \notin raced
    BY <1>0, <1>4 DEF Alone
  <2> QED
    BY <1>4, <2>1 DEF PlaceInv, Clashes
<1>5. CASE Reads(t)
  <2>1. UNCHANGED <<vacant, populated, known>>
    BY <1>5, ReadsFrame
  <2>2. /\ Loc(task'[t]) = "hash_insert" => populated = None
        /\ Loc(task'[t]) = "topic_insert" => Loc(task[t]) = "topic_populated"
        /\ Loc(task'[t]) \notin {"topic_promote", "topic_populated"}
    BY <1>5, TopicMovesAre DEF Reads, TopicMoves, Hashed, Continues, Ends
  <2> QED
    BY <1>0, <2>1, <2>2 DEF MapInv, Alone
<1>6. CASE HashInsert(t)
  <2>1. /\ Loc(task[t]) = "hash_insert" /\ Loc(task'[t]) \in {"join", "subscribe"}
        /\ populated' = populated
    BY <1>6, TopicMovesAre DEF TopicMoves, Hashed, Continues, HashInsert
  <2>2. SUFFICES ASSUME Demotes \notin raced'
                 PROVE  MapInv'
    BY DEF MapInv
  <2>3. populated = None
    BY <1>0, <2>1, <2>2 DEF MapInv, Alone
  <2>4. \A u \in Tasks :
          Loc(task'[u]) \notin {"topic_promote", "topic_populated", "topic_insert"}
    BY <1>0, <1>4, <2>1, <2>2 DEF Alone, HashLocs, TopicLocs
  <2> QED
    BY <2>1, <2>3, <2>4 DEF MapInv
<1>7. CASE TopicRemove(t)
  <2>1. /\ vacant' = None /\ populated' = populated
        /\ Loc(task'[t]) # "hash_insert"
    BY <1>7, TopicMovesAre DEF TopicMoves, Continues, TopicRemove
  <2> QED
    BY <1>0, <2>1 DEF MapInv, Alone
<1>8. CASE TopicPromote(t) \/ TopicInsert(t)
  <2>1. /\ Loc(task[t]) \in {"topic_promote", "topic_insert"}
        /\ Loc(task'[t]) = "subscribe" /\ vacant' = vacant
    BY <1>8, TopicMovesAre DEF TopicMoves, Continues, TopicPromote, TopicInsert
  <2>2. SUFFICES ASSUME Demotes \notin raced'
                 PROVE  MapInv'
    BY DEF MapInv
  <2>3. vacant = None
    BY <1>0, <2>1, <2>2 DEF MapInv, Alone
  <2>4. \A u \in Tasks : Loc(task'[u]) # "hash_insert"
    BY <1>0, <1>4, <2>1, <2>2 DEF Alone, HashLocs, TopicLocs
  <2> QED
    BY <2>1, <2>3, <2>4 DEF MapInv
<1> QED
  BY <1>1, <1>2, <1>3, <1>5, <1>6, <1>7, <1>8, TopicSteps DEF Step

(* A task stays in crossed during its call, and every call under way while  *)
(* a task holds the topic is in it.                                         *)
LEMMA CrossedThen ==
  ASSUME NEW t \in Tasks, Alone(t)
  PROVE  /\ \A u \in Tasks : u # t /\ u \in crossed => u \in crossed'
         /\ t \in Busy /\ t \in crossed => t \in crossed'
         /\ \A u, v \in Tasks :
              task'[v].held # None /\ Loc(task'[u]) # "idle" => u \in crossed'
<1>1. ASSUME NEW u \in Tasks, NEW v \in Tasks, task'[v].held # None,
             Loc(task'[u]) # "idle"
      PROVE  u \in crossed'
  <2>1. u \in Busy' /\ Moving'
    BY <1>1 DEF Loc, Busy, Moving
  <2> QED
    BY <2>1 DEF Alone, Crosses
<1> QED
  BY <1>1 DEF Alone, Crosses

(* A known topic is in a map, or another task is promoting it when a task   *)
(* begins to look for it.                                                   *)
LEMMA KnownAtCall ==
  ASSUME TypeOK, PlaceInv, PlaceInv', KnownInv, NEW t \in Tasks, Calls(t), known
  PROVE  /\ Loc(task'[t]) = "get" /\ t \notin crossed'
            => vacant # None \/ populated # None
         /\ Loc(task'[t]) = "leave" /\ WhileLeaving \notin raced'
            => vacant # None \/ populated # None
<1>1. CASE vacant # None \/ populated # None
  BY <1>1
<1>2. CASE \E u \in Tasks : task[u].held # None
  <2>1. PICK u \in Tasks : task[u].held # None
    BY <1>2
  <2>2. Loc(task[u]) = "topic_promote" /\ u # t
    BY <2>1, HeldAt, CallsMove
  <2>3. Loc(task'[u]) \in TopicLocs
    BY <2>2, CallsMove DEF Alone, TopicLocs
  <2>4. Clashes(task[t], task[u])'
    BY <2>2 DEF PlaceInv
  <2>5. Loc(task'[t]) = "get" => t \in crossed'
    BY <2>1, <2>2, CallsMove, CrossedThen DEF Alone
  <2> QED
    BY <2>3, <2>4, <2>5 DEF Clashes
<1> QED
  BY <1>1, <1>2 DEF KnownInv

(* A step that takes the topic out of no map disturbs no other task.        *)
LEMMA FoundGrows ==
  ASSUME FoundInv, NEW t \in Tasks, Alone(t), FoundAt(t)',
         vacant # None => vacant' # None, populated # None => populated' # None
  PROVE  FoundInv'
<1>1. ASSUME NEW u \in Tasks, u # t
      PROVE  FoundAt(u)'
  <2>1. FoundAt(u) /\ task'[u] = task[u] /\ (u \in crossed => u \in crossed')
    BY <1>1, CrossedThen DEF FoundInv, Alone
  <2> QED
    BY <2>1 DEF FoundAt
<1> QED
  BY <1>1 DEF FoundInv

LookLocs == {"get", "get_vacant", "join", "join_populated", "unreachable"}

LEMMA FoundKept ==
  ASSUME TypeOK, PlaceInv, PlaceInv', KnownInv, FoundInv, NEW t \in Tasks, Step(t)
  PROVE  FoundInv'
<1>1. Alone(t) /\ FoundAt(t)
  BY StepAlone DEF FoundInv
<1>2. CASE Calls(t)
  <2>1. UNCHANGED <<vacant, populated>>
    BY <1>2, CallsMove DEF storeVars
  <2>2. FoundAt(t)'
    BY <1>2, <2>1, CallsMove, KnownAtCall DEF FoundAt, Starts
  <2> QED
    BY <1>1, <2>1, <2>2, FoundGrows
<1> SUFFICES ASSUME ~Calls(t)
             PROVE  FoundInv'
  BY <1>2
<1>0. Alone(t) /\ FoundAt(t) /\ (t \in crossed => t \in crossed')
  BY <1>1, StepBusy, CrossedThen
<1>a. ASSUME Loc(task'[t]) \notin LookLocs, ~task[t].missed => ~task'[t].missed
      PROVE  FoundAt(t)'
  BY <1>0, <1>a DEF FoundAt, LookLocs
<1>b. CASE Swarm(t) \/ MessageStore(t) \/ History(t)
  <2>1. Loc(task'[t]) \notin LookLocs
    BY <1>b, OtherStores DEF Somewhere, LookLocs
  <2> QED
    BY <1>0, <1>b, <1>a, <2>1, OtherStores, FoundGrows
<1>3. CASE Reads(t)
  <2>1. UNCHANGED <<vacant, populated>>
    BY <1>3, ReadsFrame
  <2>2. FoundAt(t)'
    <3>1. CASE HashVacant(t) \/ HashPopulated(t)
      <4>1. /\ Loc(task'[t]) \in {"join", "subscribe"} => vacant # None \/ populated # None
            /\ Loc(task'[t]) \in {"join", "subscribe"} \cup HashLocs
            /\ task'[t].missed = task[t].missed
        BY <3>1, TopicMovesAre DEF TopicMoves, Hashed, Continues, HashLocs
      <4> QED
        BY <1>0, <2>1, <4>1 DEF FoundAt, HashLocs
    <3>2. CASE TopicPopulated(t) \/ SubscribedContains(t) \/ SubscribedInsert(t)
               \/ Unsubscribe(t)
      BY <1>a, <3>2, TopicMovesAre, IdleIs DEF TopicMoves, Continues, Ends, LookLocs
    <3>3. CASE ParticipantsPopulated(t)
      <4>1. /\ Loc(task[t]) = "get" /\ Loc(task'[t]) = "get_vacant"
            /\ task'[t].missed = task[t].missed /\ task'[t].knew = task[t].knew
            /\ task'[t].found = (populated # None)
        BY <3>3, TopicMovesAre DEF TopicMoves, Continues
      <4>2. task'[t].found <=> populated # None
        BY <4>1
      <4> QED
        BY <1>0, <2>1, <4>1, <4>2 DEF FoundAt
    <3>4. CASE ParticipantsVacant(t)
      <4>1. /\ Loc(task[t]) = "get_vacant" /\ Loc(task'[t]) = "idle"
            /\ task'[t].missed = (task[t].knew /\ ~task[t].found /\ vacant = None)
        BY <3>4, TopicMovesAre DEF TopicMoves
      <4>2. task'[t].missed <=> task[t].knew /\ ~task[t].found /\ vacant = None
        BY <4>1
      <4> QED
        BY <1>0, <2>1, <4>1, <4>2 DEF FoundAt
    <3> QED
      BY <1>3, <3>1, <3>2, <3>3, <3>4 DEF Reads
  <2> QED
    BY <1>0, <2>1, <2>2, FoundGrows
<1>4. CASE Joins(t)
  <2>1. SameMaps
    BY <1>4, JoinsFrame
  <2>2. FoundAt(t)'
    <3>1. CASE JoinVacant(t)
      <4>1. /\ Loc(task[t]) = "join"
            /\ \/ task'[t] = Idle /\ Loc(task'[t]) = "idle"
               \/ /\ vacant = None /\ Loc(task'[t]) = "join_populated"
                  /\ task'[t].missed = task[t].missed
        BY <3>1, TopicMovesAre DEF TopicMoves, Continues, Ends
      <4> QED
        BY <1>0, <2>1, <4>1, IdleIs DEF FoundAt, SameMaps
    <3>2. CASE JoinPopulated(t)
      <4>1. /\ Loc(task[t]) = "join_populated"
            /\ \/ task'[t] = Idle /\ Loc(task'[t]) = "idle"
               \/ /\ populated = None /\ Loc(task'[t]) = "unreachable"
                  /\ task'[t].missed = task[t].missed
        BY <3>2, TopicMovesAre DEF TopicMoves, Continues, Ends
      <4> QED
        BY <1>0, <2>1, <4>1, IdleIs DEF FoundAt, SameMaps
    <3>3. CASE LeaveVacant(t) \/ LeavePopulated(t)
      BY <1>a, <3>3, TopicMovesAre, IdleIs DEF TopicMoves, Continues, Ends, LookLocs
    <3> QED
      BY <1>4, <3>1, <3>2, <3>3 DEF Joins
  <2> QED
    BY <1>0, <2>1, <2>2, FoundGrows DEF SameMaps
<1>5. CASE HashInsert(t)
  <2>1. vacant' # None /\ populated' = populated
    BY <1>5, HeldHas DEF HashInsert
  <2>2. Loc(task'[t]) \in {"join", "subscribe"} /\ task'[t].missed = task[t].missed
    BY <1>5, TopicMovesAre DEF TopicMoves, Hashed, Continues
  <2>3. FoundAt(t)'
    BY <1>0, <2>1, <2>2 DEF FoundAt
  <2> QED
    BY <1>0, <2>1, <2>3, FoundGrows
<1>6. CASE TopicInsert(t) \/ TopicPromote(t)
  <2>1. populated' # None /\ vacant' = vacant
    BY <1>6, HeldHas, HeldAt, TopicMovesAre DEF TopicInsert, TopicPromote, TopicMoves
  <2>2. Loc(task'[t]) = "subscribe" /\ task'[t].missed = task[t].missed
    BY <1>6, TopicMovesAre DEF TopicMoves, Continues
  <2>3. FoundAt(t)'
    BY <1>a, <2>2 DEF LookLocs
  <2> QED
    BY <1>0, <2>1, <2>3, FoundGrows
<1>7. CASE TopicRemove(t)
  <2>1. /\ Loc(task[t]) \in TopicLocs /\ populated' = populated
        /\ Loc(task'[t]) \in TopicLocs /\ task'[t].missed = task[t].missed
    BY <1>7, TopicMovesAre DEF TopicMoves, Continues, TopicRemove, TopicLocs
  <2>2. FoundAt(t)'
    BY <1>a, <2>1 DEF LookLocs, TopicLocs
  <2>3. ASSUME NEW u \in Tasks, u # t
        PROVE  FoundAt(u)'
    <3>1. FoundAt(u) /\ task'[u] = task[u] /\ (u \in crossed => u \in crossed')
      BY <1>0, <2>3, CrossedThen DEF FoundInv, Alone
    <3>2. CASE vacant # None
      <4>1. task'[t].held # None
        BY <1>7, <3>2, TopicMovesAre DEF TopicMoves
      <4>2. Loc(task[u]) # "idle" => u \in crossed'
        BY <1>0, <3>1, <4>1, CrossedThen
      <4> QED
        BY <3>1, <4>2 DEF FoundAt
    <3>3. CASE vacant = None
      BY <1>7, <2>1, <3>1, <3>3 DEF FoundAt, TopicRemove
    <3> QED
      BY <3>2, <3>3
  <2> QED
    BY <2>2, <2>3 DEF FoundInv
<1> QED
  BY <1>b, <1>3, <1>4, <1>5, <1>6, <1>7, TopicSteps DEF Step

(* What the proofs of ExactInv use of the state before a step.              *)
Exact ==
  /\ ~known => members = {}
  /\ vacant \subseteq {members} /\ populated \subseteq {members}
  /\ vacant = None \/ populated = None
  /\ \A u \in Tasks :
       /\ ExactAt(task[u])
       /\ Loc(task[u]) \in {"topic_promote", "topic_populated", "topic_insert"}
          => vacant = None

LEMMA ExactBefore ==
  ASSUME MapInv, ExactInv, raced \cap Inserting = {}
  PROVE  Exact
<1>1. Demotes \notin raced
  BY DEF Inserting
<1> QED
  BY <1>1 DEF MapInv, ExactInv, Exact

(* Other tasks than one that inserts are at none of these places.           *)
Apart(t, u) ==
  /\ ~(Loc(task[t]) \in HashLocs /\ Loc(task[u]) \in HashLocs \cup TopicLocs)
  /\ ~(Loc(task[t]) \in TopicLocs /\ Loc(task[u]) \in HashLocs \cup TopicLocs)
  /\ ~(Loc(task[t]) \in TopicLocs /\ Loc(task[u]) \in {"leave", "leave_populated"})

LEMMA ApartAre ==
  ASSUME PlaceInv, raced \cap Inserting = {}, NEW t \in Tasks, NEW u \in Tasks, u # t
  PROVE  Apart(t, u)
<1>1. /\ {"insert_hash"} \notin raced /\ {"insert_topic"} \notin raced
      /\ Demotes \notin raced /\ WhileLeaving \notin raced
  BY DEF Inserting, FirstInserts
<1>2. Clashes(task[t], task[u]) /\ Clashes(task[u], task[t])
  BY DEF PlaceInv
<1> QED
  BY <1>1, <1>2 DEF Clashes, Apart

(* A list that has the members has them after a join or a leave.            *)
LEMMA ListJoined ==
  ASSUME NEW h \in Held, NEW m, h \subseteq {m}, h # None, NEW p
  PROVE  /\ {l \cup {p} : l \in h} \subseteq {m \cup {p}}
         /\ {l \ {p} : l \in h} \subseteq {m \ {p}}
OBVIOUS

(* A step that changes a list where it is changes members alike; no other   *)
(* list exists.                                                             *)
LEMMA ExactJoined ==
  ASSUME TypeOK, TypeOK', PlaceInv, KnownInv, Exact, NEW t \in Tasks, Alone(t),
         SameMaps, vacant # None \/ populated # None,
         vacant' \subseteq {members'}, populated' \subseteq {members'},
         Loc(task'[t]) = "idle"
  PROVE  ExactInv'
<1>1. known /\ known'
  BY DEF KnownInv, SameMaps
<1>2. \A u \in Tasks : Loc(task[u]) # "topic_promote"
  BY DEF Exact, ExactAt
<1>3. \A u \in Tasks : task'[u].held = None
  BY <1>2, HeldThen DEF Alone
<1>4. ASSUME NEW u \in Tasks
      PROVE  ExactAt(task[u])'
  <2>1. CASE u = t
    BY <1>3, <2>1 DEF ExactAt, None
  <2>2. CASE u # t
    <3>1. task'[u] = task[u] /\ ExactAt(task[u])
      BY <2>2 DEF Alone, Exact
    <3>2. task'[u].held = {}
      BY <1>3 DEF None
    <3> QED
      BY <1>1, <1>2, <3>1, <3>2 DEF ExactAt, SameMaps
  <2> QED
    BY <2>1, <2>2
<1> QED
  BY <1>1, <1>4 DEF ExactInv

(* A step that changes no list.                                             *)
LEMMA ExactFrame ==
  ASSUME Exact, NEW t \in Tasks, Alone(t),
         UNCHANGED <<vacant, populated, known, members>>, ExactAt(task[t])'
  PROVE  ExactInv'
<1>1. ASSUME NEW u \in Tasks, u # t
      PROVE  ExactAt(task[u])'
  <2>1. task'[u] = task[u] /\ ExactAt(task[u])
    BY <1>1 DEF Alone, Exact
  <2> QED
    BY <2>1 DEF ExactAt
<1> QED
  BY <1>1 DEF ExactInv, Exact

ExactLocs == {"hash_populated", "hash_insert", "topic_insert", "topic_promote",
              "leave", "leave_populated"}

LEMMA ExactKept ==
  ASSUME TypeOK, PlaceInv, TypeOK', PlaceInv', KnownInv, MapInv, ExactInv,
         NEW t \in Tasks, Step(t)
  PROVE  ExactInv'
<1> SUFFICES ASSUME raced' \cap Inserting = {}
             PROVE  ExactInv'
  BY DEF ExactInv
<1>0. Alone(t)
  BY StepAlone
<1>r. raced \cap Inserting = {} /\ WhileLeaving \notin raced'
  BY <1>0 DEF Alone, Inserting
<1>e. Exact /\ ExactAt(task[t])
  BY <1>r, ExactBefore DEF Exact
<1>c. \A u \in Tasks : u # t => Apart(t, u)
  BY <1>r, ApartAre
<1>a. ASSUME Loc(task'[t]) \notin ExactLocs
      PROVE  ExactAt(task[t])'
  <2>1. task'[t].held = {}
    BY <1>a, HeldThen DEF ExactLocs, None
  <2> QED
    BY <1>a, <2>1 DEF ExactAt, ExactLocs
<1>k. ASSUME vacant = None, populated = None,
             \A u \in Tasks : Loc(task[u]) # "topic_promote"
      PROVE  ~known
  BY <1>k, HeldAt DEF KnownInv
<1>1. CASE Swarm(t) \/ MessageStore(t) \/ History(t)
  <2>1. Loc(task'[t]) \notin ExactLocs
    BY <1>1, OtherStores DEF Somewhere, ExactLocs
  <2> QED
    BY <1>0, <1>1, <1>a, <1>e, <2>1, OtherStores, ExactFrame
<1>2. CASE Calls(t)
  <2>1. UNCHANGED <<vacant, populated, known, members>>
    BY <1>2, CallsMove DEF storeVars, pastVars
  <2>2. task'[t].held = {}
    BY <1>2, CallsMove, HeldThen DEF Starts, None
  <2>3. Loc(task'[t]) = "leave" /\ task'[t].knew => vacant # None \/ populated # None
    BY <1>2, <1>r, CallsMove, KnownAtCall
  <2>4. Loc(task'[t]) \in Starts
    BY <1>2, CallsMove
  <2>5. ExactAt(task[t])'
    BY <2>1, <2>2, <2>3, <2>4 DEF ExactAt, Starts
  <2> QED
    BY <1>0, <1>e, <2>1, <2>5, ExactFrame
<1>3. CASE Reads(t)
  <2>1. UNCHANGED <<vacant, populated, known, members>>
    BY <1>3, ReadsFrame
  <2>2. ASSUME Loc(task[t]) \in HashLocs \cup TopicLocs, Loc(task[t]) # "topic_promote"
        PROVE  \A u \in Tasks : Loc(task[u]) # "topic_promote"
    BY <1>c, <2>2 DEF Apart, TopicLocs
  <2>3. ExactAt(task[t])'
    <3>1. CASE HashVacant(t)
      <4>1. Loc(task'[t]) \in {"join", "subscribe"}
            \/ (vacant = None /\ Loc(task'[t]) = "hash_populated")
        BY <3>1, TopicMovesAre DEF TopicMoves, Hashed, Continues
      <4>2. Loc(task'[t]) # "topic_promote"
        BY <4>1
      <4>3. task'[t].held = {}
        BY <4>2, HeldThen DEF None
      <4> QED
        BY <2>1, <4>1, <4>3 DEF ExactAt
    <3>2. CASE HashPopulated(t)
      <4>1. /\ Loc(task[t]) = "hash_populated"
            /\ \/ Loc(task'[t]) \in {"join", "subscribe"}
               \/ populated = None /\ Loc(task'[t]) = "hash_insert"
        BY <3>2, TopicMovesAre DEF TopicMoves, Hashed, Continues
      <4>2. vacant = None
        BY <1>e, <4>1 DEF ExactAt
      <4>3. \A u \in Tasks : Loc(task[u]) # "topic_promote"
        BY <2>2, <4>1 DEF HashLocs
      <4>4. Loc(task'[t]) = "hash_insert" => ~known'
        BY <1>k, <2>1, <4>1, <4>2, <4>3
      <4>5. Loc(task'[t]) # "topic_promote"
        BY <4>1
      <4>6. task'[t].held = {}
        BY <4>5, HeldThen DEF None
      <4> QED
        BY <4>1, <4>4, <4>6 DEF ExactAt
    <3>3. CASE TopicPopulated(t)
      <4>1. /\ Loc(task[t]) = "topic_populated"
            /\ \/ Loc(task'[t]) = "subscribe"
               \/ populated = None /\ Loc(task'[t]) = "topic_insert"
        BY <3>3, TopicMovesAre DEF TopicMoves, Continues
      <4>2. vacant = None
        BY <1>e, <4>1 DEF Exact
      <4>3. \A u \in Tasks : Loc(task[u]) # "topic_promote"
        BY <2>2, <4>1 DEF TopicLocs
      <4>4. Loc(task'[t]) = "topic_insert" => ~known'
        BY <1>k, <2>1, <4>1, <4>2, <4>3
      <4>5. Loc(task'[t]) # "topic_promote"
        BY <4>1
      <4>6. task'[t].held = {}
        BY <4>5, HeldThen DEF None
      <4> QED
        BY <4>1, <4>4, <4>6 DEF ExactAt
    <3>4. CASE \/ SubscribedContains(t) \/ SubscribedInsert(t) \/ Unsubscribe(t)
               \/ ParticipantsPopulated(t) \/ ParticipantsVacant(t)
      <4>1. Loc(task'[t]) \notin ExactLocs
        BY <3>4, TopicMovesAre DEF TopicMoves, Continues, Ends, ExactLocs
      <4> QED
        BY <1>a, <4>1
    <3> QED
      BY <1>3, <3>1, <3>2, <3>3, <3>4 DEF Reads
  <2> QED
    BY <1>0, <1>e, <2>1, <2>3, ExactFrame
<1>4. CASE Joins(t)
  <2> DEFINE p == task[t].arg
  <2>0. vacant \in Held /\ populated \in Held
    BY DEF TypeOK, Held
  <2>1. SameMaps
    BY <1>4, JoinsFrame
  <2>2. ASSUME vacant # None \/ populated # None, Loc(task'[t]) = "idle",
               vacant' \subseteq {members'}, populated' \subseteq {members'}
        PROVE  ExactInv'
    BY <1>0, <1>e, <2>1, <2>2, ExactJoined
  <2>3. /\ vacant \subseteq {members} /\ populated \subseteq {members}
        /\ vacant # None => populated = {}
        /\ populated # None => vacant = {}
    BY <1>e DEF Exact, None
  <2>4. CASE JoinVacant(t) /\ vacant # None
    <3>1. /\ vacant' = {l \cup {p} : l \in vacant} /\ members' = members \cup {p}
          /\ populated' = populated /\ Loc(task'[t]) = "idle"
      BY <2>4, TopicMovesAre DEF JoinVacant, TopicMoves, Ends
    <3>2. vacant' \subseteq {members'}
      BY <2>0, <2>3, <2>4, <3>1, ListJoined
    <3> QED
      BY <2>2, <2>3, <2>4, <3>1, <3>2
  <2>5. CASE LeaveVacant(t) /\ vacant # None
    <3>1. /\ vacant' = {l \ {p} : l \in vacant} /\ members' = members \ {p}
          /\ populated' = populated /\ Loc(task'[t]) = "idle"
      BY <2>5, TopicMovesAre DEF LeaveVacant, TopicMoves, Ends
    <3>2. vacant' \subseteq {members'}
      BY <2>0, <2>3, <2>5, <3>1, ListJoined
    <3> QED
      BY <2>2, <2>3, <2>5, <3>1, <3>2
  <2>6. CASE JoinPopulated(t) /\ populated # None
    <3>1. /\ populated' = {l \cup {p} : l \in populated} /\ members' = members \cup {p}
          /\ vacant' = vacant /\ Loc(task'[t]) = "idle"
      BY <2>6, TopicMovesAre DEF JoinPopulated, TopicMoves, Ends
    <3>2. populated' \subseteq {members'}
      BY <2>0, <2>3, <2>6, <3>1, ListJoined
    <3> QED
      BY <2>2, <2>3, <2>6, <3>1, <3>2
  <2>7. CASE LeavePopulated(t) /\ populated # None
    <3>1. /\ populated' = {l \ {p} : l \in populated} /\ members' = members \ {p}
          /\ vacant' = vacant /\ Loc(task'[t]) = "idle"
      BY <2>7, TopicMovesAre DEF LeavePopulated, TopicMoves, Ends
    <3>2. populated' \subseteq {members'}
      BY <2>0, <2>3, <2>7, <3>1, ListJoined
    <3> QED
      BY <2>2, <2>3, <2>7, <3>1, <3>2
  <2>8. CASE JoinVacant(t) /\ vacant = None
    <3>1. UNCHANGED <<vacant, populated, known, members>>
      BY <2>8 DEF JoinVacant
    <3>2. Loc(task'[t]) \notin ExactLocs
      BY <2>8, TopicMovesAre DEF TopicMoves, Continues, ExactLocs
    <3> QED
      BY <1>0, <1>a, <1>e, <3>1, <3>2, ExactFrame
  <2>9. CASE JoinPopulated(t) /\ populated = None
    <3>1. populated' = {l \cup {p} : l \in populated} /\ UNCHANGED <<vacant, known, members>>
      BY <2>9 DEF JoinPopulated
    <3>2. populated' = populated
      BY <2>9, <3>1 DEF None
    <3>3. Loc(task'[t]) \notin ExactLocs
      BY <2>9, TopicMovesAre DEF TopicMoves, Continues, ExactLocs
    <3> QED
      BY <1>0, <1>a, <1>e, <3>1, <3>2, <3>3, ExactFrame
  <2>10. CASE LeaveVacant(t) /\ vacant = None
    <3>1. UNCHANGED <<vacant, populated, known, members>>
      BY <2>10 DEF LeaveVacant
    <3>2. /\ Loc(task[t]) = "leave" /\ Loc(task'[t]) = "leave_populated"
          /\ task'[t].knew = task[t].knew
      BY <2>10, TopicMovesAre DEF TopicMoves, Continues
    <3>3. task'[t].held = {}
      BY <3>2, HeldThen DEF None
    <3>4. ExactAt(task[t])'
      BY <1>e, <2>10, <3>1, <3>2, <3>3 DEF ExactAt
    <3> QED
      BY <1>0, <1>e, <3>1, <3>4, ExactFrame
  <2>11. CASE LeavePopulated(t) /\ populated = None
    <3>1. Loc(task[t]) = "leave_populated" /\ Loc(task'[t]) \notin ExactLocs
      BY <2>11, TopicMovesAre DEF TopicMoves, Ends, ExactLocs
    <3>2. ~task[t].knew
      BY <1>e, <2>11, <3>1 DEF ExactAt
    <3>3. /\ populated' = {l \ {p} : l \in populated} /\ UNCHANGED <<vacant, known>>
          /\ members' = members
      BY <2>11, <3>2 DEF LeavePopulated
    <3>4. populated' = populated
      BY <2>11, <3>3 DEF None
    <3> QED
      BY <1>0, <1>a, <1>e, <3>1, <3>3, <3>4, ExactFrame
  <2> QED
    BY <1>4, <2>4, <2>5, <2>6, <2>7, <2>8, <2>9, <2>10, <2>11 DEF Joins
<1>5. CASE HashInsert(t)
  <2>1. /\ Loc(task[t]) = "hash_insert" /\ Loc(task'[t]) \notin ExactLocs
        /\ vacant' = {{}} /\ known' = TRUE /\ UNCHANGED <<populated, members>>
    BY <1>5, TopicMovesAre DEF TopicMoves, Hashed, Continues, HashInsert, ExactLocs
  <2>2. ~known /\ members = {}
    BY <1>e, <2>1 DEF Exact, ExactAt
  <2>3. ASSUME NEW u \in Tasks, u # t
        PROVE  ExactAt(task[u])'
    <3>1. task'[u] = task[u] /\ ExactAt(task[u]) /\ Apart(t, u)
      BY <1>0, <1>c, <1>e, <2>3 DEF Alone, Exact
    <3>2. Loc(task[u]) \notin {"hash_populated", "hash_insert", "topic_insert"}
      BY <2>1, <3>1 DEF Apart, HashLocs, TopicLocs
    <3> QED
      BY <2>1, <3>1, <3>2, HeldHas DEF ExactAt
  <2>4. vacant' \subseteq {members'} /\ populated' \subseteq {members'}
    BY <1>e, <2>1, <2>2 DEF Exact
  <2> QED
    BY <1>a, <2>1, <2>3, <2>4 DEF ExactInv
<1>6. CASE TopicInsert(t)
  <2>1. /\ Loc(task[t]) = "topic_insert" /\ Loc(task'[t]) \notin ExactLocs
        /\ populated' = {{}} /\ known' = TRUE /\ UNCHANGED <<vacant, members>>
    BY <1>6, TopicMovesAre DEF TopicMoves, Continues, TopicInsert, ExactLocs
  <2>2. ~known /\ members = {}
    BY <1>e, <2>1 DEF Exact, ExactAt
  <2>3. ASSUME NEW u \in Tasks, u # t
        PROVE  ExactAt(task[u])'
    <3>1. task'[u] = task[u] /\ ExactAt(task[u]) /\ Apart(t, u)
      BY <1>0, <1>c, <1>e, <2>3 DEF Alone, Exact
    <3>2. Loc(task[u]) \notin {"hash_insert", "topic_insert", "topic_promote"}
      BY <2>1, <3>1 DEF Apart, HashLocs, TopicLocs
    <3> QED
      BY <2>1, <3>1, <3>2, HeldHas DEF ExactAt
  <2>4. vacant' \subseteq {members'} /\ populated' \subseteq {members'}
    BY <1>e, <2>1, <2>2 DEF Exact
  <2> QED
    BY <1>a, <2>1, <2>3, <2>4 DEF ExactInv
<1>7. CASE TopicPromote(t)
  <2>1. /\ Loc(task[t]) = "topic_promote" /\ Loc(task'[t]) \notin ExactLocs
        /\ populated' = task[t].held /\ UNCHANGED <<vacant, known, members>>
    BY <1>7, TopicMovesAre DEF TopicMoves, Continues, TopicPromote, ExactLocs, pastVars
  <2>2. populated' # None /\ populated' \subseteq {members}
    BY <1>e, <2>1, HeldAt DEF ExactAt
  <2>3. ASSUME NEW u \in Tasks, u # t
        PROVE  ExactAt(task[u])'
    <3>1. task'[u] = task[u] /\ ExactAt(task[u]) /\ Apart(t, u)
      BY <1>0, <1>c, <1>e, <2>3 DEF Alone, Exact
    <3>2. Loc(task[u]) # "topic_promote"
      BY <2>1, <3>1 DEF Apart, TopicLocs
    <3> QED
      BY <2>1, <2>2, <3>1, <3>2 DEF ExactAt
  <2> QED
    BY <1>a, <1>e, <2>1, <2>2, <2>3 DEF ExactInv, Exact
<1>8. CASE TopicRemove(t)
  <2>1. /\ Loc(task[t]) = "insert_topic" /\ vacant' = None
        /\ UNCHANGED <<populated, known, members>>
    BY <1>8, TopicMovesAre DEF TopicMoves, TopicRemove, pastVars
  <2>2. ExactAt(task[t])'
    <3>1. CASE vacant = None
      <4>1. Loc(task'[t]) \notin ExactLocs
        BY <1>8, <3>1, TopicMovesAre DEF TopicMoves, Continues, ExactLocs
      <4> QED
        BY <1>a, <4>1
    <3>2. CASE vacant # None
      <4>1. Loc(task'[t]) = "topic_promote" /\ task'[t].held = vacant
        BY <1>8, <3>2, TopicMovesAre DEF TopicMoves, Continues
      <4>2. populated = None /\ vacant \subseteq {members}
        BY <1>e, <3>2 DEF Exact
      <4> QED
        BY <2>1, <4>1, <4>2 DEF ExactAt
    <3> QED
      BY <3>1, <3>2
  <2>3. ASSUME NEW u \in Tasks, u # t
        PROVE  ExactAt(task[u])'
    <3>1. task'[u] = task[u] /\ ExactAt(task[u]) /\ Apart(t, u)
      BY <1>0, <1>c, <1>e, <2>3 DEF Alone, Exact
    <3>2. Loc(task[u]) \notin {"leave", "leave_populated"}
      BY <2>1, <3>1 DEF Apart, TopicLocs
    <3> QED
      BY <2>1, <3>1, <3>2 DEF ExactAt
  <2>4. vacant' \subseteq {members'}
    BY <2>1 DEF None
  <2> QED
    BY <1>e, <2>1, <2>2, <2>3, <2>4 DEF ExactInv, Exact
<1> QED
  BY <1>1, <1>2, <1>3, <1>4, <1>5, <1>6, <1>7, <1>8, TopicSteps DEF Step

-----------------------------------------------------------------------------
(* The invariant.                                                           *)

LEMMA InitInv == Init => Inv
<1> SUFFICES ASSUME Init
             PROVE  Inv
  OBVIOUS
<1>0. /\ vacant = {} /\ populated = {} /\ subscribed = FALSE /\ messages = {}
      /\ history = {} /\ pushed = <<>> /\ live = FALSE /\ calls = 0
      /\ known = FALSE /\ members = {} /\ expected = <<>>
      /\ task = [t \in Tasks |-> Idle] /\ crossed = {}
  BY DEF Init, None
<1>1. \A t \in Tasks : task[t] = Idle
  BY <1>0
<1>2. \A t \in Tasks :
        /\ task[t] \in Task /\ task[t].op = "participants" /\ task[t].held = {}
        /\ ~task[t].missed /\ Placed(task[t]) /\ ArgOK(task[t])
        /\ Loc(task[t]) = "idle" /\ task[t].todo = <<>>
  BY <1>1, IdleIs DEF None
<1>3. TypeOK
  <2>1. vacant \in Held /\ populated \in Held
    BY <1>0 DEF Held, None
  <2>2. <<>> \in Seq(Messages)
    OBVIOUS
  <2>3. task \in [Tasks -> Task]
    BY <1>0, IdleIs
  <2>4. \A t \in Tasks : task[t].held # None <=> At(t, "topic_promote")
    BY <1>2 DEF At, Busy, None
  <2>5. calls \in 0 .. MaxCalls
    BY <1>0, MaxCallsAssumption
  <2>6. messages = None /\ history = None /\ messages # {<<>>}
    BY <1>0 DEF None
  <2> QED
    BY <1>0, <2>1, <2>2, <2>3, <2>4, <2>5, <2>6 DEF TypeOK, Held
<1>4. PlaceInv
  <2>1. ASSUME NEW t \in Tasks, NEW u \in Tasks
        PROVE  Clashes(task[t], task[u])
    BY <1>2 DEF Clashes, HashLocs, TopicLocs
  <2> QED
    BY <1>2, <2>1 DEF PlaceInv
<1>5. KnownInv /\ MapInv
  BY <1>0, <1>2 DEF KnownInv, MapInv, None
<1>6. FoundInv
  BY <1>2 DEF FoundInv, FoundAt
<1>7. ExactInv
  BY <1>0, <1>2 DEF ExactInv, ExactAt
<1>8. SubscribeInv
  BY <1>0, <1>2 DEF SubscribeInv, Subscribes, Unsubscribes, SubOps
<1>9. MessagesInv /\ HistoryInv
  BY <1>0, <1>2 DEF MessagesInv, HistoryInv, None
<1> QED
  BY <1>3, <1>4, <1>5, <1>6, <1>7, <1>8, <1>9 DEF Inv

LEMMA NextInv == Inv /\ [Next]_vars => Inv'
<1> SUFFICES ASSUME Inv, [Next]_vars
             PROVE  Inv'
  OBVIOUS
<1>0. /\ TypeOK /\ PlaceInv /\ KnownInv /\ MapInv /\ FoundInv /\ ExactInv
      /\ SubscribeInv /\ MessagesInv /\ HistoryInv
  BY DEF Inv
<1>1. CASE Next
  <2>1. PICK t \in Tasks : Step(t)
    BY <1>1 DEF Next, Step
  <2>2. TypeOK' /\ PlaceInv'
    BY <1>0, <2>1, TypeKept, PlaceKept
  <2>3. KnownInv' /\ MapInv' /\ FoundInv' /\ ExactInv'
    BY <1>0, <2>1, <2>2, KnownKept, MapKept, FoundKept, ExactKept
  <2>4. SubscribeInv' /\ MessagesInv' /\ HistoryInv'
    BY <1>0, <2>1, <2>2, SubscribeKept, MessagesKept, HistoryKept
  <2> QED
    BY <2>2, <2>3, <2>4 DEF Inv
<1>2. CASE UNCHANGED vars
  <2>1. UNCHANGED <<vacant, populated, subscribed, messages, history, live, task,
                    calls, known, members, expected, pushed, raced, crossed>>
    BY <1>2 DEF vars, storeVars, pastVars, historyVars
  <2>2. TypeOK'
    BY <1>0, <2>1 DEF TypeOK, At, Busy
  <2>3. PlaceInv'
    BY <1>0, <2>1 DEF PlaceInv, Clashes
  <2>4. KnownInv' /\ MapInv'
    BY <1>0, <2>1 DEF KnownInv, MapInv
  <2>5. FoundInv'
    BY <1>0, <2>1 DEF FoundInv, FoundAt
  <2>6. ExactInv'
    BY <1>0, <2>1 DEF ExactInv, ExactAt
  <2>7. SubscribeInv' /\ MessagesInv' /\ HistoryInv'
    BY <1>0, <2>1 DEF SubscribeInv, MessagesInv, HistoryInv
  <2> QED
    BY <2>2, <2>3, <2>4, <2>5, <2>6, <2>7 DEF Inv
<1> QED
  BY <1>1, <1>2

THEOREM Invariant == Spec => []Inv
BY InitInv, NextInv, PTL DEF Spec

-----------------------------------------------------------------------------
(* What follows.                                                            *)

LEMMA AtLoc ==
  ASSUME NEW t \in Tasks, NEW l, l # "idle"
  PROVE  At(t, l) <=> Loc(task[t]) = l
BY DEF At, Busy, Loc

(* Between calls every task is idle, or panicked in join_topic.             *)
LEMMA QuiescentLocs ==
  ASSUME Quiescent, NEW t \in Tasks
  PROVE  Loc(task[t]) \in {"idle", "unreachable"}
BY DEF Quiescent, At, Busy, Loc

(* The stores and the tasks have the types the code gives them, and a task  *)
(* holds a list exactly between the vacant.remove and the populated.insert  *)
(* of insert_topic (gossipsub.rs:733-735).                                  *)
THEOREM TypeCorrect == Spec => []TypeOK
<1>1. Inv => TypeOK
  BY DEF Inv
<1> QED
  BY <1>1, Invariant, PTL

(* A topic that has been inserted is never lost, whatever overlaps: it is   *)
(* in one of the maps of MemTopicStore or an insert_topic is moving it      *)
(* (gossipsub.rs:733-735).                                                  *)
THEOREM TopicNeverLost == Spec => []KnownNeverLost
<1>1. Inv => KnownNeverLost
  BY DEF Inv, KnownInv, KnownNeverLost
<1> QED
  BY <1>1, Invariant, PTL

(* A topic is in at most one of the two maps of MemTopicStore as long as no *)
(* insert_hash overlapped an insert_topic (gossipsub.rs:644, 732-751).      *)
THEOREM TopicInOneMap == Spec => []OneMap
<1>1. Inv => OneMap
  BY DEF Inv, MapInv, OneMap
<1> QED
  BY <1>1, Invariant, PTL

(* participants finds every topic known when it was called, and join_topic  *)
(* does not reach its unreachable!(), unless some insert_topic had the      *)
(* topic out of both maps at a moment of that very call: what happened      *)
(* during earlier calls, or in the rest of insert_topic, excuses nothing    *)
(* (gossipsub.rs:733-735, 770-788).                                         *)
THEOREM KnownTopicFound == Spec => []KnownIsFound
<1>1. ASSUME Inv
      PROVE  KnownIsFound
  <2>1. ASSUME NEW t \in Tasks, task[t].missed \/ At(t, "unreachable")
        PROVE  t \in crossed
    <3>1. FoundAt(t)
      BY <1>1 DEF Inv, FoundInv
    <3>2. At(t, "unreachable") => Loc(task[t]) = "unreachable"
      BY AtLoc
    <3> QED
      BY <2>1, <3>1, <3>2 DEF FoundAt
  <2> QED
    BY <2>1 DEF KnownIsFound
<1> QED
  BY <1>1, Invariant, PTL

(* Between calls the participants of a topic are the peers that joined and  *)
(* did not leave, through its promotion too, as long as no two insertions   *)
(* of the topic overlapped and no leave_topic overlapped a promotion        *)
(* (gossipsub.rs:732-797).                                                  *)
THEOREM ParticipantsRight == Spec => []ParticipantsExact
<1>1. ASSUME Inv, Quiescent, raced \cap Inserting = {}
      PROVE  (IF populated # None THEN populated ELSE vacant) =
             (IF known THEN {members} ELSE None)
  <2>1. Exact /\ KnownInv /\ TypeOK
    BY <1>1, ExactBefore DEF Inv
  <2>2. \A t \in Tasks : task[t].held = None
    BY <1>1, <2>1, QuiescentLocs, HeldAt
  <2>3. known <=> vacant # None \/ populated # None
    BY <2>1, <2>2 DEF KnownInv
  <2>4. vacant \subseteq {members} /\ populated \subseteq {members}
    BY <2>1 DEF Exact
  <2> QED
    BY <2>3, <2>4 DEF None
<1>2. Inv => ParticipantsExact
  BY <1>1 DEF ParticipantsExact, AllListed, Inserting
<1> QED
  BY <1>2, Invariant, PTL

(* Between calls the topic store says subscribed exactly when the swarm is, *)
(* as long as no unsubscribe overlapped a subscribe (gossipsub.rs:148,      *)
(* 170).                                                                    *)
THEOREM SubscriptionsRight == Spec => []SubscriptionsAgree
<1>1. ASSUME Inv, Quiescent, raced \cap Unordered = {}
      PROVE  subscribed = live
  <2>1. ASSUME NEW t \in Tasks
        PROVE  ~Subscribes(task[t]) /\ ~Unsubscribes(task[t])
    <3>1. task[t].op \in Ops /\ Placed(task[t])
      BY <1>1 DEF Inv, TypeOK, PlaceInv, Task
    <3>2. Loc(task[t]) \in {"idle", "unreachable"}
      BY <1>1, QuiescentLocs
    <3> QED
      BY <3>1, <3>2, SubscribesAt DEF HashLocs, TopicLocs, SubLocs
  <2> QED
    BY <1>1, <2>1 DEF Inv, SubscribeInv
<1>2. Inv => SubscriptionsAgree
  BY <1>1 DEF SubscriptionsAgree
<1> QED
  BY <1>2, Invariant, PTL

(* Both message stores have every message inserted since they were cleared, *)
(* once and in order, as long as no two first inserts of a topic overlapped *)
(* (gossipsub.rs:832-839) and no record was inserted and no store emptied   *)
(* during a push (messaging.rs:175-193).                                    *)
THEOREM MessagesRight == Spec => []MessagesComplete
<1>1. Inv => MessagesComplete
  BY DEF Inv, MessagesInv, HistoryInv, MessagesComplete, AllStored, AllPushed
<1> QED
  BY <1>1, Invariant, PTL
=============================================================================
