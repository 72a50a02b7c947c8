------------------------------ MODULE Multicast -----------------------------
(***************************************************************************)
(* What the users of the swarm's event channel rely on                     *)
(* (owlnest/src/net/p2p/swarm/mod.rs, EventSender): whoever is subscribed  *)
(* receives every event published from then on, once and in order, until   *)
(* it drops its receiver.  There is no buffer limit and no lagging here.   *)
(***************************************************************************)
EXTENDS Sequences

CONSTANTS
  Receivers,   \* whoever may hold a receiver
  Permanent,   \* the receivers that exist from the start
  Events       \* what may be published

VARIABLES
  subs,        \* the receivers alive now
  unread       \* unread[r]: events published and not yet received by r

vars == <<subs, unread>>

Init ==
  /\ subs = Permanent
  /\ unread = [r \in Receivers |-> <<>>]

Subscribe(r) ==
  /\ r \notin subs
  /\ subs' = subs \cup {r}
  /\ UNCHANGED unread

Publish(e) ==
  /\ unread' = [r \in Receivers |->
                  IF r \in subs THEN Append(unread[r], e) ELSE unread[r]]
  /\ UNCHANGED subs

Receive(r) ==
  /\ r \in subs /\ unread[r] # <<>>
  /\ unread' = [unread EXCEPT ![r] = Tail(@)]
  /\ UNCHANGED subs

Drop(r) ==
  /\ r \in subs \ Permanent
  /\ subs' = subs \ {r}
  /\ unread' = [unread EXCEPT ![r] = <<>>]

Next ==
  \/ \E r \in Receivers : Subscribe(r) \/ Receive(r) \/ Drop(r)
  \/ \E e \in Events : Publish(e)

Spec == Init /\ [][Next]_vars
=============================================================================
