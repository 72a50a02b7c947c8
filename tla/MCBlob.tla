------------------------------- MODULE MCBlob -------------------------------
(* Small instances of Blob: who is connected, who sends what. *)
EXTENDS Blob

CONSTANTS alice, bob, carol,  \* peers
          whole, cut          \* files

\* alice and bob hold one negotiated connection.
PairUp == {<<alice, bob, 1>>, <<bob, alice, 1>>}
\* alice and bob are both connected to carol.
StarUp == {<<alice, carol, 1>>, <<carol, alice, 1>>,
           <<bob, carol, 1>>, <<carol, bob, 1>>}

\* Lengths in chunks: cut was announced with one chunk and then truncated.
Lengths == [x \in Files |-> IF x = whole THEN 2 ELSE 1]
Data    == [x \in Files |-> IF x = whole THEN 2 ELSE 0]

\* Only alice sends, once or twice.
OneSend  == [p \in {alice, bob} |-> IF p = alice THEN 1 ELSE 0]
TwoSends == [p \in {alice, bob} |-> IF p = alice THEN 2 ELSE 0]
\* alice and bob send once each.
StarSends == [p \in {alice, bob, carol} |-> IF p = carol THEN 0 ELSE 1]

=============================================================================
