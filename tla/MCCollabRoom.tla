---------------------------- MODULE MCCollabRoom ----------------------------
(* CollabRoom on small instances: two clients, on one node or on two.      *)
EXTENDS CollabRoom, TLC

CONSTANTS c1, c2, n1, n2

OneNode == [c \in Clients |-> n1]
TwoNodes == [c \in Clients |-> IF c = c1 THEN n1 ELSE n2]

Unseeded == {NoChanges}
Seeded == {[f \in Fields |-> v] : v \in Values}

\* Slots and fields are interchangeable, and so are the clients: on one node
\* alone, on two together with their nodes.
Swap == c1 :> c2 @@ c2 :> c1 @@ n1 :> n2 @@ n2 :> n1
OneNodeSymmetry == Permutations(Slots) \cup Permutations(Fields) \cup Permutations(Clients)
TwoNodeSymmetry == Permutations(Slots) \cup Permutations(Fields) \cup {Swap}
=============================================================================
