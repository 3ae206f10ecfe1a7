--------------------------- MODULE MCCollabCluster ---------------------------
(* CollabCluster on small instances: two clients on one instance, a second *)
(* instance that stays.                                                    *)
EXTENDS CollabCluster

CONSTANTS c1, c2, n1, n2

Together == [c \in Clients |-> n1]
Apart == [c \in Clients |-> IF c = c1 THEN n1 ELSE n2]
=============================================================================
