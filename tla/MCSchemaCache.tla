---------------------------- MODULE MCSchemaCache ----------------------------
(* SchemaCache with two processes; the first one has two calls.            *)
EXTENDS SchemaCache

CONSTANTS p1, p2, c1, c2, c3

Homes == [c \in Calls |-> IF c = c3 THEN p2 ELSE p1]
=============================================================================
