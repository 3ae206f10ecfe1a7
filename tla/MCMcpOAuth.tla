----------------------------- MODULE MCMcpOAuth -----------------------------
(* McpOAuth for one or two clients of one user.                            *)
EXTENDS McpOAuth

CONSTANTS a, b, pa, pb, x, y, u

OfClient == [p \in Parties |-> IF p = pa THEN a ELSE b]
OneUser == [p \in Parties |-> u]
OnlyA == [c \in Codes |-> pa]
OneEach == [c \in Codes |-> IF c = x THEN pa ELSE pb]
=============================================================================
