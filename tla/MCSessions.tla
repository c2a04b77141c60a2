----------------------------- MODULE MCSessions -----------------------------
(* Access, over Sessions, for TLC: calls spread over two servers.            *)
EXTENDS Access

CONSTANTS r1, r2, l1

TwoServers == [c \in Refreshes \cup Logins |-> IF c = r2 THEN "b" ELSE "a"]
=============================================================================
