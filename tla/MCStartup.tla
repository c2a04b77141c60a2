------------------------------ MODULE MCStartup ------------------------------
(* Startup for TLC: two servers, the second newer than the first, and the     *)
(* command.                                                                   *)
EXTENDS Startup

CONSTANTS s1, s2, c1

\* The second server knows a migration more.
Versions == [p \in Processes |-> IF p = s1 THEN 1 ELSE 2]
=============================================================================
