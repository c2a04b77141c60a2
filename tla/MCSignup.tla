------------------------------ MODULE MCSignup ------------------------------
(* Instances of Signup for TLC. *)
EXTENDS Signup

CONSTANTS c1, c2

\* After one name with a code each, or after a name each with one code.
Rivals == {[c \in Calls |-> [name |-> "name", code |-> c]],
           [c \in Calls |-> [name |-> c, code |-> "code"]]}

\* The codes of all of these at once; codes nobody asks for, in two shares; and
\* more than one call may ask for.
Batches == {<<{c1, c2, "code"}>>, <<{"spare"}, {"odd"}>>,
            <<{c1, "code", "odd"}, {c2, "spare", "even"}>>}
=============================================================================
