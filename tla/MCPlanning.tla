----------------------------- MODULE MCPlanning -----------------------------
(* Requests to write, over two collections held to one record and one not. *)
EXTENDS Planning

\* The keys in order: a block, three follows and a post.
Collections == <<"block", "follow", "follow", "follow", "post">>

\* Follows of two accounts, a block of the first and a post.
Types == [v \in Values |-> CASE v = "blockA" -> "block" [] v = "post" -> "post" [] OTHER -> "follow"]
Subjects == [v \in Values |-> CASE v \in {"followA", "blockA"} -> "A"
                                [] v = "followB" -> "B"
                                [] OTHER -> None]

\* Oldest first and newest first.
BothWays == {<<1, 2, 3, 4, 5>>, <<5, 4, 3, 2, 1>>}

\* Keys beside one another on one layer, on neighbouring layers and with a
\* layer skipped between them, the high one first, last and in the middle.
Shapes == {<<0, 2, 0, 1, 0>>, <<2, 0, 1, 0, 0>>, <<0, 0, 1, 0, 2>>}

=============================================================================
