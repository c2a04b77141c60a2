------------------------------- MODULE MCReads -------------------------------
(* Reads of a server's repositories while they are written: downloads, each   *)
(* in one transaction, and listings, each page in a transaction of its own.   *)
(* A download and a walk share nothing but the tables they read, so a         *)
(* behaviour has downloads or a walk.                                         *)
EXTENDS Downloads, Listings

all == <<vars, walkVars>>

\* No walk is under way and its tables are empty.
NoWalk ==
  /\ kind = None /\ newer = 0
  /\ record = {} /\ record_blob = {} /\ blob = {} /\ actor = {} /\ joining = {}
  /\ clock = 0 /\ writes = 0
  /\ cursor = <<>> /\ listed = <<>> /\ finished = FALSE /\ steady = {} /\ ever = {}

ReadsInit ==
  \/ Init /\ NoWalk
  \/ Init /\ rev = 0 /\ WalkInit

ReadsNext ==
  \/ kind = None /\ Next /\ UNCHANGED walkVars
  \/ kind # None /\ WalkNext /\ UNCHANGED vars

\* As FairSpec of Downloads: the walk's client owes nothing.
FairReads ==
  /\ ReadsInit /\ [][ReadsNext]_all
  /\ \A d \in Readers : WF_vars(Acquire(d)) /\ WF_vars(Works(d))
=============================================================================
