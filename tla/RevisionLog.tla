----------------------------- MODULE RevisionLog -----------------------------
(***************************************************************************)
(* What writing to a repository promises whoever follows its log           *)
(* (docs/architecture.md 136-141): revisions are made one at a time, each  *)
(* built on the one before it, and each is in the log, or lost to it for   *)
(* good, before the next one is made.                                      *)
(***************************************************************************)
EXTENDS Integers, Sequences

CONSTANTS Requests,  \* calls that write
          MICROS,    \* one past the largest timestamp of a revision
          None       \* no revision waiting

VARIABLES root,      \* the revision the repository is on
          pending,   \* the revision made and not yet in the log
          log        \* what a consumer is handed

Init ==
  /\ root = [rev |-> 0, since |-> -1, by |-> None, holds |-> {}]
  /\ pending = None
  /\ log = <<>>

\* A call's writes become the next revision.
Commit(r) ==
  /\ pending = None
  /\ r \notin root.holds
  /\ \E rev \in (root.rev + 1)..(MICROS - 1) :
       root' = [rev |-> rev, since |-> root.rev, by |-> r, holds |-> root.holds \cup {r}]
  /\ pending' = root'
  /\ UNCHANGED log

\* The log gets it.
Publish ==
  /\ pending # None
  /\ log' = Append(log, [rev |-> pending.rev, since |-> pending.since])
  /\ pending' = None
  /\ UNCHANGED root

\* The append fails, or the process dies first.
Lose ==
  /\ pending # None
  /\ pending' = None
  /\ UNCHANGED <<root, log>>

Next == (\E r \in Requests : Commit(r)) \/ Publish \/ Lose

Spec == Init /\ [][Next]_<<root, pending, log>>
=============================================================================
