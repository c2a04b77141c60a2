------------------------------- MODULE Startup -------------------------------
(***************************************************************************)
(* Processes starting and stopping on one data directory (serve and        *)
(* reconcile in src/main.rs): opening the two databases and migrating them *)
(* (src/store/db.rs), binding the port, the marker a running server holds  *)
(* (Running in src/store.rs), and the walk an unclean stop leaves to the   *)
(* next start (Manager::reconcile in src/account.rs).                      *)
(*                                                                         *)
(* Any process may be killed at any step.  SQLite's transactions and the   *)
(* write lock they take are as SQLite promises them.                       *)
(***************************************************************************)
EXTENDS Integers, Sequences, FiniteSets

CONSTANTS Servers,    \* serve processes
          Commands,   \* reconcile processes
          Known,      \* how many migrations each process knows
          Databases,  \* the databases, in the order they are opened
          Newest,     \* how many migrations any process knows
          Accounts,   \* accounts with blobs on disk
          MaxStarts,  \* bound: processes started
          MaxFaults,  \* bound: calls that fail
          None        \* nobody

Processes == Servers \cup Commands

ASSUME StartupAssumption ==
  /\ Servers \cap Commands = {} /\ None \notin Processes
  /\ Newest \in Nat /\ Known \in [Processes -> 1..Newest]
  /\ Databases \in Nat \ {0}
  /\ MaxStarts \in Nat /\ MaxFaults \in Nat

VARIABLES ledger,   \* the migrations each database's ledger records
          schema,   \* the migrations its tables have been through
          lock,     \* who has its write lock
          marker,   \* whether the running file is there
          pc,       \* where each process is
          opening,  \* which database it is opening
          port,     \* who listens on the usual port
          found,    \* whether it found the marker
          left,     \* accounts its walk has yet to come to
          walked,   \* accounts it has been through
          pending,  \* accounts with a dropped blob whose file it has yet to unlink
          stray,    \* files nothing holds any more: none, or how old
          shared,   \* whether two servers ever had the directory at once
          spared,   \* accounts a walk left strays behind in
          starts, faults

store == <<ledger, schema>>
files == <<pending, stray, shared, spared>>
walking == <<left, walked>>
vars == <<ledger, schema, lock, marker, pc, opening, port, found, left, walked, pending, stray, shared, spared, starts, faults>>

Ages == {"none", "young", "old"}

\* A new directory, or one a server of some version left as it should.
Init ==
  /\ \E n \in 0..Newest :
       /\ ledger = [d \in 1..Databases |-> 1..n]
       /\ schema = [d \in 1..Databases |-> [i \in 1..n |-> i]]
  /\ lock = [d \in 1..Databases |-> None]
  /\ marker = FALSE
  /\ stray = [a \in Accounts |-> "none"]
  /\ pc = [p \in Processes |-> "down"]
  /\ opening = [p \in Processes |-> 1]
  /\ port = None
  /\ found = [p \in Processes |-> FALSE]
  /\ left = [p \in Processes |-> {}] /\ walked = [p \in Processes |-> {}]
  /\ pending = [p \in Processes |-> {}]
  /\ shared = FALSE /\ spared = {}
  /\ starts = 0 /\ faults = 0

Up(p) == pc[p] = "up"

\* A server that nothing but the marker can turn back now.
Bound(p) == p \in Servers /\ pc[p] \in {"look", "take", "up"}

\* Where a process is once it is gone, however it went.
Gone(p) ==
  /\ pc' = [pc EXCEPT ![p] = "down"]
  /\ lock' = [d \in DOMAIN lock |-> IF lock[d] = p THEN None ELSE lock[d]]
  /\ port' = IF port = p THEN None ELSE port
  /\ opening' = [opening EXCEPT ![p] = 1]
  /\ found' = [found EXCEPT ![p] = FALSE]
  /\ left' = [left EXCEPT ![p] = {}]
  /\ walked' = [walked EXCEPT ![p] = {}]

\* Mutant: whatever ends a start takes the marker with it.
GivesUpClean(p) == Gone(p) /\ marker' = FALSE /\ UNCHANGED <<store, files, starts>>

\* A start that fails leaves the marker as it found it: it is not yet held.
GivesUp(p) == Gone(p) /\ UNCHANGED <<marker, store, files, starts>>

Fails(p) ==
  /\ faults < MaxFaults
  /\ faults' = faults + 1
  /\ GivesUp(p)

-----------------------------------------------------------------------------
(* Opening the databases: db::open, one after the other. *)

Start(p) ==
  /\ pc[p] = "down" /\ starts < MaxStarts
  /\ starts' = starts + 1
  /\ pc' = [pc EXCEPT ![p] = "check"]
  /\ UNCHANGED <<store, lock, marker, opening, port, found, walking, files, faults>>

\* applied, against what the process knows.
Unknown(p) == ledger[opening[p]] \ 1..Known[p]

\* Mutant: everything known is owed.
OwedAll(p) == 1..Known[p]

\* outstanding.
Outstanding(p) == 1..Known[p] \ ledger[opening[p]]

\* The order migrations are listed in, and run in.
InOrder(owed) ==
  CHOOSE run \in [1..Cardinality(owed) -> owed] : \A i, j \in 1..Cardinality(owed) : i < j => run[i] < run[j]

\* The database is open: the next one, then the port or, for a command, the
\* walk.
Opened(p) ==
  IF opening[p] < Databases
  THEN /\ opening' = [opening EXCEPT ![p] = @ + 1]
       /\ pc' = [pc EXCEPT ![p] = "check"]
       /\ UNCHANGED left
  ELSE /\ pc' = [pc EXCEPT ![p] = IF p \in Servers THEN "bind" ELSE "up"]
       /\ left' = [left EXCEPT ![p] = IF p \in Servers THEN {} ELSE Accounts]
       /\ UNCHANGED opening

\* migrate reads the ledger, and writes nothing where nothing is owed.
Check(p) ==
  /\ pc[p] = "check"
  /\ \/ /\ Unknown(p) # {}
        /\ GivesUp(p)
        /\ UNCHANGED faults
     \/ /\ Unknown(p) = {} /\ 1..Known[p] \subseteq ledger[opening[p]]
        /\ Opened(p)
        /\ UNCHANGED <<store, lock, marker, port, found, walked, files, starts, faults>>
     \/ /\ Unknown(p) = {} /\ ~ (1..Known[p] \subseteq ledger[opening[p]])
        /\ pc' = [pc EXCEPT ![p] = "begin"]
        /\ UNCHANGED <<store, lock, marker, opening, port, found, walking, files, starts, faults>>

\* It takes the write lock, or runs out of patience waiting for it.
Begin(p) ==
  /\ pc[p] = "begin"
  /\ \/ /\ lock[opening[p]] = None
        /\ lock' = [lock EXCEPT ![opening[p]] = p]
        /\ pc' = [pc EXCEPT ![p] = "migrate"]
        /\ UNCHANGED <<store, marker, opening, port, found, walking, files, starts, faults>>
     \/ /\ lock[opening[p]] # None
        /\ Fails(p)

\* What is owed is worked out again inside the lock, applied in order and
\* written down, all of it or none.
Migrate(p) ==
  /\ pc[p] = "migrate"
  /\ LET d == opening[p]
     IN \/ Unknown(p) # {} /\ GivesUp(p) /\ UNCHANGED faults
        \/ Fails(p)
        \/ /\ Unknown(p) = {}
           /\ schema' = [schema EXCEPT ![d] = @ \o InOrder(Outstanding(p))]
           /\ ledger' = [ledger EXCEPT ![d] = @ \cup Outstanding(p)]
           /\ lock' = [lock EXCEPT ![d] = None]
           /\ Opened(p)
           /\ UNCHANGED <<marker, port, found, walked, files, starts, faults>>

-----------------------------------------------------------------------------
(* Serving. *)

\* The configured port is taken, or free, or one only this process is set to.
Bind(p) ==
  /\ pc[p] = "bind"
  /\ \/ port # None /\ GivesUp(p) /\ UNCHANGED faults
     \/ /\ (port = None /\ port' = p) \/ UNCHANGED port
        /\ pc' = [pc EXCEPT ![p] = "look"]
        /\ shared' = (shared \/ \E q \in Processes : Bound(q))
        /\ UNCHANGED <<store, lock, marker, opening, found, walking, pending, stray, spared, starts, faults>>

\* Running::take looks for the marker ...
Look(p) ==
  /\ pc[p] = "look"
  /\ found' = [found EXCEPT ![p] = marker]
  /\ pc' = [pc EXCEPT ![p] = "take"]
  /\ UNCHANGED <<store, lock, marker, opening, port, walking, files, starts, faults>>

\* ... and writes it.  The walk is spawned where it was there.
Take(p) ==
  /\ pc[p] = "take"
  /\ \/ Fails(p)
     \/ /\ marker' = TRUE
        /\ pc' = [pc EXCEPT ![p] = "up"]
        /\ left' = [left EXCEPT ![p] = IF found[p] THEN Accounts ELSE {}]
        /\ UNCHANGED <<store, lock, opening, port, found, walked, files, starts, faults>>

\* A commit drops a blob's row, and its file is for the request to unlink.
Drop(p, a) ==
  /\ p \in Servers /\ Up(p) /\ a \notin pending[p]
  /\ pending' = [pending EXCEPT ![p] = @ \cup {a}]
  /\ UNCHANGED <<store, lock, marker, pc, opening, port, found, walking, stray, shared, spared, starts, faults>>

Unlink(p, a) ==
  /\ a \in pending[p]
  /\ pending' = [pending EXCEPT ![p] = @ \ {a}]
  /\ UNCHANGED <<store, lock, marker, pc, opening, port, found, walking, stray, shared, spared, starts, faults>>

\* Mutant: the walk stops where an account will not answer.
StopsAt(p, a) == left' = [left EXCEPT ![p] = {}]

\* An account that will not answer is logged and the walk goes on.
GoesOnPast(p, a) == left' = [left EXCEPT ![p] = @ \ {a}]

\* reconcile: one account's strays are taken, but for those inside the window.
Walk(p, a) ==
  /\ Up(p) /\ a \in left[p]
  /\ walked' = [walked EXCEPT ![p] = @ \cup {a}]
  /\ \/ /\ left' = [left EXCEPT ![p] = @ \ {a}]
        /\ stray' = [stray EXCEPT ![a] = IF @ = "old" THEN "none" ELSE @]
        /\ spared' = IF stray[a] = "young" THEN spared \cup {a} ELSE spared \ {a}
        /\ UNCHANGED faults
     \/ /\ faults < MaxFaults
        /\ faults' = faults + 1
        /\ GoesOnPast(p, a)
        /\ spared' = spared \cup {a}
        /\ UNCHANGED stray
  /\ UNCHANGED <<store, lock, marker, pc, opening, port, found, pending, shared, starts>>

\* A command has nothing left to walk and ends.
Finish(p) ==
  /\ p \in Commands /\ Up(p) /\ left[p] = {}
  /\ Gone(p)
  /\ UNCHANGED <<store, marker, files, starts, faults>>

\* A signal: requests are let finish, the walk is not, and the marker goes.
Stop(p) ==
  /\ p \in Servers /\ Up(p) /\ pending[p] = {}
  /\ marker' = FALSE
  /\ spared' = spared \cup left[p]
  /\ Gone(p)
  /\ UNCHANGED <<store, pending, stray, shared, starts, faults>>

\* Killed: the files it had yet to unlink are strays, of any age.
Crash(p) ==
  /\ pc[p] # "down"
  /\ Gone(p)
  /\ pending' = [pending EXCEPT ![p] = {}]
  /\ \E age \in {"young", "old"} :
       stray' = [a \in Accounts |-> IF a \in pending[p] THEN age ELSE stray[a]]
  /\ UNCHANGED <<store, marker, shared, spared, starts, faults>>

\* Time passes the window.
Age(a) ==
  /\ stray[a] = "young"
  /\ stray' = [stray EXCEPT ![a] = "old"]
  /\ UNCHANGED <<store, lock, marker, pc, opening, port, found, walking, pending, shared, spared, starts, faults>>

Next ==
  \/ \E p \in Processes :
       \/ Start(p) \/ Check(p) \/ Begin(p) \/ Migrate(p) \/ Bind(p) \/ Look(p) \/ Take(p)
       \/ Finish(p) \/ Stop(p) \/ Crash(p)
       \/ \E a \in Accounts : Drop(p, a) \/ Unlink(p, a) \/ Walk(p, a)
  \/ \E a \in Accounts : Age(a)

Spec == Init /\ [][Next]_vars

\* The walk is a task of its own, and is run.
FairSpec == Spec /\ \A p \in Processes : WF_vars(\E a \in Accounts : Walk(p, a))

-----------------------------------------------------------------------------
(* Properties. *)

TypeOK ==
  /\ ledger \in [1..Databases -> SUBSET (1..Newest)]
  /\ lock \in [1..Databases -> Processes \cup {None}]
  /\ marker \in BOOLEAN /\ shared \in BOOLEAN
  /\ pc \in [Processes -> {"down", "check", "begin", "migrate", "bind", "look", "take", "up"}]
  /\ opening \in [Processes -> 1..Databases]
  /\ port \in Processes \cup {None}
  /\ stray \in [Accounts -> Ages]

\* "Two connections opening one new file would otherwise both run the same
\* migration": whoever opens, is killed or gives up, the tables have been
\* through exactly the migrations the ledger records, each once and in order,
\* and a process that is past opening a database finds all it knows there.
MigratedOnceInOrder ==
  /\ TypeOK
  /\ \A d \in 1..Databases : \E n \in 0..Newest : schema[d] = [i \in 1..n |-> i] /\ ledger[d] = 1..n
  /\ \A p \in Processes :
       /\ \A d \in 1..(opening[p] - 1) : 1..Known[p] \subseteq ledger[d]
       /\ pc[p] \in {"bind", "look", "take", "up"} => 1..Known[p] \subseteq ledger[opening[p]]

\* "One there at start says the last run never got to remove it": while one
\* server at a time has the directory, a file nothing holds is one the marker
\* still tells the next start of, or one a walk came to and left, being too
\* young or out of reach, or was stopped short of.
MarkerRemembers ==
  ~shared => \A a \in Accounts : stray[a] = "none" \/ marker \/ a \in spared

\* "One account that will not answer is logged and the walk goes on": a walk
\* comes to every account unless its process ends.
EveryAccountIsWalked ==
  \A p \in Processes, a \in Accounts : (Up(p) /\ a \in left[p]) ~> (a \in walked[p] \/ ~Up(p))

=============================================================================
