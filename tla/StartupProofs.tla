---------------------------- MODULE StartupProofs ----------------------------
(***************************************************************************)
(* The marker a running server holds and the migrations of its databases,  *)
(* for any number of processes, databases, migrations and accounts, and    *)
(* any number of starts, faults and crashes.                               *)
(***************************************************************************)
EXTENDS Startup, FiniteSetTheorems, TLAPS

\* Leaves are left to Zenon; the ones with arithmetic in them say SMT.
USE Zenon

\* What a server that looked and found no marker, or is up, knows of strays.
Accounted(a) == stray[a] = "none" \/ a \in spared

\* The functions are functions of what they should be.
Shapes ==
  /\ pc \in [Processes -> {"down", "check", "begin", "migrate", "bind", "look", "take", "up"}]
  /\ found \in [Processes -> BOOLEAN]
  /\ left \in [Processes -> SUBSET Accounts]
  /\ pending \in [Processes -> SUBSET Accounts]
  /\ stray \in [Accounts -> Ages]
  /\ marker \in BOOLEAN

\* Only a server that is up has files to unlink.  While no two have shared the
\* directory there is one bound, it holds the marker once it is up, and what it
\* does not have to walk is accounted for: so the marker that goes as it stops
\* takes nothing with it.
MarkerInv ==
  /\ Shapes
  /\ \A p \in Processes : pending[p] # {} => p \in Servers /\ pc[p] = "up"
  /\ ~shared =>
       /\ \A p, q \in Processes : Bound(p) /\ Bound(q) => p = q
       /\ \A p \in Servers : pc[p] = "up" =>
            marker /\ \A a \in Accounts : Accounted(a) \/ a \in left[p]
       /\ \A p \in Servers : pc[p] = "take" /\ ~found[p] => \A a \in Accounts : Accounted(a)
  /\ MarkerRemembers

LEMMA MarkerInit == Init => MarkerInv
BY StartupAssumption DEF Init, MarkerInv, Shapes, MarkerRemembers, Bound, Accounted, Ages, Processes

\* A process that was not up goes, and the marker stays.
LEMMA GivesUpKeeps ==
  ASSUME MarkerInv, NEW p \in Processes, pc[p] # "up", GivesUp(p)
  PROVE  MarkerInv'
BY DEF MarkerInv, Shapes, MarkerRemembers, Bound, Accounted, Ages, GivesUp, Gone, Processes, files

LEMMA OpenedKeeps ==
  ASSUME MarkerInv, NEW p \in Processes, pc[p] \in {"check", "migrate"}, Opened(p),
         UNCHANGED <<marker, found, files>>
  PROVE  MarkerInv'
BY SMT DEF MarkerInv, Shapes, MarkerRemembers, Bound, Accounted, Ages, Opened, Processes, files

LEMMA OpeningKeeps ==
  ASSUME MarkerInv, NEW p \in Processes, Start(p) \/ Check(p) \/ Begin(p) \/ Migrate(p)
  PROVE  MarkerInv'
<1>1. CASE Start(p)
  BY <1>1 DEF MarkerInv, Shapes, MarkerRemembers, Bound, Accounted, Ages, Start, Processes, files, walking
<1>2. CASE Check(p)
  <2>1. CASE GivesUp(p)
    BY <1>2, <2>1, GivesUpKeeps DEF Check
  <2>2. CASE Opened(p) /\ UNCHANGED <<store, lock, marker, port, found, walked, files, starts, faults>>
    BY <1>2, <2>2, OpenedKeeps DEF Check
  <2>3. CASE /\ pc' = [pc EXCEPT ![p] = "begin"]
             /\ UNCHANGED <<store, lock, marker, opening, port, found, walking, files, starts, faults>>
    BY <1>2, <2>3 DEF Check, MarkerInv, Shapes, MarkerRemembers, Bound, Accounted, Ages, Processes, files, walking
  <2> QED
    BY <1>2, <2>1, <2>2, <2>3 DEF Check
<1>3. CASE Begin(p)
  <2>1. CASE GivesUp(p)
    BY <1>3, <2>1, GivesUpKeeps DEF Begin
  <2>2. CASE /\ pc' = [pc EXCEPT ![p] = "migrate"]
             /\ UNCHANGED <<store, marker, opening, port, found, walking, files, starts, faults>>
    BY <1>3, <2>2 DEF Begin, MarkerInv, Shapes, MarkerRemembers, Bound, Accounted, Ages, Processes, files, walking
  <2> QED
    BY <1>3, <2>1, <2>2 DEF Begin, Fails
<1>4. CASE Migrate(p)
  <2>1. CASE GivesUp(p)
    BY <1>4, <2>1, GivesUpKeeps DEF Migrate
  <2>2. CASE Opened(p) /\ UNCHANGED <<marker, port, found, walked, files, starts, faults>>
    BY <1>4, <2>2, OpenedKeeps DEF Migrate
  <2> QED
    BY <1>4, <2>1, <2>2 DEF Migrate, Fails
<1> QED
  BY <1>1, <1>2, <1>3, <1>4

\* A server that binds beside another is one that shares the directory; one
\* that finds no marker finds no stray that is not accounted for.
LEMMA TakingKeeps ==
  ASSUME MarkerInv, NEW p \in Processes, Bind(p) \/ Look(p) \/ Take(p)
  PROVE  MarkerInv'
<1>1. CASE Bind(p)
  <2>1. CASE GivesUp(p)
    BY <1>1, <2>1, GivesUpKeeps DEF Bind
  <2>2. CASE ~GivesUp(p)
    <3>1. /\ pc[p] = "bind"
          /\ pc' = [pc EXCEPT ![p] = "look"]
          /\ shared' = (shared \/ \E q \in Processes : Bound(q))
          /\ UNCHANGED <<marker, found, left, pending, stray, spared>>
      BY <1>1, <2>2 DEF Bind, walking
    <3> QED
      BY <3>1 DEF MarkerInv, Shapes, MarkerRemembers, Bound, Accounted, Ages, Processes
  <2> QED
    BY <2>1, <2>2
<1>2. CASE Look(p)
  BY <1>2 DEF Look, MarkerInv, Shapes, MarkerRemembers, Bound, Accounted, Ages, Processes, files, walking
<1>3. CASE Take(p)
  <2>1. CASE GivesUp(p)
    BY <1>3, <2>1, GivesUpKeeps DEF Take
  <2>2. CASE ~GivesUp(p)
    <3>1. /\ pc[p] = "take"
          /\ marker' = TRUE
          /\ pc' = [pc EXCEPT ![p] = "up"]
          /\ left' = [left EXCEPT ![p] = IF found[p] THEN Accounts ELSE {}]
          /\ UNCHANGED <<found, pending, stray, shared, spared>>
      BY <1>3, <2>2 DEF Take, Fails, files
    <3> USE <3>1 DEF MarkerInv, Shapes, MarkerRemembers, Bound, Accounted, Ages, Processes
    <3>2. Shapes' /\ MarkerRemembers'
      OBVIOUS
    <3>3. \A q \in Processes : pending'[q] # {} => q \in Servers /\ pc'[q] = "up"
      OBVIOUS
    <3>4. ~shared' => \A q, r \in Processes : Bound(q)' /\ Bound(r)' => q = r
      OBVIOUS
    <3>5. ASSUME ~shared', NEW q \in Servers, pc'[q] = "up"
          PROVE  marker' /\ \A a \in Accounts : Accounted(a)' \/ a \in left'[q]
      BY <3>5, SMT
    <3>6. ASSUME ~shared', NEW q \in Servers, pc'[q] = "take", ~found'[q]
          PROVE  \A a \in Accounts : Accounted(a)'
      BY <3>6
    <3> QED
      BY <3>2, <3>3, <3>4, <3>5, <3>6
  <2> QED
    BY <2>1, <2>2
<1> QED
  BY <1>1, <1>2, <1>3

\* What goes on while a process is up, and how it ends.
LEMMA UpKeeps ==
  ASSUME MarkerInv, NEW p \in Processes,
         \/ Finish(p) \/ Stop(p) \/ Crash(p)
         \/ \E a \in Accounts : Drop(p, a) \/ Unlink(p, a) \/ Walk(p, a)
  PROVE  MarkerInv'
<1> USE DEF MarkerInv, Shapes, MarkerRemembers, Bound, Accounted, Ages, Processes
<1>1. CASE Finish(p)
  BY <1>1, StartupAssumption DEF Finish, Gone, Up, files
<1>2. CASE Stop(p)
  BY <1>2 DEF Stop, Gone, Up, files
<1>3. CASE Crash(p)
  BY <1>3, SMT DEF Crash, Gone, files
<1>4. ASSUME NEW a \in Accounts, Drop(p, a) PROVE MarkerInv'
  BY <1>4 DEF Drop, Up, walking
<1>5. ASSUME NEW a \in Accounts, Unlink(p, a) PROVE MarkerInv'
  BY <1>5 DEF Unlink, walking
<1>6. ASSUME NEW a \in Accounts, Walk(p, a) PROVE MarkerInv'
  BY <1>6, SMT DEF Walk, GoesOnPast, Up
<1> QED
  BY <1>1, <1>2, <1>3, <1>4, <1>5, <1>6

LEMMA MarkerStep == MarkerInv /\ [Next]_vars => MarkerInv'
<1> SUFFICES ASSUME MarkerInv, [Next]_vars PROVE MarkerInv'
  OBVIOUS
<1>1. ASSUME NEW a \in Accounts, Age(a) PROVE MarkerInv'
  BY <1>1, SMT DEF Age, MarkerInv, Shapes, MarkerRemembers, Bound, Accounted, Ages, Processes, walking
<1>2. CASE UNCHANGED vars
  BY <1>2 DEF vars, MarkerInv, Shapes, MarkerRemembers, Bound, Accounted
<1> QED
  BY <1>1, <1>2, OpeningKeeps, TakingKeeps, UpKeeps DEF Next

\* Running::take and Running's drop (src/store.rs), with the walk main spawns:
\* while one server at a time has the directory, a file nothing holds is one the
\* marker tells the next start of, or one a walk came to and left or was stopped
\* short of, whichever of the steps of a start or a stop the process dies at.
THEOREM MarkerIsKept == Spec => []MarkerRemembers
<1>1. MarkerInv => MarkerRemembers
  BY DEF MarkerInv
<1> QED
  BY <1>1, MarkerInit, MarkerStep, PTL DEF Spec

-----------------------------------------------------------------------------
(* The migrations. *)

LEMMA ItsItems == \A u \in Seq(Nat) : u = [i \in 1..Len(u) |-> u[i]]
BY SMT

\* What is owed after the first n is listed in one way only: a run that rises
\* cannot skip, having as many places as there are numbers.
LEMMA InOrderOfARun ==
  ASSUME NEW n \in Nat, NEW k \in Nat
  PROVE  InOrder((n + 1)..(n + k)) = [i \in 1..k |-> n + i]
<1> DEFINE owed == (n + 1)..(n + k)
           Rising(run) == \A i, j \in 1..k : i < j => run[i] < run[j]
<1>1. Cardinality(owed) = k
  BY FS_Interval, SMT
<1>2. [i \in 1..k |-> n + i] \in [1..k -> owed] /\ Rising([i \in 1..k |-> n + i])
  BY SMT
<1>3. ASSUME NEW run \in [1..k -> owed], Rising(run) PROVE run = [i \in 1..k |-> n + i]
  <2> SUFFICES ASSUME NEW i \in 1..k PROVE run[i] = n + i
    OBVIOUS
  <2>1. run[i] >= n + i
    <3> DEFINE below == [j \in 1..i |-> run[j]]
    <3>1. below \in Injection(1..i, (n + 1)..run[i])
      BY <1>3, SMTT(30) DEF Injection, IsInjective
    <3>2. Cardinality(1..i) <= Cardinality((n + 1)..run[i])
      BY <3>1, FS_Injection, FS_Interval, SMT
    <3> QED
      BY <3>2, FS_Interval, SMT
  <2>2. run[i] <= n + i
    <3> DEFINE above == [j \in i..k |-> run[j]]
    <3>1. above \in Injection(i..k, run[i]..(n + k))
      BY <1>3, SMTT(30) DEF Injection, IsInjective
    <3>2. Cardinality(i..k) <= Cardinality(run[i]..(n + k))
      BY <3>1, FS_Injection, FS_Interval, SMT
    <3> QED
      BY <3>2, FS_Interval, SMTT(30)
  <2> QED
    BY <2>1, <2>2, SMTT(30)
<1>4. InOrder(owed) = CHOOSE run \in [1..k -> owed] : Rising(run)
  BY <1>1 DEF InOrder
<1> HIDE DEF Rising, owed
<1> QED
  BY <1>2, <1>3, <1>4 DEF owed

\* A database's tables and its ledger agree, and how far a process can tell.
Straight(d) == \E n \in 0..Newest : schema[d] = [i \in 1..n |-> i] /\ ledger[d] = 1..n

Past(p) ==
  /\ \A d \in 1..(opening[p] - 1) : 1..Known[p] \subseteq ledger[d]
  /\ pc[p] \in {"bind", "look", "take", "up"} => 1..Known[p] \subseteq ledger[opening[p]]

Stores ==
  /\ ledger \in [1..Databases -> SUBSET (1..Newest)]
  /\ schema = [d \in 1..Databases |-> schema[d]]
  /\ pc \in [Processes -> {"down", "check", "begin", "migrate", "bind", "look", "take", "up"}]
  /\ opening \in [Processes -> 1..Databases]

MigrationsInv ==
  /\ Stores
  /\ \A d \in 1..Databases : Straight(d)
  /\ \A p \in Processes : Past(p)

\* Whatever one process does, the ledgers only grow.
LEMMA PastStays ==
  ASSUME MigrationsInv, Stores', NEW p \in Processes,
         \A d \in 1..Databases : Straight(d)' /\ ledger[d] \subseteq ledger'[d],
         \A q \in Processes \ {p} : opening'[q] = opening[q] /\ pc'[q] = pc[q],
         Past(p)'
  PROVE  MigrationsInv'
<1> SUFFICES ASSUME NEW q \in Processes \ {p} PROVE Past(q)'
  BY DEF MigrationsInv
<1>1. Past(q) /\ opening[q] \in 1..Databases /\ opening'[q] = opening[q] /\ pc'[q] = pc[q]
  BY DEF MigrationsInv, Stores
<1>2. \A d \in 1..(opening[q] - 1) : d \in 1..Databases
  BY <1>1, StartupAssumption, SMT
<1> QED
  BY <1>1, <1>2 DEF Past

\* A step that touches no database.
LEMMA NothingMigrated ==
  ASSUME MigrationsInv, NEW p \in Processes, UNCHANGED store,
         \/ UNCHANGED <<pc, opening>>
         \/ pc' = [pc EXCEPT ![p] = "down"] /\ opening' = [opening EXCEPT ![p] = 1]
         \/ /\ opening' = opening
            /\ \/ pc[p] = "down" /\ pc' = [pc EXCEPT ![p] = "check"]
               \/ pc' = [pc EXCEPT ![p] = "begin"]
               \/ pc' = [pc EXCEPT ![p] = "migrate"]
               \/ pc[p] = "bind" /\ pc' = [pc EXCEPT ![p] = "look"]
               \/ pc[p] = "look" /\ pc' = [pc EXCEPT ![p] = "take"]
               \/ pc[p] = "take" /\ pc' = [pc EXCEPT ![p] = "up"]
  PROVE  MigrationsInv'
<1>1. ledger' = ledger /\ schema' = schema
  BY DEF store
<1>2. Stores'
  <2>1. Stores /\ 1 \in 1..Databases
    BY StartupAssumption, SMT DEF MigrationsInv
  <2>2. schema' = [d \in 1..Databases |-> schema'[d]] /\ ledger' \in [1..Databases -> SUBSET (1..Newest)]
    BY <1>1, <2>1 DEF Stores
  <2>3. opening' \in [Processes -> 1..Databases]
    BY <2>1 DEF Stores
  <2>4. pc' \in [Processes -> {"down", "check", "begin", "migrate", "bind", "look", "take", "up"}]
    BY <2>1, SMTT(30) DEF Stores
  <2> QED
    BY <2>2, <2>3, <2>4 DEF Stores
<1>3. \A d \in 1..Databases : Straight(d)' /\ ledger[d] \subseteq ledger'[d]
  BY <1>1 DEF MigrationsInv, Straight
<1>4. \A q \in Processes \ {p} : opening'[q] = opening[q] /\ pc'[q] = pc[q]
  BY DEF MigrationsInv, Stores
<1>5. Past(p)'
  BY <1>1, StartupAssumption, SMTT(30) DEF MigrationsInv, Stores, Past
<1> QED
  BY <1>2, <1>3, <1>4, <1>5, PastStays

\* The database before it has all the process knows, and it goes on.
LEMMA OpenedIsPast ==
  ASSUME MigrationsInv, NEW p \in Processes, pc[p] \in {"check", "migrate"}, Opened(p),
         ledger' \in [1..Databases -> SUBSET (1..Newest)], schema' = [d \in 1..Databases |-> schema'[d]],
         \A d \in 1..Databases : Straight(d)' /\ ledger[d] \subseteq ledger'[d],
         1..Known[p] \subseteq ledger'[opening[p]]
  PROVE  MigrationsInv'
<1>0. Stores /\ Past(p) /\ Databases \in Nat /\ opening[p] \in 1..Databases
  BY StartupAssumption DEF MigrationsInv, Stores
<1>1. CASE opening[p] < Databases
  <2>1. opening' = [opening EXCEPT ![p] = opening[p] + 1] /\ pc' = [pc EXCEPT ![p] = "check"]
    BY <1>1 DEF Opened
  <2>2. Stores' /\ \A q \in Processes \ {p} : opening'[q] = opening[q] /\ pc'[q] = pc[q]
    BY <1>0, <1>1, <2>1, SMT DEF Stores
  <2>3. opening'[p] = opening[p] + 1 /\ pc'[p] = "check"
    BY <1>0, <2>1 DEF Stores
  <2>4. ASSUME NEW d \in 1..opening[p] PROVE 1..Known[p] \subseteq ledger'[d]
    <3>1. CASE d = opening[p]
      BY <3>1
    <3>2. CASE d # opening[p]
      BY <1>0, <3>2, SMT DEF Past
    <3> QED
      BY <3>1, <3>2
  <2>5. Past(p)'
    BY <1>0, <2>3, <2>4, SMT DEF Past
  <2> QED
    BY <2>2, <2>5, PastStays
<1>2. CASE ~(opening[p] < Databases)
  <2>1. opening' = opening /\ pc' = [pc EXCEPT ![p] = IF p \in Servers THEN "bind" ELSE "up"]
    BY <1>2 DEF Opened
  <2>2. Stores' /\ \A q \in Processes \ {p} : opening'[q] = opening[q] /\ pc'[q] = pc[q]
    BY <1>0, <2>1 DEF Stores
  <2>3. Past(p)'
    BY <1>0, <2>1, SMT DEF Past
  <2> QED
    BY <2>2, <2>3, PastStays
<1> QED
  BY <1>1, <1>2

\* What is owed is worked out under the lock: it is what follows the ledger's
\* last, so that what is applied continues the tables' history.
LEMMA MigrateKeeps ==
  ASSUME MigrationsInv, NEW p \in Processes, Migrate(p)
  PROVE  MigrationsInv'
<1>1. CASE GivesUp(p)
  BY <1>1, NothingMigrated DEF GivesUp, Gone
<1>2. CASE ~GivesUp(p)
  <2> DEFINE d == opening[p]
  <2>1. /\ pc[p] = "migrate" /\ Unknown(p) = {}
        /\ schema' = [schema EXCEPT ![d] = @ \o InOrder(Outstanding(p))]
        /\ ledger' = [ledger EXCEPT ![d] = @ \cup Outstanding(p)]
        /\ Opened(p)
    BY <1>2 DEF Migrate, Fails
  <2>2. d \in 1..Databases /\ Stores /\ Newest \in Nat /\ Known[p] \in 1..Newest
    BY StartupAssumption DEF MigrationsInv, Stores
  <2>3. PICK n \in 0..Newest : schema[d] = [i \in 1..n |-> i] /\ ledger[d] = 1..n
    BY <2>2 DEF MigrationsInv, Straight
  <2>4. n <= Known[p]
    <3> SUFFICES ASSUME n > Known[p] PROVE FALSE
      BY <2>2, <2>3, SMT
    <3>1. n \in 1..n /\ n \notin 1..Known[p]
      BY <2>2, <2>3, SMT
    <3> QED
      BY <2>1, <2>3, <3>1 DEF Unknown
  <2>5. PICK k \in Nat : Known[p] = n + k
    <3>1. Known[p] - n \in Nat /\ Known[p] = n + (Known[p] - n)
      BY <2>2, <2>3, <2>4, SMT
    <3> QED
      BY <3>1
  <2>6. n \in Nat /\ Outstanding(p) = (n + 1)..(n + k)
    BY <2>2, <2>3, <2>5, SMT DEF Outstanding
  <2>7. InOrder(Outstanding(p)) = [i \in 1..k |-> n + i]
    BY <2>6, InOrderOfARun
  <2>8. ledger'[d] = 1..(n + k)
    <3>1. ledger'[d] = ledger[d] \cup Outstanding(p)
      BY <2>1, <2>2 DEF Stores
    <3>2. ledger'[d] = 1..n \cup (n + 1)..(n + k)
      BY <2>3, <2>6, <3>1
    <3> QED
      BY <2>5, <2>6, <3>2, SMT
  <2>9. schema'[d] = [i \in 1..(n + k) |-> i]
    <3> DEFINE s == [i \in 1..n |-> i]
               t == [i \in 1..k |-> n + i]
    <3>1. schema'[d] = s \o t
      <4>1. d \in DOMAIN schema
        BY <2>2 DEF Stores
      <4> QED
        BY <2>1, <2>3, <2>7, <4>1
    <3>2. s \in Seq(Nat) /\ Len(s) = n /\ t \in Seq(Nat) /\ Len(t) = k
      BY <2>6, SMT
    <3> HIDE DEF s, t
    <3>3. /\ s \o t \in Seq(Nat) /\ Len(s \o t) = n + k
          /\ \A i \in 1..(n + k) : (s \o t)[i] = IF i <= n THEN s[i] ELSE t[i - n]
      BY <3>2, SMTT(30)
    <3>4. \A i \in 1..(n + k) : (s \o t)[i] = i
      <4> SUFFICES ASSUME NEW i \in 1..(n + k) PROVE (s \o t)[i] = i
        OBVIOUS
      <4>1. CASE i <= n
        BY <2>6, <3>3, <4>1, SMT DEF s
      <4>2. CASE ~(i <= n)
        <5>1. i - n \in 1..k /\ n + (i - n) = i
          BY <2>6, <4>2, SMT
        <5>2. t[i - n] = n + (i - n)
          BY <5>1 DEF t
        <5> QED
          BY <3>3, <4>2, <5>1, <5>2
      <4> QED
        BY <4>1, <4>2
    <3>5. s \o t = [i \in 1..(n + k) |-> (s \o t)[i]]
      BY <3>3, ItsItems
    <3> QED
      BY <3>1, <3>4, <3>5
  <2>10. ledger' \in [1..Databases -> SUBSET (1..Newest)] /\ schema' = [e \in 1..Databases |-> schema'[e]]
    <3>1. Outstanding(p) \subseteq 1..Newest
      BY <2>2, SMT DEF Outstanding
    <3> QED
      BY <2>1, <2>2, <3>1 DEF Stores
  <2>11. ASSUME NEW e \in 1..Databases PROVE Straight(e)' /\ ledger[e] \subseteq ledger'[e]
    <3>1. CASE e = d
      <4>1. n + k \in 0..Newest
        BY <2>2, <2>5, <2>6, SMT
      <4> QED
        BY <2>1, <2>2, <2>8, <2>9, <3>1, <4>1 DEF Straight, Stores
    <3>2. CASE e # d
      <4>1. ledger'[e] = ledger[e] /\ schema'[e] = schema[e] /\ Straight(e)
        BY <2>1, <2>2, <3>2 DEF Stores, MigrationsInv
      <4> QED
        BY <4>1 DEF Straight
    <3> QED
      BY <3>1, <3>2
  <2>12. 1..Known[p] \subseteq ledger'[opening[p]]
    BY <2>5, <2>8
  <2> QED
    BY <2>1, <2>10, <2>11, <2>12, OpenedIsPast
<1> QED
  BY <1>1, <1>2

LEMMA MigrationsStep == MigrationsInv /\ [Next]_vars => MigrationsInv'
<1> SUFFICES ASSUME MigrationsInv, [Next]_vars PROVE MigrationsInv'
  OBVIOUS
<1>1. ASSUME NEW p \in Processes, Check(p) PROVE MigrationsInv'
  <2>1. CASE GivesUp(p)
    BY <2>1, NothingMigrated DEF GivesUp, Gone
  <2>2. CASE /\ 1..Known[p] \subseteq ledger[opening[p]] /\ Opened(p)
             /\ UNCHANGED <<store, lock, marker, port, found, walked, files, starts, faults>>
    <3>1. ledger' = ledger /\ schema' = schema
      BY <2>2 DEF store
    <3>2. \A d \in 1..Databases : Straight(d)' /\ ledger[d] \subseteq ledger'[d]
      BY <3>1 DEF MigrationsInv, Straight
    <3>3. Stores
      BY DEF MigrationsInv
    <3>4. ledger' \in [1..Databases -> SUBSET (1..Newest)] /\ schema' = [d \in 1..Databases |-> schema'[d]]
      BY <3>1, <3>3 DEF Stores
    <3> QED
      BY <1>1, <2>2, <3>1, <3>2, <3>4, OpenedIsPast DEF Check
  <2>3. CASE /\ pc' = [pc EXCEPT ![p] = "begin"]
             /\ UNCHANGED <<store, lock, marker, opening, port, found, walking, files, starts, faults>>
    BY <2>3, NothingMigrated
  <2> QED
    BY <1>1, <2>1, <2>2, <2>3 DEF Check
<1>2. ASSUME NEW p \in Processes, Start(p) \/ Begin(p) \/ Bind(p) \/ Look(p) \/ Take(p) PROVE MigrationsInv'
  <2>1. CASE Start(p)
    BY <2>1, NothingMigrated DEF Start
  <2>2. CASE Begin(p)
    BY <2>2, NothingMigrated DEF Begin, Fails, GivesUp, Gone
  <2>3. CASE Bind(p)
    BY <2>3, NothingMigrated DEF Bind, GivesUp, Gone
  <2>4. CASE Look(p)
    BY <2>4, NothingMigrated DEF Look
  <2>5. CASE Take(p)
    BY <2>5, NothingMigrated DEF Take, Fails, GivesUp, Gone
  <2> QED
    BY <1>2, <2>1, <2>2, <2>3, <2>4, <2>5
<1>3. ASSUME NEW p \in Processes, Finish(p) \/ Stop(p) \/ Crash(p) PROVE MigrationsInv'
  BY <1>3, NothingMigrated DEF Finish, Stop, Crash, Gone
<1>4. ASSUME NEW p \in Processes, NEW a \in Accounts, Drop(p, a) \/ Unlink(p, a) \/ Walk(p, a) PROVE MigrationsInv'
  BY <1>4, NothingMigrated DEF Drop, Unlink, Walk
<1>5. ASSUME UNCHANGED <<store, pc, opening>> PROVE MigrationsInv'
  BY <1>5 DEF MigrationsInv, Stores, Straight, Past, store
<1>6. ASSUME NEW a \in Accounts, Age(a) PROVE MigrationsInv'
  BY <1>5, <1>6 DEF Age
<1>7. CASE UNCHANGED vars
  BY <1>5, <1>7 DEF vars, store
<1> QED
  BY <1>1, <1>2, <1>3, <1>4, <1>6, <1>7, MigrateKeeps DEF Next


LEMMA MigrationsInit == Init => MigrationsInv
<1> SUFFICES ASSUME Init PROVE MigrationsInv
  OBVIOUS
<1>1. PICK n \in 0..Newest : /\ ledger = [d \in 1..Databases |-> 1..n]
                             /\ schema = [d \in 1..Databases |-> [i \in 1..n |-> i]]
  BY DEF Init
<1>2. Stores
  BY <1>1, StartupAssumption, SMT DEF Init, Stores
<1>3. \A d \in 1..Databases : Straight(d)
  BY <1>1 DEF Straight
<1>4. \A p \in Processes : Past(p)
  BY SMT DEF Init, Past
<1> QED
  BY <1>2, <1>3, <1>4 DEF MigrationsInv

\* The rest of the types.
Typed ==
  /\ lock \in [1..Databases -> Processes \cup {None}]
  /\ shared \in BOOLEAN
  /\ port \in Processes \cup {None}

LEMMA TypedStep == MigrationsInv /\ Typed /\ [Next]_vars => Typed'
<1> SUFFICES ASSUME MigrationsInv, Typed, [Next]_vars PROVE Typed'
  OBVIOUS
<1>0. \A p \in Processes : opening[p] \in 1..Databases
  BY DEF MigrationsInv, Stores
<1>1. ASSUME NEW p \in Processes, Gone(p), UNCHANGED shared PROVE Typed'
  BY <1>1 DEF Gone, Typed
<1>2. ASSUME NEW p \in Processes, Start(p) \/ Check(p) PROVE Typed'
  BY <1>1, <1>2 DEF Start, Check, GivesUp, Typed, files
<1>3. ASSUME NEW p \in Processes, Begin(p) \/ Migrate(p) PROVE Typed'
  BY <1>0, <1>1, <1>3 DEF Begin, Migrate, Fails, GivesUp, Typed, files
<1>4. ASSUME NEW p \in Processes, Bind(p) PROVE Typed'
  <2>1. CASE GivesUp(p)
    BY <1>1, <2>1 DEF GivesUp, files
  <2>2. CASE ~GivesUp(p)
    <3>1. (port' = p \/ port' = port) /\ lock' = lock
      BY <1>4, <2>2 DEF Bind
    <3>2. shared' \in BOOLEAN
      BY <1>4, <2>2 DEF Bind, Typed
    <3> QED
      BY <3>1, <3>2 DEF Typed
  <2> QED
    BY <2>1, <2>2
<1>5. ASSUME NEW p \in Processes, Look(p) \/ Take(p) \/ Finish(p) \/ Stop(p) \/ Crash(p) PROVE Typed'
  BY <1>1, <1>5 DEF Look, Take, Finish, Stop, Crash, Fails, GivesUp, Typed, files
<1>6. ASSUME NEW p \in Processes, NEW a \in Accounts, Drop(p, a) \/ Unlink(p, a) \/ Walk(p, a) PROVE Typed'
  BY <1>6 DEF Drop, Unlink, Walk, Typed
<1>7. ASSUME NEW a \in Accounts, Age(a) PROVE Typed'
  BY <1>7 DEF Age, Typed
<1>8. CASE UNCHANGED vars
  BY <1>8 DEF vars, Typed
<1> QED
  BY <1>2, <1>3, <1>4, <1>5, <1>6, <1>7, <1>8 DEF Next

\* Two processes on one new file, killed or giving up wherever they may, run
\* each migration once and in the order it is listed, and one that is past
\* opening a database finds all it knows there: for any number of processes
\* and versions of the code, databases and migrations.
THEOREM MigrationsRunOnce == Spec => []MigratedOnceInOrder
<1>1. Init => Typed
  BY DEF Init, Typed
<1>2. MigrationsInv /\ Typed /\ MarkerInv => MigratedOnceInOrder
  <2> SUFFICES ASSUME MigrationsInv, Typed, MarkerInv PROVE MigratedOnceInOrder
    OBVIOUS
  <2>1. TypeOK
    BY DEF MigrationsInv, Stores, Typed, MarkerInv, Shapes, TypeOK
  <2>2. \A d \in 1..Databases : \E n \in 0..Newest : schema[d] = [i \in 1..n |-> i] /\ ledger[d] = 1..n
    BY DEF MigrationsInv, Straight
  <2>3. \A p \in Processes : Past(p)
    BY DEF MigrationsInv
  <2> QED
    BY <2>1, <2>2, <2>3 DEF MigratedOnceInOrder, Past
<1> QED
  BY <1>1, <1>2, MigrationsInit, MigrationsStep, TypedStep, MarkerInit, MarkerStep, PTL DEF Spec

=============================================================================
