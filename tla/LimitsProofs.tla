----------------------------- MODULE LimitsProofs -----------------------------
(***************************************************************************)
(* The tables of the budgets, for any number of requests at once, any      *)
(* budgets and windows, and any order in which clocks are read and the     *)
(* lock is taken, as long as no request waits for the lock for a window.   *)
(***************************************************************************)
EXTENDS Limits, FiniteSetTheorems, TLAPS

\* Leaves are left to Zenon; the ones with arithmetic in them say SMT.
USE Zenon

-----------------------------------------------------------------------------
(* The inductive invariant. *)

Keys(b) == {KeyOf(b, call) : call \in calls}

\* One window of a table last swept at this time.
WindowOK(b, w, swept) ==
  /\ w = [points |-> w.points, until |-> w.until]
  /\ w.points \in 0..U32MAX
  /\ w.until \in 0..(MaxNow + Window[b])
  /\ w.until > swept

TableOK(b, table) ==
  /\ table = [windows |-> table.windows, swept |-> table.swept]
  /\ table.swept \in 0..now
  /\ table.windows = [k \in DOMAIN table.windows |-> table.windows[k]]
  /\ IsFiniteSet(DOMAIN table.windows)
  /\ Cardinality(DOMAIN table.windows) <= KEYS
  /\ \A k \in DOMAIN table.windows : k \in Keys(b) /\ WindowOK(b, table.windows[k], table.swept)

Fields == {"pc", "call", "todo", "at", "readings", "asked", "gone", "retry"}

\* A request.  The clock it read is never ahead, and not far behind.
ThreadOK(s) ==
  /\ s = [f \in Fields |-> s[f]]
  /\ s.pc \in {"idle", "asking", "counting", "served", "refused"}
  /\ s.pc # "idle" => s.call \in calls
  /\ s.pc = "counting" => s.at \in 0..now /\ now - s.at <= MaxStall

LimitsInv ==
  /\ now \in Times /\ calls \in Mixes
  /\ tables = [b \in Budgets |-> tables[b]]
  /\ thread = [t \in Threads |-> thread[t]]
  /\ \A b \in Budgets : TableOK(b, tables[b])
  /\ \A t \in Threads : ThreadOK(thread[t])

LEMMA WindowTypes ==
  ASSUME NEW b \in Budgets, NEW w, NEW swept, WindowOK(b, w, swept)
  PROVE  w.points \in Nat /\ w.until \in Nat
<1>1. U32MAX \in Nat /\ MaxNow + Window[b] \in Nat
  BY BoundAssumption, WindowAssumption, SMT
<1> QED
  BY <1>1, SMT DEF WindowOK

-----------------------------------------------------------------------------
(* What consume does to a table. *)

\* A sweep keeps a table in order, and drops no window that has not passed at
\* its time.
LEMMA SweptFacts ==
  ASSUME NEW b \in Budgets, NEW table, TableOK(b, table), now \in Times, NEW at \in 0..now
  PROVE  /\ TableOK(b, Swept(b, table, at))
         /\ \A k \in DOMAIN table.windows : table.windows[k].until > at =>
              /\ k \in DOMAIN Swept(b, table, at).windows
              /\ Swept(b, table, at).windows[k] = table.windows[k]
<1>0. Window[b] \in Nat \ {0} /\ KEYS \in Nat /\ MaxNow \in Nat
  BY WindowAssumption, BoundAssumption
<1>1. CASE at - table.swept < Window[b]
  BY <1>1 DEF Swept
<1>2. CASE ~(at - table.swept < Window[b])
  <2> DEFINE kept == {k \in DOMAIN table.windows : table.windows[k].until > at}
             after == [windows |-> [k \in kept |-> table.windows[k]], swept |-> at]
  <2>1. Swept(b, table, at) = after
    BY <1>2 DEF Swept
  <2>2. IsFiniteSet(kept) /\ Cardinality(kept) <= KEYS
    <3>1. kept \in SUBSET DOMAIN table.windows
      OBVIOUS
    <3>2. IsFiniteSet(kept) /\ Cardinality(kept) <= Cardinality(DOMAIN table.windows)
      BY <3>1, FS_Subset DEF TableOK
    <3>3. Cardinality(kept) \in Nat /\ Cardinality(DOMAIN table.windows) \in Nat
      BY <3>2, FS_CardinalityType DEF TableOK
    <3> QED
      BY <3>2, <3>3, <1>0, SMT DEF TableOK
  <2>3. DOMAIN after.windows = kept /\ after.swept = at
    OBVIOUS
  <2>4. \A k \in kept : k \in Keys(b) /\ WindowOK(b, after.windows[k], at)
    BY <1>0 DEF TableOK, WindowOK
  <2>5. TableOK(b, after)
    BY <2>2, <2>3, <2>4 DEF TableOK
  <2>6. \A k \in DOMAIN table.windows : table.windows[k].until > at =>
          k \in DOMAIN after.windows /\ after.windows[k] = table.windows[k]
    OBVIOUS
  <2> QED
    BY <2>1, <2>5, <2>6
<1> QED
  BY <1>1, <1>2

\* The window a key is counted in is over later than the last sweep, however
\* early the clock that opens it: this is what a bounded wait for the lock buys.
LEMMA OpenedFacts ==
  ASSUME NEW b \in Budgets, NEW table, TableOK(b, table), NEW key, now \in Times,
         NEW at \in 0..now, now - at <= MaxStall
  PROVE  WindowOK(b, Opened(b, table.windows, key, at), table.swept)
<1>0. /\ Window[b] \in Nat \ {0} /\ MaxNow \in Nat /\ U32MAX \in Nat
      /\ MaxStall \in Nat /\ MaxStall < Window[b]
  BY WindowAssumption, BoundAssumption, StallAssumption
<1>1. CASE key \in DOMAIN table.windows /\ table.windows[key].until > at
  BY <1>1 DEF Opened, TableOK
<1>2. CASE ~(key \in DOMAIN table.windows /\ table.windows[key].until > at)
  <2>1. Opened(b, table.windows, key, at) = [points |-> 0, until |-> at + Window[b]]
    BY <1>2 DEF Opened
  <2>2. table.swept \in 0..now
    BY DEF TableOK
  <2>3. at + Window[b] \in 0..(MaxNow + Window[b]) /\ at + Window[b] > table.swept
    BY <1>0, <2>2, SMT DEF Times
  <2> DEFINE w == [points |-> 0, until |-> at + Window[b]]
  <2>4. w.points = 0 /\ w.until = at + Window[b] /\ w = [points |-> w.points, until |-> w.until]
    OBVIOUS
  <2> HIDE DEF w
  <2>5. WindowOK(b, w, table.swept)
    BY <1>0, <2>3, <2>4, SMT DEF WindowOK
  <2> QED
    BY <2>1, <2>5 DEF w
<1> QED
  BY <1>1, <1>2

LEMMA SaturatingFacts ==
  ASSUME NEW spent \in 0..U32MAX, NEW points \in Nat
  PROVE  SaturatingAdd(spent, points) \in 0..U32MAX /\ SaturatingAdd(spent, points) >= spent
BY BoundAssumption, SMT DEF SaturatingAdd

LEMMA NoFewer ==
  ASSUME NEW spent \in 0..U32MAX
  PROVE  spent >= spent
BY BoundAssumption, SMT

LEMMA ReadingFacts ==
  ASSUME NEW b, NEW spent
  PROVE  /\ Reading(b, spent).budget = b
         /\ Reading(b, spent).exceeded = (spent > Points[b])
         /\ Reading(b, spent).remaining = IF spent > Points[b] THEN 0 ELSE Points[b] - spent
BY DEF Reading

LEMMA CountedFacts ==
  ASSUME NEW b \in Budgets, TableOK(b, tables[b]), NEW key \in Keys(b), NEW points \in Nat,
         now \in Times, NEW at \in 0..now, now - at <= MaxStall
  PROVE  /\ TableOK(b, Counted(b, key, points, at).table)
         /\ \A k \in DOMAIN tables[b].windows : tables[b].windows[k].until > at =>
              /\ k \in DOMAIN Counted(b, key, points, at).table.windows
              /\ Counted(b, key, points, at).table.windows[k].until = tables[b].windows[k].until
              /\ Counted(b, key, points, at).table.windows[k].points >= tables[b].windows[k].points
<1> DEFINE table == Swept(b, tables[b], at)
           window == Opened(b, table.windows, key, at)
           spent == SaturatingAdd(window.points, points)
           counted == [k \in DOMAIN table.windows \cup {key} |->
                         IF k = key THEN [points |-> spent, until |-> window.until]
                         ELSE table.windows[k]]
           after == [table EXCEPT !.windows = counted]
<1>0. U32MAX \in Nat /\ KEYS \in Nat
  BY BoundAssumption
<1>1. /\ TableOK(b, table)
      /\ \A k \in DOMAIN tables[b].windows : tables[b].windows[k].until > at =>
           k \in DOMAIN table.windows /\ table.windows[k] = tables[b].windows[k]
  BY SweptFacts, SMT
<1>2. CASE Full(table.windows, key)
  <2>1. Counted(b, key, points, at).table = table
    BY <1>2 DEF Counted
  <2>2. \A k \in DOMAIN tables[b].windows : tables[b].windows[k].points \in 0..U32MAX
    BY DEF TableOK, WindowOK
  <2> QED
    BY <1>0, <1>1, <2>1, <2>2, SMT
<1>3. CASE ~Full(table.windows, key)
  <2>1. Counted(b, key, points, at).table = after
    BY <1>3 DEF Counted
  <2>2. WindowOK(b, window, table.swept)
    BY <1>1, OpenedFacts
  <2>3. spent \in 0..U32MAX /\ spent >= window.points
    BY <2>2, SaturatingFacts DEF WindowOK
  <2> HIDE DEF window, spent
  <2>4. WindowOK(b, [points |-> spent, until |-> window.until], table.swept)
    BY <2>2, <2>3 DEF WindowOK
  <2>5. /\ IsFiniteSet(DOMAIN table.windows \cup {key})
        /\ Cardinality(DOMAIN table.windows \cup {key}) <= KEYS
    <3>1. IsFiniteSet(DOMAIN table.windows) /\ Cardinality(DOMAIN table.windows) <= KEYS
      BY <1>1 DEF TableOK
    <3>2. Cardinality(DOMAIN table.windows) \in Nat
      BY <3>1, FS_CardinalityType
    <3>3. key \in DOMAIN table.windows \/ Cardinality(DOMAIN table.windows) < KEYS
      BY <1>0, <1>3, <3>2, SMT DEF Full
    <3>4. /\ IsFiniteSet(DOMAIN table.windows \cup {key})
          /\ Cardinality(DOMAIN table.windows \cup {key}) =
               IF key \in DOMAIN table.windows THEN Cardinality(DOMAIN table.windows)
               ELSE Cardinality(DOMAIN table.windows) + 1
      BY <3>1, FS_AddElement
    <3> QED
      BY <1>0, <3>1, <3>2, <3>3, <3>4, SMT
  <2>6. after = [windows |-> counted, swept |-> table.swept]
    <3>1. table = [windows |-> table.windows, swept |-> table.swept]
      BY <1>1 DEF TableOK
    <3> HIDE DEF table, counted
    <3> QED
      BY <3>1, SMT
  <2>7. DOMAIN counted = DOMAIN table.windows \cup {key}
    OBVIOUS
  <2>8. \A k \in DOMAIN counted : k \in Keys(b) /\ WindowOK(b, counted[k], table.swept)
    BY <1>1, <2>4 DEF TableOK
  <2>9. TableOK(b, after)
    <3> HIDE DEF counted
    <3>1. after.windows = counted /\ after.swept = table.swept
      BY <2>6
    <3>2. counted = [k \in DOMAIN counted |-> counted[k]]
      BY DEF counted
    <3> QED
      BY <1>1, <2>5, <2>6, <2>7, <2>8, <3>1, <3>2 DEF TableOK
  <2>10. ASSUME NEW k \in DOMAIN tables[b].windows, tables[b].windows[k].until > at
         PROVE  /\ k \in DOMAIN counted
                /\ counted[k].until = tables[b].windows[k].until
                /\ counted[k].points >= tables[b].windows[k].points
    <3>1. k \in DOMAIN table.windows /\ table.windows[k] = tables[b].windows[k]
      BY <1>1, <2>10
    <3>2. tables[b].windows[k].points \in 0..U32MAX
      BY DEF TableOK, WindowOK
    <3>3. CASE k = key
      <4>1. window = tables[b].windows[k]
        BY <3>1, <3>3, <2>10 DEF window, Opened
      <4> QED
        BY <2>3, <3>3, <4>1
    <3>4. CASE k # key
      <4>1. k \in DOMAIN counted /\ counted[k] = tables[b].windows[k]
        BY <3>1, <3>4
      <4>2. tables[b].windows[k].points >= tables[b].windows[k].points
        BY <3>2, NoFewer
      <4> QED
        BY <4>1, <4>2
    <3> QED
      BY <3>3, <3>4
  <2> QED
    BY <2>1, <2>6, <2>9, <2>10
<1> QED
  BY <1>2, <1>3

-----------------------------------------------------------------------------
(* What becomes of a request. *)

LEMMA AnsweredFacts ==
  ASSUME NEW readings
  PROVE  Answered(readings).pc \in {"served", "refused"}
BY DEF Answered, Handled, Served, Refusal

LEMMA AfterFacts ==
  ASSUME NEW s,
         s = [f \in Fields |-> s[f]],
         s.call \in calls
  PROVE  ThreadOK(After(s)) /\ After(s).pc # "counting"
<1> DEFINE more(todo) == [s EXCEPT !.pc = "asking", !.todo = todo]
           answer(a) == [s EXCEPT !.pc = a.pc, !.retry = a.retry, !.todo = <<>>, !.readings = <<>>]
<1>1. ASSUME NEW todo PROVE ThreadOK(more(todo)) /\ more(todo).pc # "counting"
  BY DEF ThreadOK, Fields
<1>2. ASSUME NEW a, a.pc \in {"served", "refused"}
      PROVE  ThreadOK(answer(a)) /\ answer(a).pc # "counting"
  BY <1>2 DEF ThreadOK, Fields
<1>3. \A reading : Refusal(reading).pc \in {"served", "refused"}
  BY DEF Refusal
<1>4. \/ \E todo : After(s) = more(todo)
      \/ \E reading : After(s) = answer(Refusal(reading))
      \/ \E readings : After(s) = answer(Answered(readings))
  BY DEF After
<1> HIDE DEF more, answer
<1> QED
  BY <1>1, <1>2, <1>3, <1>4, AnsweredFacts, SMT
-----------------------------------------------------------------------------
(* The invariant, and what follows from it. *)

LEMMA LimitsInit == Init => LimitsInv
<1> SUFFICES ASSUME Init PROVE LimitsInv
  OBVIOUS
<1>0. MaxNow \in Nat /\ KEYS \in Nat
  BY BoundAssumption
<1>1. now \in Times /\ calls \in Mixes
  BY <1>0, SMT DEF Init, Times
<1>2. ASSUME NEW b \in Budgets PROVE TableOK(b, tables[b])
  <2>1. tables[b] = [windows |-> <<>>, swept |-> 0]
    BY DEF Init
  <2>2. IsFiniteSet({}) /\ Cardinality({}) = 0
    BY FS_EmptySet
  <2>3. DOMAIN <<>> = {}
    BY SMT
  <2> QED
    BY <1>0, <2>1, <2>2, <2>3, SMT DEF TableOK, Init
<1>3. ASSUME NEW t \in Threads PROVE ThreadOK(thread[t])
  BY <1>1, MixesAssumption DEF Init, ThreadOK, Fields
<1> QED
  BY <1>1, <1>2, <1>3 DEF Init, LimitsInv

\* A request is counted: its clock is a time that has been.
LEMMA ConsumeFacts ==
  ASSUME LimitsInv, NEW t \in Threads, Consume(t)
  PROVE  /\ LimitsInv'
         /\ \A b \in Budgets : \A k \in DOMAIN tables[b].windows :
              tables[b].windows[k].until > now =>
                /\ k \in DOMAIN tables'[b].windows
                /\ tables'[b].windows[k].until = tables[b].windows[k].until
                /\ tables'[b].windows[k].points >= tables[b].windows[k].points
<1> DEFINE s == thread[t]
           b == Head(s.todo)
           key == KeyOf(b, s.call)
           points == Cost(b, s.call)
           c == Counted(b, key, points, s.at)
           asking == [s EXCEPT !.at = None, !.todo = Tail(@), !.readings = Append(@, c.reading),
                               !.asked = Append(@, b),
                               !.gone = IF c.reading.exceeded THEN @ \cup {b} ELSE @]
<1>0. MaxNow \in Nat /\ U32MAX \in Nat
  BY BoundAssumption
<1>1. /\ tables' = [tables EXCEPT ![b] = c.table]
      /\ thread' = [thread EXCEPT ![t] = After(asking)]
      /\ now' = now /\ calls' = calls
  BY DEF Consume
<1>2. ThreadOK(s) /\ s.pc = "counting"
  BY DEF LimitsInv, Consume
<1>3. s.at \in 0..now /\ now - s.at <= MaxStall /\ now \in Nat /\ now \in Times
  BY <1>0, <1>2, SMT DEF ThreadOK, LimitsInv, Times
<1>4. key \in Keys(b) /\ points \in Nat
  BY <1>2, MixesAssumption DEF ThreadOK, Keys, Cost, LimitsInv
<1>5. ThreadOK(After(asking)) /\ After(asking).pc # "counting"
  <2>1. asking = [f \in Fields |-> asking[f]] /\ asking.call = s.call
    BY <1>2 DEF ThreadOK, Fields
  <2> HIDE DEF asking
  <2> QED
    BY <1>2, <2>1, AfterFacts DEF ThreadOK
<1> HIDE DEF s, b, key, points, c, asking
<1>6. b \in Budgets =>
        /\ TableOK(b, c.table)
        /\ \A k \in DOMAIN tables[b].windows : tables[b].windows[k].until > s.at =>
             /\ k \in DOMAIN c.table.windows
             /\ c.table.windows[k].until = tables[b].windows[k].until
             /\ c.table.windows[k].points >= tables[b].windows[k].points
  BY <1>3, <1>4, CountedFacts DEF c, LimitsInv
<1>7. \A d \in Budgets : tables'[d] = IF d = b THEN c.table ELSE tables[d]
  BY <1>1 DEF LimitsInv
<1>8. \A u \in Threads : thread'[u] = IF u = t THEN After(asking) ELSE thread[u]
  BY <1>1 DEF LimitsInv
<1>10. LimitsInv'
  <2>1. now' \in Times /\ calls' \in Mixes
    BY <1>1 DEF LimitsInv, Times
  <2>2. /\ tables' = [d \in Budgets |-> tables'[d]]
        /\ thread' = [u \in Threads |-> thread'[u]]
    BY <1>1 DEF LimitsInv
  <2>3. ASSUME NEW d \in Budgets PROVE TableOK(d, tables[d])'
    <3>1. TableOK(d, tables'[d])
      BY <1>6, <1>7 DEF LimitsInv
    <3>2. Keys(d)' = Keys(d)
      BY <1>1 DEF Keys
    <3> QED
      BY <1>1, <3>1, <3>2 DEF TableOK, WindowOK
  <2>4. ASSUME NEW u \in Threads PROVE ThreadOK(thread[u])'
    BY <1>1, <1>5, <1>8 DEF LimitsInv, ThreadOK
  <2> QED
    BY <2>1, <2>2, <2>3, <2>4 DEF LimitsInv
<1>11. ASSUME NEW d \in Budgets, NEW k \in DOMAIN tables[d].windows, tables[d].windows[k].until > now
       PROVE  /\ k \in DOMAIN tables'[d].windows
              /\ tables'[d].windows[k].until = tables[d].windows[k].until
              /\ tables'[d].windows[k].points >= tables[d].windows[k].points
  <2>1. tables[d].windows[k].until \in Nat /\ tables[d].windows[k].points \in Nat
    <3>1. WindowOK(d, tables[d].windows[k], tables[d].swept)
      BY DEF LimitsInv, TableOK
    <3> QED
      BY <3>1, WindowTypes
  <2>2. tables[d].windows[k].until > s.at
    BY <1>3, <1>11, <2>1, SMT
  <2> QED
    BY <1>6, <1>7, <2>1, <2>2, SMT
<1> QED
  BY <1>10, <1>11

LEMMA TablesStay ==
  ASSUME LimitsInv, now' = now, calls' = calls, tables' = tables
  PROVE  \A b \in Budgets : TableOK(b, tables[b])'
<1>1. ASSUME NEW b, TableOK(b, tables[b])
      PROVE  TableOK(b, tables[b])'
  BY <1>1, SMT DEF TableOK, Keys
<1> QED BY <1>1 DEF LimitsInv

LEMMA ThreadMoves ==
  ASSUME LimitsInv, NEW t \in Threads, NEW s, ThreadOK(s), thread' = [thread EXCEPT ![t] = s],
         UNCHANGED <<now, calls, tables>>
  PROVE  LimitsInv'
<1>1. \A u \in Threads : thread'[u] = IF u = t THEN s ELSE thread[u]
  BY DEF LimitsInv
<1>2. thread' = [u \in Threads |-> thread'[u]]
  BY DEF LimitsInv
<1>3. \A u \in Threads : ThreadOK(thread[u])'
  BY <1>1 DEF LimitsInv, ThreadOK
<1>4. \A b \in Budgets : TableOK(b, tables[b])'
  BY TablesStay
<1> QED
  BY <1>2, <1>3, <1>4 DEF LimitsInv, Times

LEMMA LimitsStep == LimitsInv /\ [Next]_vars => LimitsInv'
<1> SUFFICES ASSUME LimitsInv, [Next]_vars PROVE LimitsInv'
  OBVIOUS
<1>0. MaxNow \in Nat
  BY BoundAssumption
<1>1. CASE Tick
  <2>1. /\ now' = now + 1 /\ now \in Nat /\ now + 1 <= MaxNow
        /\ UNCHANGED <<calls, tables, thread>>
    BY <1>0, <1>1, SMT DEF Tick, LimitsInv, Times
  <2>2. \A b \in Budgets : TableOK(b, tables[b])'
    <3>1. ASSUME NEW b, TableOK(b, tables[b])
          PROVE  TableOK(b, tables[b])'
      BY <2>1, <3>1, SMT DEF TableOK, Keys
    <3> QED
      BY <3>1 DEF LimitsInv
  <2>3. \A t \in Threads : ThreadOK(thread[t])'
    BY <1>1, <2>1, StallAssumption, SMT DEF Tick, LimitsInv, ThreadOK
  <2> QED
    BY <1>0, <2>1, <2>2, <2>3, SMT DEF LimitsInv, Times
<1>2. ASSUME NEW t \in Threads, Arrive(t) PROVE LimitsInv'
  <2>1. PICK call \in calls :
          LET todo == IF call.bypassed THEN Inner(call) ELSE Outer(call)
          IN thread' = [thread EXCEPT ![t] =
               [pc |-> IF todo = <<>> THEN "served" ELSE "asking", call |-> call, todo |-> todo,
                at |-> None, readings |-> <<>>, asked |-> <<>>, gone |-> {}, retry |-> "none"]]
    BY <1>2 DEF Arrive
  <2> DEFINE todo == IF call.bypassed THEN Inner(call) ELSE Outer(call)
             s == [pc |-> IF todo = <<>> THEN "served" ELSE "asking", call |-> call, todo |-> todo,
                   at |-> None, readings |-> <<>>, asked |-> <<>>, gone |-> {}, retry |-> "none"]
  <2>2. thread' = [thread EXCEPT ![t] = s]
    BY <2>1
  <2> HIDE DEF todo
  <2>3. s = [f \in Fields |-> s[f]] /\ s.pc \in {"served", "asking"} /\ s.call = call
    BY DEF Fields
  <2> HIDE DEF s
  <2>4. ThreadOK(s)
    BY <2>3 DEF ThreadOK
  <2> QED
    BY <1>2, <2>2, <2>4, ThreadMoves DEF Arrive
<1>3. ASSUME NEW t \in Threads, ReadClock(t) PROVE LimitsInv'
  <2> DEFINE s == [thread[t] EXCEPT !.pc = "counting", !.at = now]
  <2>1. thread' = [thread EXCEPT ![t] = s]
    BY <1>3 DEF ReadClock, LimitsInv
  <2>2. ThreadOK(thread[t]) /\ now \in 0..now /\ now - now <= MaxStall /\ thread[t].call \in calls
    BY <1>0, <1>3, StallAssumption, SMT DEF LimitsInv, Times, ThreadOK, ReadClock
  <2>3. /\ s = [f \in Fields |-> s[f]]
        /\ s.pc = "counting" /\ s.at = now /\ s.call = thread[t].call
    BY <2>2 DEF ThreadOK, Fields
  <2> HIDE DEF s
  <2>4. ThreadOK(s)
    BY <2>2, <2>3 DEF ThreadOK
  <2> QED
    BY <1>3, <2>1, <2>4, ThreadMoves DEF ReadClock
<1>4. ASSUME NEW t \in Threads, Consume(t) PROVE LimitsInv'
  BY <1>4, ConsumeFacts
<1>5. CASE UNCHANGED vars
  <2>1. /\ now' = now /\ calls' = calls /\ tables' = tables /\ thread' = thread
    BY <1>5 DEF vars
  <2>2. \A b \in Budgets : TableOK(b, tables[b])'
    BY <2>1, TablesStay
  <2>3. \A t \in Threads : ThreadOK(thread[t])'
    BY <2>1 DEF LimitsInv, ThreadOK
  <2> QED BY <2>1, <2>2, <2>3 DEF LimitsInv, Times
<1> QED
  BY <1>1, <1>2, <1>3, <1>4, <1>5 DEF Next

\* Every table is sound for the time it was last swept, and every clock a thread
\* carries is a time that has been, not long ago (LimitsInv).
THEOREM LimitsInvariance == Spec => []LimitsInv
BY LimitsInit, LimitsStep, PTL DEF Spec

\* Limiter::consume, whatever the order of clocks and locks: a table never holds
\* more than KEYS keys, and none that was over when it was last swept.
THEOREM KeysAreAlwaysLetGo == Spec => []KeysAreLetGo
<1>1. LimitsInv => KeysAreLetGo
  <2> SUFFICES ASSUME LimitsInv PROVE KeysAreLetGo
    OBVIOUS
  <2>0. MaxNow \in Nat /\ now \in Times
    BY BoundAssumption DEF LimitsInv
  <2>1. ASSUME NEW b \in Budgets
        PROVE  /\ tables[b].swept \in Times
               /\ Cardinality(DOMAIN tables[b].windows) <= KEYS
               /\ \A k \in DOMAIN tables[b].windows :
                    /\ k \in {KeyOf(b, call) : call \in calls}
                    /\ WindowOK(b, tables[b].windows[k], tables[b].swept)
    <3>1. TableOK(b, tables[b])
      BY DEF LimitsInv
    <3> QED
      BY <2>0, <3>1, SMT DEF TableOK, Keys, Times
  <2>2. \A t \in Threads : thread[t].pc \in {"idle", "asking", "counting", "served", "refused"}
    BY DEF LimitsInv, ThreadOK
  <2>3. calls \in Mixes
    BY DEF LimitsInv
  <2> QED
    BY <2>0, <2>1, <2>2, <2>3 DEF KeysAreLetGo, TypeOK, WindowOK
<1> QED
  BY <1>1, LimitsInvariance, PTL

\* Limiter::consume, whatever the order of clocks and locks: a window that has
\* not passed stays, keeps its end and never has points given back.
THEOREM WindowsAreWaitedOut == Spec => WaitsOutTheWindow
<1>1. ASSUME LimitsInv, [Next]_vars, NEW b \in Budgets, NEW k \in DOMAIN tables[b].windows,
             tables[b].windows[k].until > now
      PROVE  /\ k \in DOMAIN tables'[b].windows
             /\ tables'[b].windows[k].until = tables[b].windows[k].until
             /\ tables'[b].windows[k].points >= tables[b].windows[k].points
  <2>1. tables[b].windows[k].points \in Nat
    <3>1. WindowOK(b, tables[b].windows[k], tables[b].swept)
      BY <1>1 DEF LimitsInv, TableOK
    <3> QED
      BY <3>1, WindowTypes
  <2>2. CASE \E t \in Threads : Consume(t)
    BY <1>1, <2>2, ConsumeFacts
  <2>3. CASE ~\E t \in Threads : Consume(t)
    <3>1. tables' = tables
      BY <1>1, <2>3 DEF Next, vars, Tick, Arrive, ReadClock
    <3> QED
      BY <2>1, <3>1, SMT
  <2> QED
    BY <2>2, <2>3
<1>2. LimitsInv /\ [Next]_vars =>
        [\A b \in Budgets : \A k \in DOMAIN tables[b].windows :
           tables[b].windows[k].until > now =>
             /\ k \in DOMAIN tables'[b].windows
             /\ tables'[b].windows[k].until = tables[b].windows[k].until
             /\ tables'[b].windows[k].points >= tables[b].windows[k].points]_vars
  BY <1>1
<1> QED
  BY <1>2, LimitsInvariance, PTL DEF Spec, WaitsOutTheWindow

-----------------------------------------------------------------------------
(* What a key is granted. *)

\* When the stretch that is watched is over.
Over == watched.from + Window[watched.budget] - MaxStall

\* While the stretch lasts, a key that is not in the table has been granted no
\* more than one budget in it.  A window that ends before the stretch does was
\* opened before the stretch began, and is all that was granted from; one that
\* ends later is the last, and has one budget at most before it.
GrantsInv ==
  /\ watched.budget \in Budgets /\ watched.from \in Times
  /\ granted \in Nat
  /\ granted <= 2 * Points[watched.budget]
  /\ now < watched.from => granted = 0
  /\ now < Over =>
       /\ watched.key \notin DOMAIN tables[watched.budget].windows => granted <= Points[watched.budget]
       /\ watched.key \in DOMAIN tables[watched.budget].windows =>
            LET w == tables[watched.budget].windows[watched.key]
            IN IF w.until < Over THEN granted <= Points[watched.budget] /\ granted <= w.points
               ELSE granted <= Points[watched.budget] + w.points

\* What a sweep does to one key.
LEMMA SweptKey ==
  ASSUME NEW b, NEW table, NEW at, NEW k
  PROVE  /\ k \in DOMAIN Swept(b, table, at).windows =>
              k \in DOMAIN table.windows /\ Swept(b, table, at).windows[k] = table.windows[k]
         /\ k \in DOMAIN table.windows /\ k \notin DOMAIN Swept(b, table, at).windows =>
              ~(table.windows[k].until > at)
<1>1. CASE at - table.swept < Window[b]
  BY <1>1 DEF Swept
<1>2. CASE ~(at - table.swept < Window[b])
  BY <1>2 DEF Swept
<1> QED BY <1>1, <1>2

\* What a call that is not counted under this key does to it.
LEMMA OtherKey ==
  ASSUME NEW b \in Budgets, TableOK(b, tables[b]), NEW key \in Keys(b), NEW points, NEW at \in 0..now, now \in Times,
         NEW k, k # key \/ ~Counted(b, key, points, at).counted
  PROVE  LET after == Counted(b, key, points, at).table.windows
         IN /\ k \in DOMAIN after =>
                 k \in DOMAIN tables[b].windows /\ after[k] = tables[b].windows[k]
            /\ k \in DOMAIN tables[b].windows /\ k \notin DOMAIN after => ~(tables[b].windows[k].until > at)
<1> DEFINE table == Swept(b, tables[b], at)
           counted == [j \in DOMAIN table.windows \cup {key} |->
                         IF j = key THEN [points |-> SaturatingAdd(Opened(b, table.windows, key, at).points, points),
                                          until |-> Opened(b, table.windows, key, at).until]
                         ELSE table.windows[j]]
<1>1. /\ k \in DOMAIN table.windows => k \in DOMAIN tables[b].windows /\ table.windows[k] = tables[b].windows[k]
      /\ k \in DOMAIN tables[b].windows /\ k \notin DOMAIN table.windows => ~(tables[b].windows[k].until > at)
  BY SweptKey
<1>2. CASE Full(table.windows, key)
  <2>1. Counted(b, key, points, at).table = table
    BY <1>2 DEF Counted
  <2> QED BY <1>1, <2>1
<1>3. CASE ~Full(table.windows, key)
  <2>1. Counted(b, key, points, at).counted /\ Counted(b, key, points, at).table = [table EXCEPT !.windows = counted]
    BY <1>3 DEF Counted
  <2>2. TableOK(b, table)
    BY SweptFacts
  <2>3. Counted(b, key, points, at).table.windows = counted
    <3> HIDE DEF counted, table
    <3> QED BY <2>1, <2>2 DEF TableOK
  <2>4. k # key
    BY <2>1
  <2> HIDE DEF table
  <2>5. (k \in DOMAIN counted <=> k \in DOMAIN table.windows) /\ (k \in DOMAIN counted => counted[k] = table.windows[k])
    BY <2>4
  <2> QED BY <1>1, <2>3, <2>5
<1> QED BY <1>2, <1>3

\* Counting goes on in the window there is, or opens one at the clock it read.
Counting(b, key, points, at, before, after) ==
  \/ /\ key \in DOMAIN before /\ before[key].until > at
     /\ after[key] = [points |-> SaturatingAdd(before[key].points, points), until |-> before[key].until]
  \/ /\ key \in DOMAIN before => ~(before[key].until > at)
     /\ after[key] = [points |-> SaturatingAdd(0, points), until |-> at + Window[b]]

\* What a call that is counted under this key does to it.
LEMMA CountedKey ==
  ASSUME NEW b \in Budgets, TableOK(b, tables[b]), NEW key \in Keys(b), NEW points, NEW at \in 0..now, now \in Times,
         Counted(b, key, points, at).counted
  PROVE  /\ key \in DOMAIN Counted(b, key, points, at).table.windows
         /\ Counted(b, key, points, at).reading =
              Reading(b, Counted(b, key, points, at).table.windows[key].points)
         /\ Counting(b, key, points, at, tables[b].windows, Counted(b, key, points, at).table.windows)
<1> DEFINE table == Swept(b, tables[b], at)
           window == Opened(b, table.windows, key, at)
           spent == SaturatingAdd(window.points, points)
           counted == [j \in DOMAIN table.windows \cup {key} |->
                         IF j = key THEN [points |-> spent, until |-> window.until] ELSE table.windows[j]]
<1>1. /\ Counted(b, key, points, at).table = [table EXCEPT !.windows = counted]
      /\ Counted(b, key, points, at).reading = Reading(b, spent)
  <2>1. ~Full(table.windows, key)
    BY DEF Counted
  <2> QED BY <2>1 DEF Counted
<1>2. TableOK(b, table)
  BY SweptFacts
<1>3. Counted(b, key, points, at).table.windows = counted
  <2> HIDE DEF counted, table
  <2> QED BY <1>1, <1>2 DEF TableOK
<1>4. key \in DOMAIN counted /\ counted[key] = [points |-> spent, until |-> window.until]
  <2> HIDE DEF table, window, spent
  <2> QED OBVIOUS
<1>5. \/ /\ key \in DOMAIN tables[b].windows /\ tables[b].windows[key].until > at
         /\ window = tables[b].windows[key]
      \/ /\ key \in DOMAIN tables[b].windows => ~(tables[b].windows[key].until > at)
         /\ window = [points |-> 0, until |-> at + Window[b]]
  <2>0. /\ key \in DOMAIN table.windows =>
             key \in DOMAIN tables[b].windows /\ table.windows[key] = tables[b].windows[key]
        /\ key \in DOMAIN tables[b].windows /\ key \notin DOMAIN table.windows =>
             ~(tables[b].windows[key].until > at)
    BY SweptKey
  <2>1. CASE key \in DOMAIN table.windows /\ table.windows[key].until > at
    <3>1. window = table.windows[key]
      BY <2>1 DEF Opened
    <3>2. key \in DOMAIN tables[b].windows /\ table.windows[key] = tables[b].windows[key]
      BY <2>1, <2>0
    <3> QED BY <2>1, <3>1, <3>2
  <2>2. CASE ~(key \in DOMAIN table.windows /\ table.windows[key].until > at)
    <3>1. key \in DOMAIN tables[b].windows => ~(tables[b].windows[key].until > at)
      BY <2>0, <2>2
    <3> QED BY <2>2, <3>1 DEF Opened
  <2> QED BY <2>1, <2>2
<1> HIDE DEF window, counted, table
<1>6. counted[key].points = spent
  BY <1>4, SMT
<1>7. CASE /\ key \in DOMAIN tables[b].windows /\ tables[b].windows[key].until > at
           /\ window = tables[b].windows[key]
  BY <1>1, <1>3, <1>4, <1>6, <1>7 DEF Counting
<1>8. CASE /\ key \in DOMAIN tables[b].windows => ~(tables[b].windows[key].until > at)
           /\ window = [points |-> 0, until |-> at + Window[b]]
  BY <1>1, <1>3, <1>4, <1>6, <1>8 DEF Counting
<1> QED BY <1>5, <1>7, <1>8


LEMMA BudgetTypes ==
  ASSUME NEW b \in Budgets
  PROVE  /\ Window[b] \in Nat /\ MaxStall \in Nat /\ MaxStall < Window[b]
         /\ Points[b] \in Nat /\ Points[b] < U32MAX /\ U32MAX \in Nat
BY PointsAssumption, WindowAssumption, StallAssumption, BoundAssumption, SMT

LEMMA TimesAreNat ==
  ASSUME NEW time \in Times
  PROVE  time \in Nat
BY BoundAssumption, SMT DEF Times

LEMMA SpanTypes ==
  ASSUME NEW from \in Nat, NEW window \in Nat, NEW stall \in Nat
  PROVE  from + window - stall \in Int
BY SMT

LEMMA GrantTypes ==
  ASSUME GrantsInv, LimitsInv
  PROVE  /\ watched.from \in Nat /\ Window[watched.budget] \in Nat /\ MaxStall \in Nat
         /\ MaxStall < Window[watched.budget]
         /\ now \in Nat /\ Points[watched.budget] \in Nat
         /\ Points[watched.budget] < U32MAX /\ U32MAX \in Nat
         /\ Over \in Int
<1>1. watched.budget \in Budgets /\ watched.from \in Times /\ now \in Times
  BY DEF GrantsInv, LimitsInv
<1>2. watched.from \in Nat /\ now \in Nat
  BY <1>1, TimesAreNat
<1> QED BY <1>1, <1>2, BudgetTypes, SpanTypes DEF Over

LEMMA Saturates ==
  ASSUME NEW spent \in 0..U32MAX, NEW points \in Nat
  PROVE  /\ spent \in Nat
         /\ SaturatingAdd(spent, points) \in Nat /\ SaturatingAdd(spent, points) >= spent
         /\ SaturatingAdd(spent, points) < U32MAX => SaturatingAdd(spent, points) = spent + points
BY BoundAssumption, SMT DEF SaturatingAdd

LEMMA SaturatesAtOnce ==
  ASSUME NEW points \in Nat
  PROVE  /\ SaturatingAdd(0, points) \in Nat
         /\ SaturatingAdd(0, points) < U32MAX => SaturatingAdd(0, points) = points
BY BoundAssumption, SMT DEF SaturatingAdd

\* What is left of GrantsInv when the table of the budget watched is this one.
Granting(windows, n) ==
  /\ n \in Nat
  /\ n <= 2 * Points[watched.budget]
  /\ now < watched.from => n = 0
  /\ now < Over =>
       /\ watched.key \notin DOMAIN windows => n <= Points[watched.budget]
       /\ watched.key \in DOMAIN windows =>
            LET w == windows[watched.key]
            IN IF w.until < Over THEN n <= Points[watched.budget] /\ n <= w.points
               ELSE n <= Points[watched.budget] + w.points

\* The sums behind a call counted in a window that goes on: what was granted from
\* the window stays within what is spent of it.
LEMMA SpentGrows ==
  ASSUME NEW most \in Nat, NEW had \in Nat, NEW has \in Nat, NEW grants \in Nat, has >= had
  PROVE  /\ grants <= had => grants <= has
         /\ grants <= most + had => grants <= most + has
BY SMT

LEMMA GrantAdds ==
  ASSUME NEW most \in Nat, NEW had \in Nat, NEW grants \in Nat, NEW points \in Nat,
         ~(had + points > most)
  PROVE  /\ grants + points \in Nat
         /\ grants <= had => grants + points <= most /\ grants + points <= had + points
         /\ grants <= most + had => grants + points <= most + (had + points)
         /\ grants <= had \/ grants <= most + had => grants + points <= 2 * most
BY SMT

LEMMA BelowTop ==
  ASSUME NEW has \in Nat, NEW most \in Nat, NEW top \in Nat, ~(has > most), most < top
  PROVE  has < top
BY SMT

LEMMA NotBefore ==
  ASSUME NEW time \in Nat, NEW from \in Nat, from <= time
  PROVE  ~(time < from)
BY SMT

\* The count of the stretch after a call that leaves this much spent.
Grants(n, spent, points) ==
  \/ n = granted
  \/ /\ ~(spent > Points[watched.budget]) /\ watched.from <= now /\ now < Over
     /\ n = granted + points

\* The window watched after a call counted in it.
GoesOn(w, points) ==
  LET old == tables[watched.budget].windows[watched.key]
  IN w.until = old.until /\ w.points = SaturatingAdd(old.points, points)

\* A call counted in a window that goes on.
LEMMA GrantGoesOn ==
  ASSUME LimitsInv, GrantsInv, NEW points \in Nat, NEW windows, NEW n,
         watched.key \in DOMAIN windows, watched.key \in DOMAIN tables[watched.budget].windows,
         GoesOn(windows[watched.key], points), Grants(n, windows[watched.key].points, points)
  PROVE  Granting(windows, n)
<1> DEFINE old == tables[watched.budget].windows[watched.key]
           w == windows[watched.key]
           most == Points[watched.budget]
<1>0. w.points = SaturatingAdd(old.points, points) /\ w.until = old.until
  BY DEF GoesOn
<1>1. old.points \in 0..U32MAX
  <2>1. WindowOK(watched.budget, old, tables[watched.budget].swept)
    BY DEF LimitsInv, TableOK, GrantsInv
  <2> QED BY <2>1 DEF WindowOK
<1>2. now < Over => IF old.until < Over THEN granted <= most /\ granted <= old.points
                    ELSE granted <= most + old.points
  BY DEF GrantsInv
<1>3. granted <= 2 * most /\ (now < watched.from => granted = 0)
  BY DEF GrantsInv
<1>4. most < U32MAX /\ U32MAX \in Nat
  BY GrantTypes
<1> HIDE DEF old, w, most
<1>5. granted \in Nat /\ most \in Nat
  BY GrantTypes DEF GrantsInv, most
<1>6. old.points \in Nat /\ w.points \in Nat /\ w.points >= old.points
  BY <1>0, <1>1, Saturates
<1>7. CASE n = granted
  <2>1. granted <= old.points => granted <= w.points
    BY <1>5, <1>6, SpentGrows
  <2>2. granted <= most + old.points => granted <= most + w.points
    BY <1>5, <1>6, SpentGrows
  <2> QED BY <1>0, <1>2, <1>3, <1>5, <1>7, <2>1, <2>2 DEF Granting, most, w
<1>8. CASE /\ ~(w.points > most) /\ watched.from <= now /\ now < Over
           /\ n = granted + points
  <2>1. w.points < U32MAX
    BY <1>4, <1>5, <1>6, <1>8, BelowTop
  <2>2. w.points = old.points + points
    BY <1>0, <1>1, <2>1, Saturates
  <2>3. ~(old.points + points > most)
    BY <1>8, <2>2
  <2>4. /\ granted + points \in Nat
        /\ granted <= old.points => granted + points <= most /\ granted + points <= old.points + points
        /\ granted <= most + old.points => granted + points <= most + (old.points + points)
        /\ granted <= old.points \/ granted <= most + old.points => granted + points <= 2 * most
    BY <1>5, <1>6, <2>3, GrantAdds
  <2>5. ~(now < watched.from)
    BY <1>8, NotBefore, GrantTypes
  <2> QED BY <1>0, <1>2, <1>8, <2>2, <2>4, <2>5 DEF Granting, most, w
<1> QED BY <1>7, <1>8 DEF Grants, most, w

\* The sums behind a call that opens a window: the window before it ends before
\* the stretch does, and the new one no earlier.
LEMMA WindowEnded ==
  ASSUME NEW until \in Nat, NEW at \in Nat, NEW time \in Nat, NEW over \in Int,
         ~(until > at), at <= time, time < over
  PROVE  until < over
BY SMT

LEMMA WindowOutlasts ==
  ASSUME NEW at \in Nat, NEW time \in Nat, NEW from \in Nat, NEW window \in Nat, NEW stall \in Nat,
         time - at <= stall, at + window < from + window - stall
  PROVE  time < from
BY SMT

LEMMA GrantOpens ==
  ASSUME NEW most \in Nat, NEW has \in Nat, NEW grants \in Nat, NEW points \in Nat,
         NEW top \in Nat, most < top, has < top => has = points, grants <= most
  PROVE  /\ grants <= most + has
         /\ ~(has > most) => /\ grants + points \in Nat /\ grants + points <= 2 * most
                             /\ grants + points <= most + has
BY SMT

LEMMA UpTo ==
  ASSUME NEW time \in Nat, NEW at \in 0..time
  PROVE  at \in Nat /\ at <= time
BY SMT

LEMMA NoneGrantedYet ==
  ASSUME NEW most \in Nat, NEW has \in Nat
  PROVE  0 <= most /\ 0 <= has
BY SMT

\* The window watched after a call that opens it.
Begins(w, points, at) ==
  w.until = at + Window[watched.budget] /\ w.points = SaturatingAdd(0, points)

\* A call that opens a window: the one before it is over by now.
LEMMA GrantBegins ==
  ASSUME LimitsInv, GrantsInv, NEW points \in Nat, NEW windows, NEW n, NEW at \in 0..now,
         now - at <= MaxStall,
         watched.key \in DOMAIN windows,
         watched.key \in DOMAIN tables[watched.budget].windows =>
           ~(tables[watched.budget].windows[watched.key].until > at),
         Begins(windows[watched.key], points, at), Grants(n, windows[watched.key].points, points)
  PROVE  Granting(windows, n)
<1> DEFINE most == Points[watched.budget]
           w == windows[watched.key]
           old == tables[watched.budget].windows[watched.key]
<1>0. /\ most \in Nat /\ most < U32MAX /\ U32MAX \in Nat /\ watched.from \in Nat /\ now \in Nat
      /\ Over \in Int /\ Window[watched.budget] \in Nat /\ MaxStall \in Nat
      /\ at \in Nat /\ at <= now
  BY GrantTypes, UpTo
<1>1. now < Over => granted <= most
  <2>1. CASE watched.key \in DOMAIN tables[watched.budget].windows
    <3>1. WindowOK(watched.budget, old, tables[watched.budget].swept) /\ ~(old.until > at)
      BY <2>1 DEF LimitsInv, TableOK, GrantsInv
    <3>2. old.until \in Nat
      BY <3>1, WindowTypes DEF GrantsInv
    <3>3. now < Over => IF old.until < Over THEN granted <= most /\ granted <= old.points
                        ELSE granted <= most + old.points
      BY <2>1 DEF GrantsInv
    <3> HIDE DEF old, most
    <3>4. now < Over => old.until < Over
      BY <1>0, <3>1, <3>2, WindowEnded
    <3> QED BY <3>3, <3>4
  <2>2. CASE watched.key \notin DOMAIN tables[watched.budget].windows
    BY <2>2 DEF GrantsInv
  <2> QED BY <2>1, <2>2
<1>2. w.points \in Nat /\ (w.points < U32MAX => w.points = points)
  BY SaturatesAtOnce DEF Begins
<1>3. granted \in Nat /\ granted <= 2 * most /\ (now < watched.from => granted = 0)
  BY DEF GrantsInv
<1>4. w.until < Over => now < watched.from
  <2>1. now - at <= MaxStall /\ w.until = at + Window[watched.budget]
    BY DEF Begins
  <2>2. at + Window[watched.budget] < watched.from + Window[watched.budget] - MaxStall => now < watched.from
    BY <1>0, <2>1, WindowOutlasts
  <2> QED BY <2>1, <2>2 DEF Over
<1> HIDE DEF most, w
<1>5. 0 <= most /\ 0 <= w.points
  BY <1>0, <1>2, NoneGrantedYet
<1>6. now < Over => /\ granted <= most + w.points
                    /\ ~(w.points > most) => /\ granted + points \in Nat /\ granted + points <= 2 * most
                                             /\ granted + points <= most + w.points
  BY <1>0, <1>1, <1>2, <1>3, GrantOpens
<1>7. CASE n = granted
  BY <1>1, <1>3, <1>4, <1>5, <1>6, <1>7 DEF Granting, most, w
<1>8. CASE /\ ~(w.points > most) /\ watched.from <= now /\ now < Over
           /\ n = granted + points
  <2>1. ~(now < watched.from)
    BY <1>0, <1>8, NotBefore
  <2> QED BY <1>4, <1>6, <1>8, <2>1 DEF Granting, most, w
<1> QED BY <1>7, <1>8 DEF Grants, most, w


\* A call that is not counted under the key watched leaves its window, or drops
\* it once it is over.
LEMMA GrantStays ==
  ASSUME LimitsInv, GrantsInv, NEW windows, NEW at \in 0..now,
         watched.key \in DOMAIN windows =>
           /\ watched.key \in DOMAIN tables[watched.budget].windows
           /\ windows[watched.key] = tables[watched.budget].windows[watched.key],
         watched.key \in DOMAIN tables[watched.budget].windows /\ watched.key \notin DOMAIN windows =>
           ~(tables[watched.budget].windows[watched.key].until > at)
  PROVE  Granting(windows, granted)
<1>0. Over \in Int /\ now \in Nat /\ at \in Nat /\ at <= now
  BY GrantTypes, UpTo
<1>1. /\ granted \in Nat /\ granted <= 2 * Points[watched.budget]
      /\ now < watched.from => granted = 0
  BY DEF GrantsInv
<1>2. CASE watched.key \in DOMAIN windows
  BY <1>1, <1>2 DEF GrantsInv, Granting
<1>3. CASE watched.key \notin DOMAIN windows /\ watched.key \notin DOMAIN tables[watched.budget].windows
  BY <1>1, <1>3 DEF GrantsInv, Granting
<1>4. CASE watched.key \notin DOMAIN windows /\ watched.key \in DOMAIN tables[watched.budget].windows
  <2> DEFINE old == tables[watched.budget].windows[watched.key]
  <2>1. old.until \in Nat /\ ~(old.until > at)
    <3>1. WindowOK(watched.budget, old, tables[watched.budget].swept)
      BY <1>4 DEF LimitsInv, TableOK, GrantsInv
    <3> QED BY <1>4, <3>1, WindowTypes DEF GrantsInv
  <2>2. now < Over => IF old.until < Over THEN granted <= Points[watched.budget] /\ granted <= old.points
                      ELSE granted <= Points[watched.budget] + old.points
    BY <1>4 DEF GrantsInv
  <2> HIDE DEF old
  <2>3. now < Over => old.until < Over
    BY <1>0, <2>1, WindowEnded
  <2> QED BY <1>1, <1>4, <2>2, <2>3 DEF Granting
<1> QED BY <1>2, <1>3, <1>4

LEMMA ConsumeGrants ==
  ASSUME LimitsInv, GrantsInv, NEW t \in Threads, Consume(t)
  PROVE  GrantsInv'
<1> DEFINE s == thread[t]
           b == Head(s.todo)
           key == KeyOf(b, s.call)
           points == Cost(b, s.call)
           c == Counted(b, key, points, s.at)
<1>1. /\ tables' = [tables EXCEPT ![b] = c.table]
      /\ granted' = IF c.counted /\ ~c.reading.exceeded /\ Watching(b, key) THEN granted + points ELSE granted
      /\ now' = now /\ watched' = watched
  BY DEF Consume
<1>2. ThreadOK(s) /\ s.pc = "counting"
  BY DEF LimitsInv, Consume
<1>3. s.at \in 0..now /\ now - s.at <= MaxStall /\ now \in Times
  BY <1>2 DEF ThreadOK, LimitsInv
<1>4. key \in Keys(b) /\ points \in Nat
  BY <1>2, MixesAssumption DEF ThreadOK, Keys, Cost, LimitsInv
<1> HIDE DEF s, b, key, points, c
<1>5. watched.budget \in Budgets /\ watched.from \in Times
  BY DEF GrantsInv
<1>6. SUFFICES Granting(tables'[watched.budget].windows, granted')
  BY <1>1, <1>5, <1>6 DEF GrantsInv, Granting, Over, Times
<1>7. CASE b # watched.budget
  <2>1. tables'[watched.budget] = tables[watched.budget]
    BY <1>1, <1>5, <1>7 DEF LimitsInv
  <2>2. granted' = granted
    BY <1>1, <1>7 DEF Watching
  <2> QED BY <1>3, <2>1, <2>2, GrantStays
<1>8. CASE b = watched.budget
  <2>1. tables'[watched.budget].windows = c.table.windows /\ TableOK(b, tables[b]) /\ b \in Budgets
    BY <1>1, <1>5, <1>8 DEF LimitsInv
  <2>2. CASE watched.key # key \/ ~c.counted
    <3>1. granted' = granted
      BY <1>1, <2>2 DEF Watching
    <3>2. /\ watched.key \in DOMAIN c.table.windows =>
               /\ watched.key \in DOMAIN tables[b].windows
               /\ c.table.windows[watched.key] = tables[b].windows[watched.key]
          /\ watched.key \in DOMAIN tables[b].windows /\ watched.key \notin DOMAIN c.table.windows =>
               ~(tables[b].windows[watched.key].until > s.at)
      BY <1>3, <1>4, <2>1, <2>2, OtherKey DEF c
    <3>3. Granting(c.table.windows, granted)
      BY <1>3, <1>8, <3>2, GrantStays
    <3> QED BY <2>1, <3>1, <3>3
  <2>3. CASE watched.key = key /\ c.counted
    <3> DEFINE w == c.table.windows[key]
    <3>1. /\ key \in DOMAIN c.table.windows
          /\ c.reading = Reading(b, w.points)
          /\ Counting(b, key, points, s.at, tables[b].windows, c.table.windows)
      <4>1. s.at \in 0..now /\ now \in Times /\ key \in Keys(b) /\ b \in Budgets /\ TableOK(b, tables[b])
        BY <1>3, <1>4, <2>1
      <4>2. Counted(b, key, points, s.at).counted
        BY <2>3 DEF c
      <4> QED BY <4>1, <4>2, CountedKey DEF c
    <3>2. c.reading.exceeded <=> w.points > Points[b]
      <4> HIDE DEF w
      <4>1. Reading(b, w.points).exceeded = (w.points > Points[b])
        BY ReadingFacts
      <4> QED BY <3>1, <4>1
    <3>3. Grants(granted', c.table.windows[watched.key].points, points)
      BY <1>1, <1>8, <2>3, <3>2 DEF Watching, Over, Grants
    <3> HIDE DEF w
    <3>4. CASE /\ key \in DOMAIN tables[b].windows
               /\ w = [points |-> SaturatingAdd(tables[b].windows[key].points, points),
                       until |-> tables[b].windows[key].until]
      <4>1. watched.key \in DOMAIN tables[watched.budget].windows
        BY <1>8, <2>3, <3>4
      <4>2. watched.key \in DOMAIN c.table.windows /\ GoesOn(c.table.windows[watched.key], points)
        <5>1. /\ w.points = SaturatingAdd(tables[b].windows[key].points, points)
              /\ w.until = tables[b].windows[key].until
          BY <3>4
        <5> QED BY <1>8, <2>3, <3>1, <5>1 DEF GoesOn, w
      <4>3. Granting(c.table.windows, granted')
        BY <1>4, <3>3, <4>1, <4>2, GrantGoesOn
      <4> QED BY <2>1, <4>3
    <3>5. CASE /\ key \in DOMAIN tables[b].windows => ~(tables[b].windows[key].until > s.at)
               /\ w = [points |-> SaturatingAdd(0, points), until |-> s.at + Window[b]]
      <4>1. watched.key \in DOMAIN tables[watched.budget].windows =>
              ~(tables[watched.budget].windows[watched.key].until > s.at)
        BY <1>8, <2>3, <3>5
      <4>2. watched.key \in DOMAIN c.table.windows /\ Begins(c.table.windows[watched.key], points, s.at)
        <5>1. w.points = SaturatingAdd(0, points) /\ w.until = s.at + Window[b]
          BY <3>5
        <5> QED BY <1>8, <2>3, <3>1, <5>1 DEF Begins, w
      <4>3. Granting(c.table.windows, granted')
        BY <1>3, <1>4, <3>3, <4>1, <4>2, GrantBegins
      <4> QED BY <2>1, <4>3
    <3> QED BY <3>1, <3>4, <3>5 DEF w, Counting
  <2> QED BY <2>2, <2>3
<1> QED BY <1>7, <1>8


LEMMA GrantsInit == Init => GrantsInv
<1> SUFFICES ASSUME Init PROVE GrantsInv
  OBVIOUS
<1>1. PICK call \in calls, b \in Budgets, from \in Times :
        watched = [budget |-> b, key |-> KeyOf(b, call), from |-> from]
  BY DEF Init
<1>2. watched.budget = b /\ watched.from = from /\ granted = 0
  BY <1>1 DEF Init
<1>3. Points[b] \in Nat
  BY PointsAssumption, SMT
<1>4. tables[b].windows = <<>>
  BY DEF Init
<1> QED BY <1>2, <1>3, <1>4, SMT DEF GrantsInv

LEMMA GrantsStep == LimitsInv /\ GrantsInv /\ [Next]_vars => GrantsInv'
<1> SUFFICES ASSUME LimitsInv, GrantsInv, [Next]_vars PROVE GrantsInv'
  OBVIOUS
<1>1. CASE Tick
  <2>1. now' = now + 1 /\ tables' = tables /\ watched' = watched /\ granted' = granted
    BY <1>1 DEF Tick
  <2>2. now < now' /\ now' \in Nat /\ Over \in Int /\ Over' = Over
    <3>1. Over' = Over
      BY <2>1 DEF Over
    <3> QED BY <2>1, <3>1, GrantTypes, SMT
  <2>3. (now' < watched.from => now < watched.from) /\ (now' < Over => now < Over)
    BY <2>2, GrantTypes, SMT
  <2> QED BY <2>1, <2>2, <2>3 DEF GrantsInv, Times
<1>2. ASSUME NEW t \in Threads, Arrive(t) \/ ReadClock(t) PROVE GrantsInv'
  BY <1>2 DEF Arrive, ReadClock, GrantsInv, Times, Over
<1>3. ASSUME NEW t \in Threads, Consume(t) PROVE GrantsInv'
  BY <1>3, ConsumeGrants
<1>4. CASE UNCHANGED vars
  BY <1>4 DEF vars, GrantsInv, Times, Over
<1> QED BY <1>1, <1>2, <1>3, <1>4 DEF Next

\* Limiter::consume grants a key at most two budgets in any stretch shorter than
\* a window by the longest wait for the lock, whatever requests, clocks and
\* sweeps come between (GrantsInv).
THEOREM TwoBudgetsAtMost == Spec => []TwiceAtMost
<1>1. GrantsInv => TwiceAtMost
  BY DEF GrantsInv, TwiceAtMost
<1> QED BY <1>1, LimitsInvariance, GrantsInit, GrantsStep, PTL DEF Spec

-----------------------------------------------------------------------------
(* What a request has paid. *)

\* What a call spends from: no budget of writes in the middleware, the shared
\* one first if at all, and nothing but budgets of writes in the handler.
LEMMA Spends ==
  ASSUME NEW call
  PROVE  /\ Outer(call) \in Seq(Budgets) /\ Inner(call) \in Seq(Budgets)
         /\ \A i \in 1..Len(Outer(call)) : /\ Outer(call)[i] \notin Writes
                                           /\ Outer(call)[i] = "global" => i = 1
         /\ \A i \in 1..Len(Inner(call)) : Inner(call)[i] \in Writes
         /\ call.bypassed => Outer(call) = <<>>
         /\ ~call.bypassed => Outer(call) # <<>>
<1>0. /\ Inner(call) \in Seq(Budgets)
      /\ \A i \in 1..Len(Inner(call)) : Inner(call)[i] \in Writes
      /\ <<>> \in Seq(Budgets) /\ \A i \in 1..Len(<<>>) : FALSE
  <2>1. <<>> \in Seq(Budgets) /\ Len(<<>>) = 0 /\ \A i \in 1..0 : FALSE
    BY SMT
  <2>2. CASE Inner(call) = <<>>
    BY <2>1, <2>2
  <2>3. CASE Inner(call) = <<"writes", "writesDay">>
    <3>1. "writes" \in Budgets /\ "writesDay" \in Budgets /\ "writes" \in Writes /\ "writesDay" \in Writes
      BY DEF Budgets, Writes
    <3> QED BY <2>1, <2>3, <3>1, SMT
  <2> QED BY <2>2, <2>3 DEF Inner
<1>1. CASE call.bypassed
  <2>1. Outer(call) = <<>>
    BY <1>1 DEF Outer
  <2> QED BY <1>1, <1>0, <2>1
<1>2. CASE ~call.bypassed
  <2>1. \/ Outer(call) = <<"repo">>
        \/ Outer(call) = <<"global", "session", "sessionDay">>
        \/ Outer(call) = <<"global", "signup">>
        \/ Outer(call) = <<"global">>
    BY <1>2 DEF Outer
  <2>2. /\ Outer(call) \in Seq(Budgets)
        /\ \A i \in 1..Len(Outer(call)) : /\ Outer(call)[i] \notin Writes
                                          /\ Outer(call)[i] = "global" => i = 1
        /\ Outer(call) # <<>>
    <3>1. /\ {"global", "session", "sessionDay", "signup", "repo"} \subseteq Budgets \ Writes
          /\ "session" # "global" /\ "sessionDay" # "global" /\ "signup" # "global" /\ "repo" # "global"
      BY DEF Budgets, Writes
    <3>2. CASE Outer(call) = <<"repo">>
      BY <3>1, <3>2, SMT
    <3>3. CASE Outer(call) = <<"global", "session", "sessionDay">>
      BY <3>1, <3>3, SMT
    <3>4. CASE Outer(call) = <<"global", "signup">>
      BY <3>1, <3>4, SMT
    <3>5. CASE Outer(call) = <<"global">>
      BY <3>1, <3>5, SMT
    <3> QED BY <2>1, <3>2, <3>3, <3>4, <3>5
  <2> QED BY <1>0, <1>2, <2>2
<1> QED BY <1>1, <1>2

LEMMA SpendsAll ==
  ASSUME NEW call
  PROVE  /\ Budgeted(call) \in Seq(Budgets)
         /\ Len(Budgeted(call)) = Len(Outer(call)) + Len(Inner(call))
         /\ \A i \in 1..Len(Outer(call)) : Budgeted(call)[i] = Outer(call)[i]
         /\ \A i \in 1..Len(Inner(call)) : Budgeted(call)[Len(Outer(call)) + i] = Inner(call)[i]
         /\ \A i \in 1..Len(Budgeted(call)) : Budgeted(call)[i] = "global" => i = 1
<1>1. Outer(call) \in Seq(Budgets) /\ Inner(call) \in Seq(Budgets)
  BY Spends
<1>2. /\ Budgeted(call) \in Seq(Budgets)
      /\ Len(Budgeted(call)) = Len(Outer(call)) + Len(Inner(call))
      /\ \A i \in 1..Len(Outer(call)) : Budgeted(call)[i] = Outer(call)[i]
      /\ \A i \in 1..Len(Inner(call)) : Budgeted(call)[Len(Outer(call)) + i] = Inner(call)[i]
  BY <1>1, SMT DEF Budgeted
<1>3. Len(Outer(call)) \in Nat /\ Len(Inner(call)) \in Nat
  BY <1>1, SMT
<1>4. ASSUME NEW i \in 1..Len(Budgeted(call)), Budgeted(call)[i] = "global" PROVE i = 1
  <2>1. CASE i <= Len(Outer(call))
    <3>1. i \in 1..Len(Outer(call))
      BY <1>3, <2>1, SMT
    <3>2. Outer(call)[i] = "global"
      BY <1>2, <1>4, <3>1
    <3> QED BY <3>1, <3>2, Spends
  <2>2. CASE i > Len(Outer(call))
    <3> DEFINE j == i - Len(Outer(call))
    <3>1. j \in 1..Len(Inner(call)) /\ Len(Outer(call)) + j = i
      BY <1>2, <1>3, <2>2, SMT
    <3> HIDE DEF j
    <3>2. Inner(call)[j] = "global" /\ Inner(call)[j] \in Writes
      BY <1>2, <1>4, <3>1, Spends
    <3>3. "global" \notin Writes
      BY DEF Writes
    <3> QED BY <3>2, <3>3
  <2> QED BY <1>3, <2>1, <2>2, SMT
<1> QED BY <1>2, <1>4

\* The budgets asked and the ones still to ask are these, in their order.
Makes(asked, todo, all) ==
  /\ Len(asked) + Len(todo) = Len(all)
  /\ \A i \in 1..Len(asked) : asked[i] = all[i]
  /\ \A i \in 1..Len(todo) : todo[i] = all[Len(asked) + i]

LEMMA MakesLast ==
  ASSUME NEW asked \in Seq(Budgets), NEW todo \in Seq(Budgets), NEW all \in Seq(Budgets),
         Makes(asked, todo, all), asked # <<>>
  PROVE  Len(asked) \in 1..Len(all) /\ all[Len(asked)] = asked[Len(asked)]
<1>1. Len(asked) \in Nat /\ Len(todo) \in Nat /\ Len(asked) \in 1..Len(asked)
  BY SMT
<1> QED BY <1>1, SMT DEF Makes

Readings == [budget : Budgets, exceeded : BOOLEAN, remaining : Nat]

\* A request has a reading of every budget it asked, and knows which were gone.
Reads(asked, readings, gone) ==
  /\ asked \in Seq(Budgets) /\ readings \in Seq(Readings)
  /\ Len(readings) = Len(asked)
  /\ \A i \in 1..Len(asked) : readings[i].budget = asked[i]
  /\ \A b : b \in gone <=> \E i \in 1..Len(asked) : asked[i] = b /\ readings[i].exceeded

\* It is still in the middleware, or has come through it with nothing gone.
Due(call, asked, todo, gone) ==
  /\ todo \in Seq(Budgets)
  /\ \/ ~call.bypassed /\ Makes(asked, todo, Outer(call))
     \/ /\ Inner(call) # <<>> /\ Len(asked) >= Len(Outer(call))
        /\ Makes(asked, todo, Budgeted(call))
        /\ gone \subseteq Writes

\* ServedHasPaid, of one request.
Settled(s) ==
  /\ s.pc = "served" => s.asked = Budgeted(s.call) /\ s.gone = {}
  /\ s.pc = "refused" =>
       /\ s.retry \in s.gone
       /\ "global" \in s.gone => s.asked = <<"global">>
       /\ s.gone \subseteq Writes => s.asked = Budgeted(s.call)

\* While it is asking, the shared budget has not refused it.
Paying(s) ==
  /\ s.pc \in {"asking", "counting"} =>
       /\ Reads(s.asked, s.readings, s.gone) /\ Due(s.call, s.asked, s.todo, s.gone)
       /\ s.todo # <<>> /\ "global" \notin s.gone
  /\ Settled(s)

PaidInv == \A t \in Threads : Paying(thread[t])

LEMMA SameSequence ==
  ASSUME NEW S, NEW one \in Seq(S), NEW other \in Seq(S), Len(one) = Len(other),
         \A i \in 1..Len(one) : one[i] = other[i]
  PROVE  one = other
BY SMT

LEMMA LeastNat ==
  ASSUME NEW T, T \subseteq Nat, T # {}
  PROVE  \E x \in T : \A y \in T : x <= y
<1>1. PICK x \in T : \A y \in T : ~(<<y, x>> \in OpToRel(<, Nat))
  BY NatLessThanWellFounded, WFMin
<1>2. \A y \in T : ~(y < x)
  BY <1>1 DEF OpToRel
<1> QED BY <1>2, SMT

LEMMA FirstIs ==
  ASSUME NEW T, T \subseteq Nat, T # {}
  PROVE  First(T) \in T
<1>1. \E x \in T : \A y \in T : x <= y
  BY LeastNat
<1> QED BY <1>1 DEF First

\* tightest picks one of the readings, and one that refuses where there is one.
LEMMA TightestIs ==
  ASSUME NEW readings \in Seq(Readings), NEW indices, indices \subseteq DOMAIN readings, indices # {}
  PROVE  \E i \in indices : /\ Tightest(readings, indices) = readings[i]
                            /\ (\E j \in indices : readings[j].exceeded) => readings[i].exceeded
<1> DEFINE gone == indices \cap Exceeded(readings)
           least == {i \in indices : \A j \in indices : readings[i].remaining <= readings[j].remaining}
<1>1. indices \subseteq Nat /\ \A i \in indices : readings[i].remaining \in Nat
  <2>1. \A i \in DOMAIN readings : i \in Nat /\ readings[i] \in Readings
    BY SMT
  <2> QED BY <2>1 DEF Readings
<1>2. CASE gone # {}
  <2>1. Tightest(readings, indices) = readings[First(gone)]
    BY <1>2 DEF Tightest
  <2>2. First(gone) \in gone
    BY <1>1, <1>2, FirstIs
  <2> QED BY <2>1, <2>2 DEF Exceeded
<1>3. CASE gone = {}
  <2>1. Tightest(readings, indices) = readings[First(least)]
    BY <1>3 DEF Tightest
  <2>2. least # {}
    <3> DEFINE left == {readings[i].remaining : i \in indices}
    <3>1. \E x \in left : \A y \in left : x <= y
      BY <1>1, LeastNat
    <3>2. PICK i \in indices : \A y \in left : readings[i].remaining <= y
      BY <3>1
    <3>3. \A j \in indices : readings[i].remaining <= readings[j].remaining
      BY <3>2
    <3> QED BY <3>3
  <2>3. First(least) \in least
    BY <1>1, <2>2, FirstIs
  <2>4. ~\E j \in indices : readings[j].exceeded
    BY <1>3 DEF Exceeded
  <2> QED BY <2>1, <2>3, <2>4
<1> QED BY <1>2, <1>3


\* The handler refuses a call where a budget of writes is gone, and by that one.
LEMMA HandledIs ==
  ASSUME NEW readings \in Seq(Readings)
  PROVE  \/ /\ Handled(readings) = Served
            /\ \A i \in DOMAIN readings : readings[i].budget \in Writes => ~readings[i].exceeded
         \/ \E i \in DOMAIN readings :
              /\ readings[i].budget \in Writes /\ readings[i].exceeded
              /\ Handled(readings) = [pc |-> "refused", retry |-> readings[i].budget]
<1> DEFINE gone == {i \in Exceeded(readings) : readings[i].budget \in Writes}
<1>1. CASE gone = {}
  BY <1>1 DEF Handled, Exceeded
<1>2. CASE gone # {}
  <2>1. gone \subseteq Nat
    <3>1. DOMAIN readings \subseteq Nat
      BY SMT
    <3> QED BY <3>1 DEF Exceeded
  <2>2. First(gone) \in gone
    BY <1>2, <2>1, FirstIs
  <2>3. Handled(readings) = Refusal(readings[First(gone)])
    BY <1>2 DEF Handled
  <2> QED BY <2>2, <2>3 DEF Refusal, RetryAfter, Exceeded
<1> QED BY <1>1, <1>2

LEMMA AnswerFields ==
  ASSUME NEW a, NEW b, NEW c
  PROVE  /\ [pc |-> a, retry |-> b].pc = a /\ [pc |-> a, retry |-> b].retry = b
         /\ [[pc |-> a, retry |-> b] EXCEPT !.retry = c] = [pc |-> a, retry |-> c]
BY SMT

\* What the middleware writes over the answer is of a budget that is gone.
LEMMA AnsweredIs ==
  ASSUME NEW readings \in Seq(Readings)
  PROVE  \/ /\ Answered(readings).pc = "served"
            /\ \A i \in DOMAIN readings : readings[i].budget \in Writes => ~readings[i].exceeded
         \/ /\ Answered(readings).pc = "refused"
            /\ \E i \in DOMAIN readings : readings[i].exceeded /\ Answered(readings).retry = readings[i].budget
<1> DEFINE outer == OuterReadings(readings)
<1>1. outer \subseteq DOMAIN readings
  BY DEF OuterReadings
<1>2. CASE outer = {}
  <2>1. Answered(readings) = Handled(readings)
    BY <1>2 DEF Answered
  <2>2. CASE Handled(readings) = Served
    BY <2>1, <2>2, HandledIs, AnswerFields, SMT DEF Served
  <2>3. ASSUME NEW i \in DOMAIN readings, readings[i].exceeded,
               Handled(readings) = [pc |-> "refused", retry |-> readings[i].budget]
        PROVE  /\ Answered(readings).pc = "refused"
               /\ Answered(readings).retry = readings[i].budget
    BY <2>1, <2>3, AnswerFields, SMT
  <2> QED BY <2>2, <2>3, HandledIs
<1>3. CASE outer # {}
  <2>1. PICK j \in outer : Tightest(readings, outer) = readings[j]
    BY <1>1, <1>3, TightestIs
  <2>2. Answered(readings) =
          [Handled(readings) EXCEPT !.retry = RetryAfter(readings[j], Handled(readings).retry)]
    BY <1>3, <2>1 DEF Answered
  <2>3. CASE /\ Handled(readings) = Served
             /\ \A i \in DOMAIN readings : readings[i].budget \in Writes => ~readings[i].exceeded
    <3>1. Answered(readings).pc = "served"
      BY <2>2, <2>3, AnswerFields, SMT DEF Served
    <3> QED BY <2>3, <3>1
  <2>4. ASSUME NEW i \in DOMAIN readings, readings[i].budget \in Writes, readings[i].exceeded,
               Handled(readings) = [pc |-> "refused", retry |-> readings[i].budget]
        PROVE  /\ Answered(readings).pc = "refused"
               /\ \E k \in DOMAIN readings : readings[k].exceeded /\ Answered(readings).retry = readings[k].budget
    <3>1. Answered(readings) = [pc |-> "refused", retry |-> RetryAfter(readings[j], readings[i].budget)]
      BY <2>2, <2>4, AnswerFields, SMT
    <3>2. Answered(readings).pc = "refused" /\ Answered(readings).retry = RetryAfter(readings[j], readings[i].budget)
      BY <3>1, AnswerFields, SMT
    <3> QED BY <1>1, <2>4, <3>2 DEF RetryAfter
  <2> QED BY <2>3, <2>4, HandledIs
<1> QED BY <1>2, <1>3

\* A request with nothing left to ask in the middleware, or in the handler.
LEMMA AskedIs ==
  ASSUME NEW call, NEW asked, NEW readings, NEW todo, NEW gone,
         Reads(asked, readings, gone), Due(call, asked, todo, gone), todo = <<>>, asked # <<>>
  PROVE  IF readings[Len(readings)].budget \in Writes
         THEN asked = Budgeted(call) /\ gone \subseteq Writes
         ELSE /\ asked = Outer(call)
              /\ OuterReadings(readings) = DOMAIN readings
<1>1. /\ asked \in Seq(Budgets) /\ readings \in Seq(Readings) /\ Len(readings) = Len(asked)
      /\ \A i \in 1..Len(asked) : readings[i].budget = asked[i]
      /\ Len(asked) \in 1..Len(asked) /\ DOMAIN readings = 1..Len(asked)
  BY SMT DEF Reads
<1>2. Len(todo) = 0
  OBVIOUS
<1>3. CASE Makes(asked, todo, Outer(call))
  <2>1. Len(asked) = Len(Outer(call)) /\ \A i \in 1..Len(asked) : asked[i] = Outer(call)[i]
    BY <1>1, <1>2, <1>3, Spends, SMT DEF Makes
  <2>2. asked = Outer(call)
    BY <1>1, <2>1, Spends, SameSequence
  <2>3. \A i \in 1..Len(asked) : readings[i].budget \notin Writes
    <3>1. \A i \in 1..Len(Outer(call)) : Outer(call)[i] \notin Writes
      BY Spends
    <3> QED BY <1>1, <2>1, <3>1
  <2> QED BY <1>1, <2>2, <2>3 DEF OuterReadings
<1>4. CASE Inner(call) # <<>> /\ Makes(asked, todo, Budgeted(call)) /\ gone \subseteq Writes
  <2>1. /\ Len(asked) = Len(Budgeted(call))
        /\ \A i \in 1..Len(asked) : asked[i] = Budgeted(call)[i]
    BY <1>1, <1>2, <1>4, SpendsAll, SMT DEF Makes
  <2>2. asked = Budgeted(call)
    BY <1>1, <2>1, SpendsAll, SameSequence
  <2>3. Len(Inner(call)) \in 1..Len(Inner(call)) /\ Len(Outer(call)) \in Nat
    <3>1. Inner(call) \in Seq(Budgets) /\ Outer(call) \in Seq(Budgets)
      BY Spends
    <3> QED BY <1>4, <3>1, SMT
  <2>4. Budgeted(call)[Len(asked)] \in Writes
    <3>1. Len(asked) = Len(Outer(call)) + Len(Inner(call))
      BY <2>1, SpendsAll
    <3>2. Inner(call)[Len(Inner(call))] \in Writes
      BY <2>3, Spends
    <3>3. Budgeted(call)[Len(Outer(call)) + Len(Inner(call))] = Inner(call)[Len(Inner(call))]
      BY <2>3, SpendsAll
    <3> QED BY <3>1, <3>2, <3>3
  <2> QED BY <1>1, <1>4, <2>2, <2>4
<1> QED BY <1>3, <1>4 DEF Due


\* What a request is once counted: on to another budget, or answered.
More(s, todo) == [s EXCEPT !.pc = "asking", !.todo = todo]
Answer(s, a) == [s EXCEPT !.pc = a.pc, !.retry = a.retry, !.todo = <<>>, !.readings = <<>>]

LEMMA MoreFields ==
  ASSUME NEW s, s = [f \in Fields |-> s[f]], NEW todo
  PROVE  /\ More(s, todo).pc = "asking" /\ More(s, todo).todo = todo /\ More(s, todo).call = s.call
         /\ More(s, todo).readings = s.readings /\ More(s, todo).asked = s.asked /\ More(s, todo).gone = s.gone
BY DEF More, Fields

LEMMA AnsweredFields ==
  ASSUME NEW s, s = [f \in Fields |-> s[f]], NEW a
  PROVE  /\ Answer(s, a).pc = a.pc /\ Answer(s, a).retry = a.retry /\ Answer(s, a).call = s.call
         /\ Answer(s, a).asked = s.asked /\ Answer(s, a).gone = s.gone
BY DEF Answer, Fields

LEMMA MorePays ==
  ASSUME NEW s, s = [f \in Fields |-> s[f]], NEW todo, todo # <<>>, "global" \notin s.gone,
         Reads(s.asked, s.readings, s.gone), Due(s.call, s.asked, todo, s.gone)
  PROVE  Paying(More(s, todo))
<1> DEFINE m == More(s, todo)
<1>1. /\ m.pc = "asking" /\ m.todo = todo /\ m.call = s.call
      /\ m.readings = s.readings /\ m.asked = s.asked /\ m.gone = s.gone
  BY MoreFields
<1> HIDE DEF m
<1>2. Reads(m.asked, m.readings, m.gone) /\ Due(m.call, m.asked, m.todo, m.gone)
  BY <1>1
<1> QED BY <1>1, <1>2 DEF Paying, Settled, m

LEMMA AnswerPays ==
  ASSUME NEW s, s = [f \in Fields |-> s[f]], NEW a,
         \/ a.pc = "served" /\ s.asked = Budgeted(s.call) /\ s.gone = {}
         \/ /\ a.pc = "refused" /\ a.retry \in s.gone
            /\ "global" \in s.gone => s.asked = <<"global">>
            /\ s.gone \subseteq Writes => s.asked = Budgeted(s.call)
  PROVE  Paying(Answer(s, a))
<1> DEFINE m == Answer(s, a)
<1>1. /\ m.pc = a.pc /\ m.retry = a.retry /\ m.call = s.call /\ m.asked = s.asked /\ m.gone = s.gone
  BY AnsweredFields
<1> HIDE DEF m
<1> QED BY <1>1 DEF Paying, Settled, m

\* A refusal by a budget that is gone says so.
LEMMA RefusalIs ==
  ASSUME NEW reading, reading.exceeded
  PROVE  Refusal(reading).pc = "refused" /\ Refusal(reading).retry = reading.budget
BY AnswerFields DEF Refusal, RetryAfter

\* global, once the shared budget is gone: no other has been asked.
LEMMA TurnedAway ==
  ASSUME NEW s, s = [f \in Fields |-> s[f]], s.asked # <<>>,
         Reads(s.asked, s.readings, s.gone), Due(s.call, s.asked, s.todo, s.gone),
         s.readings[Len(s.readings)].budget = "global", s.readings[Len(s.readings)].exceeded
  PROVE  Paying(Answer(s, Refusal(s.readings[Len(s.readings)])))
<1> DEFINE n == Len(s.asked)
<1>1. /\ s.asked \in Seq(Budgets) /\ n \in 1..n /\ Len(s.readings) = n
      /\ s.asked[n] = "global" /\ s.readings[n].exceeded
  <2>1. s.asked \in Seq(Budgets) /\ Len(s.readings) = n /\ \A i \in 1..n : s.readings[i].budget = s.asked[i]
    BY DEF Reads
  <2>2. n \in 1..n
    BY <2>1, SMT
  <2> QED BY <2>1, <2>2
<1>2. "global" \notin Writes
  BY DEF Writes
<1>3. Outer(s.call) \in Seq(Budgets) /\ s.todo \in Seq(Budgets)
  BY Spends DEF Due
<1>4. n = 1
  <2>1. CASE Makes(s.asked, s.todo, Outer(s.call))
    <3>1. n \in 1..Len(Outer(s.call)) /\ Outer(s.call)[n] = "global"
      BY <1>1, <1>3, <2>1, MakesLast
    <3> QED BY <3>1, Spends
  <2>2. CASE Makes(s.asked, s.todo, Budgeted(s.call))
    <3>1. n \in 1..Len(Budgeted(s.call)) /\ Budgeted(s.call)[n] = "global"
      BY <1>1, <1>3, <2>2, SpendsAll, MakesLast
    <3> QED BY <3>1, SpendsAll
  <2> QED BY <2>1, <2>2 DEF Due
<1>5. s.asked = <<"global">>
  BY <1>1, <1>4, SMT
<1>6. "global" \in s.gone
  BY <1>1 DEF Reads
<1>7. Refusal(s.readings[n]).pc = "refused" /\ Refusal(s.readings[n]).retry = "global"
  BY <1>1, RefusalIs
<1> QED BY <1>1, <1>2, <1>5, <1>6, <1>7, AnswerPays


\* After, by its cases.
LEMMA AfterIs ==
  ASSUME NEW s
  PROVE  LET latest == s.readings[Len(s.readings)]
             tightest == Tightest(s.readings, OuterReadings(s.readings))
         IN After(s) =
              IF latest.budget = "global" /\ latest.exceeded THEN Answer(s, Refusal(latest))
              ELSE IF s.todo # <<>> THEN More(s, s.todo)
              ELSE IF latest.budget \in Writes THEN Answer(s, Answered(s.readings))
              ELSE IF tightest.exceeded THEN Answer(s, Refusal(tightest))
              ELSE IF Inner(s.call) # <<>> THEN More(s, Inner(s.call))
              ELSE Answer(s, Answered(s.readings))
BY DEF After, More, Answer

\* Where no reading is exceeded the answer is the handler's, and it serves.
LEMMA NoneGone ==
  ASSUME NEW s, Reads(s.asked, s.readings, s.gone)
  PROVE  /\ \A i \in DOMAIN s.readings : s.readings[i].exceeded => s.readings[i].budget \in s.gone
         /\ \A b \in s.gone : \E i \in DOMAIN s.readings : s.readings[i].budget = b /\ s.readings[i].exceeded
         /\ s.readings \in Seq(Readings)
<1>1. ASSUME NEW asked, NEW readings, NEW gone, Reads(asked, readings, gone)
      PROVE  DOMAIN readings = 1..Len(asked) /\ readings \in Seq(Readings)
  BY <1>1, SMT DEF Reads
<1>2. DOMAIN s.readings = 1..Len(s.asked) /\ s.readings \in Seq(Readings)
  BY <1>1
<1> QED BY <1>2 DEF Reads

LEMMA SomeRead ==
  ASSUME NEW asked, NEW readings, NEW gone, Reads(asked, readings, gone), asked # <<>>
  PROVE  DOMAIN readings = 1..Len(asked) /\ Len(asked) \in 1..Len(asked)
BY SMT DEF Reads

LEMMA AfterPays ==
  ASSUME NEW s, s = [f \in Fields |-> s[f]], s.asked # <<>>,
         Reads(s.asked, s.readings, s.gone), Due(s.call, s.asked, s.todo, s.gone),
         "global" \in s.gone =>
           s.readings[Len(s.readings)].budget = "global" /\ s.readings[Len(s.readings)].exceeded
  PROVE  Paying(After(s))
<1> DEFINE latest == s.readings[Len(s.readings)]
           outer == OuterReadings(s.readings)
           tightest == Tightest(s.readings, outer)
<1>0. /\ \A i \in DOMAIN s.readings : s.readings[i].exceeded => s.readings[i].budget \in s.gone
      /\ \A b \in s.gone : \E i \in DOMAIN s.readings : s.readings[i].budget = b /\ s.readings[i].exceeded
      /\ s.readings \in Seq(Readings)
  BY NoneGone
<1>1. s.todo = <<>> =>
        IF latest.budget \in Writes THEN s.asked = Budgeted(s.call) /\ s.gone \subseteq Writes
        ELSE s.asked = Outer(s.call) /\ outer = DOMAIN s.readings
  BY AskedIs
<1>2. CASE latest.budget = "global" /\ latest.exceeded
  <2>1. After(s) = Answer(s, Refusal(latest))
    BY <1>2, AfterIs
  <2> QED BY <1>2, <2>1, TurnedAway
<1>3. CASE ~(latest.budget = "global" /\ latest.exceeded) /\ s.todo # <<>>
  <2>1. After(s) = More(s, s.todo)
    BY <1>3, AfterIs
  <2> QED BY <1>3, <2>1, MorePays
<1>4. CASE ~(latest.budget = "global" /\ latest.exceeded) /\ s.todo = <<>> /\ latest.budget \in Writes
  <2>1. After(s) = Answer(s, Answered(s.readings))
    BY <1>4, AfterIs
  <2>2. s.asked = Budgeted(s.call) /\ s.gone \subseteq Writes /\ "global" \notin s.gone
    BY <1>4, <1>1
  <2> DEFINE a == Answered(s.readings)
  <2>3. CASE /\ a.pc = "served"
             /\ \A i \in DOMAIN s.readings : s.readings[i].budget \in Writes => ~s.readings[i].exceeded
    <3>1. s.gone = {}
      BY <1>0, <2>2, <2>3
    <3>2. Paying(Answer(s, a))
      BY <2>2, <2>3, <3>1, AnswerPays
    <3> QED BY <2>1, <3>2
  <2>4. CASE /\ a.pc = "refused"
             /\ \E i \in DOMAIN s.readings : s.readings[i].exceeded /\ a.retry = s.readings[i].budget
    <3>1. a.retry \in s.gone
      BY <1>0, <2>4
    <3>2. Paying(Answer(s, a))
      BY <2>2, <2>4, <3>1, AnswerPays
    <3> QED BY <2>1, <3>2
  <2> QED BY <1>0, <2>3, <2>4, AnsweredIs
<1>5. CASE ~(latest.budget = "global" /\ latest.exceeded) /\ s.todo = <<>> /\ latest.budget \notin Writes
  <2>1. s.asked = Outer(s.call) /\ outer = DOMAIN s.readings /\ "global" \notin s.gone
    BY <1>5, <1>1
  <2>2. outer # {}
    <3>1. DOMAIN s.readings = 1..Len(s.asked) /\ Len(s.asked) \in 1..Len(s.asked)
      BY SomeRead
    <3> QED BY <2>1, <3>1
  <2>3. PICK i \in DOMAIN s.readings :
          /\ tightest = s.readings[i]
          /\ (\E j \in DOMAIN s.readings : s.readings[j].exceeded) => s.readings[i].exceeded
    <3>1. \E i \in outer : /\ tightest = s.readings[i]
                           /\ (\E j \in outer : s.readings[j].exceeded) => s.readings[i].exceeded
      <4> HIDE DEF outer
      <4> QED BY <1>0, <2>1, <2>2, TightestIs
    <3> HIDE DEF outer, tightest
    <3> QED BY <2>1, <3>1
  <2>4. s.readings[i].exceeded => s.readings[i].budget \in s.gone /\ s.readings[i].budget \notin Writes
    BY <1>0, <2>1, <2>3 DEF OuterReadings
  <2>5. CASE tightest.exceeded
    <3>1. After(s) = Answer(s, Refusal(tightest))
      BY <1>5, <2>5, AfterIs
    <3>2. Refusal(tightest).pc = "refused" /\ Refusal(tightest).retry = s.readings[i].budget
      BY <2>3, <2>5, RefusalIs
    <3>3. s.readings[i].budget \in s.gone /\ ~(s.gone \subseteq Writes)
      BY <2>3, <2>4, <2>5
    <3>4. Paying(Answer(s, Refusal(tightest)))
      <4> HIDE DEF tightest
      <4> QED BY <2>1, <3>2, <3>3, AnswerPays
    <3> QED BY <3>1, <3>4
  <2>6. CASE ~tightest.exceeded
    <3>1. s.gone = {} /\ \A j \in DOMAIN s.readings : ~s.readings[j].exceeded
      BY <1>0, <2>3, <2>6
    <3>2. CASE Inner(s.call) # <<>>
      <4>1. After(s) = More(s, Inner(s.call))
        BY <1>5, <2>6, <3>2, AfterIs
      <4>2. Makes(s.asked, Inner(s.call), Budgeted(s.call)) /\ Inner(s.call) \in Seq(Budgets)
        <5>1. Inner(s.call) \in Seq(Budgets)
          BY Spends
        <5>2. /\ Len(Budgeted(s.call)) = Len(Outer(s.call)) + Len(Inner(s.call))
              /\ \A j \in 1..Len(Outer(s.call)) : Budgeted(s.call)[j] = Outer(s.call)[j]
              /\ \A j \in 1..Len(Inner(s.call)) : Budgeted(s.call)[Len(Outer(s.call)) + j] = Inner(s.call)[j]
          BY SpendsAll
        <5> QED BY <2>1, <5>1, <5>2 DEF Makes
      <4>3. Len(s.asked) >= Len(Outer(s.call))
        <5>1. Len(Outer(s.call)) \in Nat
          BY Spends, SMT
        <5> QED BY <2>1, <5>1, SMT
      <4>4. Due(s.call, s.asked, Inner(s.call), s.gone)
        BY <3>1, <3>2, <4>2, <4>3 DEF Due
      <4>5. Paying(More(s, Inner(s.call)))
        BY <3>1, <3>2, <4>4, MorePays
      <4> QED BY <4>1, <4>5
    <3>3. CASE Inner(s.call) = <<>>
      <4>1. After(s) = Answer(s, Answered(s.readings))
        BY <1>5, <2>6, <3>3, AfterIs
      <4>2. Answered(s.readings).pc = "served"
        BY <1>0, <3>1, AnsweredIs
      <4>3. s.asked = Budgeted(s.call)
        <5>1. Outer(s.call) \in Seq(Budgets)
          BY Spends
        <5> QED BY <2>1, <3>3, <5>1, SMT DEF Budgeted
      <4>4. Paying(Answer(s, Answered(s.readings)))
        BY <3>1, <4>2, <4>3, AnswerPays
      <4> QED BY <4>1, <4>4
    <3> QED BY <3>2, <3>3
  <2> QED BY <2>5, <2>6
<1> QED BY <1>2, <1>3, <1>4, <1>5


\* One more budget has been asked.
GoneAfter(gone, reading, b) == IF reading.exceeded THEN gone \cup {b} ELSE gone

AskedMore(call, asked, readings, gone, todo, reading) ==
  LET b == Head(todo)
  IN /\ Reads(Append(asked, b), Append(readings, reading), GoneAfter(gone, reading, b))
     /\ Due(call, Append(asked, b), Tail(todo), GoneAfter(gone, reading, b))
     /\ Append(readings, reading)[Len(Append(readings, reading))] = reading
     /\ Append(asked, b) # <<>>

LEMMA PastOuter ==
  ASSUME NEW n \in Nat, NEW rest \in Nat, NEW outer \in Nat, NEW inner \in Nat,
         rest >= 1, n >= outer, n + rest = outer + inner
  PROVE  n + 1 - outer \in 1..inner /\ outer + (n + 1 - outer) = n + 1
BY SMT

LEMMA OneMore ==
  ASSUME NEW call, NEW asked, NEW readings, NEW gone, NEW todo, NEW reading,
         Reads(asked, readings, gone), Due(call, asked, todo, gone), todo # <<>>,
         reading \in Readings, reading.budget = Head(todo)
  PROVE  AskedMore(call, asked, readings, gone, todo, reading)
<1> DEFINE b == Head(todo)
           more == Append(asked, b)
           rest == Tail(todo)
           taken == Append(readings, reading)
           n == Len(asked)
           after == GoneAfter(gone, reading, b)
<1>1. /\ asked \in Seq(Budgets) /\ readings \in Seq(Readings) /\ todo \in Seq(Budgets) /\ Len(readings) = n
      /\ \A i \in 1..n : readings[i].budget = asked[i]
      /\ \A x : x \in gone <=> \E i \in 1..n : asked[i] = x /\ readings[i].exceeded
  BY DEF Reads, Due
<1>2. /\ n \in Nat /\ Len(todo) \in Nat /\ Len(todo) >= 1 /\ b \in Budgets /\ b = todo[1]
      /\ rest \in Seq(Budgets) /\ Len(rest) = Len(todo) - 1 /\ \A i \in 1..Len(rest) : rest[i] = todo[i + 1]
  BY <1>1, SMT
<1> HIDE DEF b, rest
<1>3. /\ more \in Seq(Budgets) /\ taken \in Seq(Readings) /\ Len(more) = n + 1 /\ Len(taken) = n + 1
      /\ \A i \in 1..n : more[i] = asked[i] /\ taken[i] = readings[i]
      /\ more[n + 1] = b /\ taken[n + 1] = reading
  BY <1>1, <1>2, SMT
<1> HIDE DEF more, taken, n, after
<1>4. \A i \in 1..(n + 1) : i \in 1..n \/ i = n + 1
  BY <1>2, SMT
<1>5. \A i \in 1..n : i \in 1..(n + 1)
  BY <1>2, SMT
<1>6. n + 1 \in 1..(n + 1) /\ 1 \in 1..Len(todo)
  BY <1>2, SMT
<1>7. Reads(more, taken, after)
  <2>1. \A i \in 1..(n + 1) : taken[i].budget = more[i]
    BY <1>1, <1>3, <1>4 DEF b
  <2>2. ASSUME NEW x PROVE x \in after <=> \E i \in 1..(n + 1) : more[i] = x /\ taken[i].exceeded
    <3>1. x \in after <=> x \in gone \/ (reading.exceeded /\ x = b)
      BY DEF after, GoneAfter
    <3>2. (\E i \in 1..(n + 1) : more[i] = x /\ taken[i].exceeded) <=>
            (\E i \in 1..n : asked[i] = x /\ readings[i].exceeded) \/ (b = x /\ reading.exceeded)
      BY <1>3, <1>4, <1>5, <1>6
    <3> QED BY <1>1, <3>1, <3>2
  <2> QED BY <1>3, <2>1, <2>2 DEF Reads
<1>8. ASSUME NEW all, Makes(asked, todo, all) PROVE Makes(more, rest, all)
  <2>1. Len(more) + Len(rest) = Len(all)
    <3>1. n + Len(todo) = Len(all)
      BY <1>8 DEF Makes, n
    <3>2. n \in Nat /\ Len(todo) \in Nat /\ Len(more) = n + 1 /\ Len(rest) = Len(todo) - 1
      BY <1>2, <1>3
    <3>3. (n + 1) + (Len(todo) - 1) = n + Len(todo)
      BY <3>2, SMT
    <3> QED BY <3>1, <3>2, <3>3
  <2>2. \A i \in 1..(n + 1) : more[i] = all[i]
    <3>1. todo[1] = all[n + 1]
      BY <1>6, <1>8 DEF Makes, n
    <3> QED BY <1>2, <1>3, <1>4, <1>8, <3>1 DEF Makes, n
  <2>3. ASSUME NEW i \in 1..Len(rest) PROVE rest[i] = all[Len(more) + i]
    <3>1. i + 1 \in 1..Len(todo) /\ n + (i + 1) = Len(more) + i
      BY <1>2, <1>3, SMT
    <3>2. todo[i + 1] = all[n + (i + 1)]
      BY <1>8, <3>1 DEF Makes, n
    <3> QED BY <1>2, <3>1, <3>2
  <2> QED BY <1>3, <2>1, <2>2, <2>3 DEF Makes
<1>9. Due(call, more, rest, after)
  <2>1. CASE ~call.bypassed /\ Makes(asked, todo, Outer(call))
    BY <1>2, <1>8, <2>1 DEF Due
  <2>2. CASE /\ Inner(call) # <<>> /\ Len(asked) >= Len(Outer(call))
             /\ Makes(asked, todo, Budgeted(call)) /\ gone \subseteq Writes
    <3>1. Len(Outer(call)) \in Nat /\ Len(Inner(call)) \in Nat
      <4>1. Outer(call) \in Seq(Budgets) /\ Inner(call) \in Seq(Budgets)
        BY Spends
      <4> QED BY <4>1, SMT
    <3> DEFINE i == n + 1 - Len(Outer(call))
    <3>2. i \in 1..Len(Inner(call)) /\ Len(Outer(call)) + i = n + 1
      <4>1. /\ n >= Len(Outer(call))
            /\ n + Len(todo) = Len(Outer(call)) + Len(Inner(call))
        BY <2>2, SpendsAll DEF Makes, n
      <4> QED BY <1>2, <3>1, <4>1, PastOuter
    <3>3. b = Budgeted(call)[n + 1]
      <4>1. \A k \in 1..Len(todo) : todo[k] = Budgeted(call)[n + k]
        BY <2>2 DEF Makes, n
      <4> QED BY <1>2, <1>6, <4>1
    <3> HIDE DEF i
    <3>4. b \in Writes
      <4>1. Inner(call)[i] \in Writes
        BY <3>2, Spends
      <4>2. Budgeted(call)[Len(Outer(call)) + i] = Inner(call)[i]
        BY <3>2, SpendsAll
      <4> QED BY <3>2, <3>3, <4>1, <4>2
    <3>5. Len(more) >= Len(Outer(call))
      <4>1. Len(more) = n + 1 /\ n >= Len(Outer(call))
        BY <1>3, <2>2 DEF n
      <4> QED BY <1>2, <3>1, <4>1, SMT
    <3>6. after \subseteq Writes
      BY <2>2, <3>4 DEF after, GoneAfter
    <3> QED BY <1>2, <1>8, <2>2, <3>5, <3>6 DEF Due
  <2> QED BY <2>1, <2>2 DEF Due
<1>10. taken[Len(taken)] = reading /\ more # <<>>
  BY <1>2, <1>3, SMT
<1> QED BY <1>7, <1>9, <1>10 DEF AskedMore, b, more, rest, taken, after


\* What consume tells of a budget.
LEMMA ReadingIs ==
  ASSUME NEW b \in Budgets, TableOK(b, tables[b]), NEW key \in Keys(b), NEW points \in Nat,
         now \in Times, NEW at \in 0..now, now - at <= MaxStall
  PROVE  /\ Counted(b, key, points, at).reading \in Readings
         /\ Counted(b, key, points, at).reading.budget = b
<1>1. ASSUME NEW spent \in Nat PROVE Reading(b, spent) \in Readings
  <2>1. Points[b] \in Nat
    BY PointsAssumption, BoundAssumption, SMT
  <2> QED BY <2>1, SMT DEF Reading, Readings
<1>2. \E spent \in Nat : Counted(b, key, points, at).reading = Reading(b, spent)
  <2>1. CASE Counted(b, key, points, at).counted
    <3> DEFINE c == Counted(b, key, points, at)
    <3>1. TableOK(b, c.table) /\ key \in DOMAIN c.table.windows
      BY <2>1, CountedFacts, CountedKey
    <3>2. c.table.windows[key].points \in Nat
      BY <3>1, WindowTypes DEF TableOK
    <3>3. c.reading = Reading(b, c.table.windows[key].points)
      BY <2>1, CountedKey
    <3> QED BY <3>2, <3>3
  <2>2. CASE ~Counted(b, key, points, at).counted
    <3>1. Full(Swept(b, tables[b], at).windows, key)
      BY <2>2 DEF Counted
    <3>2. Counted(b, key, points, at).reading = Reading(b, 0)
      BY <3>1 DEF Counted
    <3> QED BY <3>2
  <2> QED BY <2>1, <2>2
<1> QED BY <1>1, <1>2, ReadingFacts

LEMMA PayingMoves ==
  ASSUME LimitsInv, PaidInv, NEW t \in Threads, NEW s, Paying(s), thread' = [thread EXCEPT ![t] = s]
  PROVE  PaidInv'
<1>1. \A u \in Threads : thread'[u] = IF u = t THEN s ELSE thread[u]
  BY DEF LimitsInv
<1> QED BY <1>1 DEF PaidInv

LEMMA ConsumePays ==
  ASSUME LimitsInv, PaidInv, NEW t \in Threads, Consume(t)
  PROVE  PaidInv'
<1> DEFINE s == thread[t]
           b == Head(s.todo)
           key == KeyOf(b, s.call)
           points == Cost(b, s.call)
           c == Counted(b, key, points, s.at)
           gone == GoneAfter(s.gone, c.reading, b)
           asking == [s EXCEPT !.at = None, !.todo = Tail(@), !.readings = Append(@, c.reading),
                               !.asked = Append(@, b),
                               !.gone = IF c.reading.exceeded THEN @ \cup {b} ELSE @]
<1>1. thread' = [thread EXCEPT ![t] = After(asking)]
  BY DEF Consume
<1>2. ThreadOK(s) /\ s.pc = "counting" /\ Paying(s)
  BY DEF LimitsInv, Consume, PaidInv
<1>3. s.at \in 0..now /\ now - s.at <= MaxStall /\ now \in Times
  BY <1>2 DEF ThreadOK, LimitsInv
<1>4. key \in Keys(b) /\ points \in Nat
  BY <1>2, MixesAssumption DEF ThreadOK, Keys, Cost, LimitsInv
<1>5. /\ Reads(s.asked, s.readings, s.gone) /\ Due(s.call, s.asked, s.todo, s.gone)
      /\ s.todo # <<>> /\ "global" \notin s.gone
  BY <1>2 DEF Paying
<1>6. /\ asking = [f \in Fields |-> asking[f]]
      /\ asking.call = s.call /\ asking.todo = Tail(s.todo) /\ asking.readings = Append(s.readings, c.reading)
      /\ asking.asked = Append(s.asked, b) /\ asking.gone = gone
  BY <1>2 DEF ThreadOK, Fields, GoneAfter
<1> HIDE DEF s, key, points, asking
<1>7. b \in Budgets
  <2>1. s.todo \in Seq(Budgets)
    BY <1>5 DEF Due
  <2> QED BY <1>5, <2>1, SMT
<1> HIDE DEF b, c
<1>8. c.reading \in Readings /\ c.reading.budget = b
  BY <1>3, <1>4, <1>7, ReadingIs DEF LimitsInv, c
<1>9. /\ Reads(Append(s.asked, b), Append(s.readings, c.reading), gone)
      /\ Due(s.call, Append(s.asked, b), Tail(s.todo), gone)
      /\ Append(s.readings, c.reading)[Len(Append(s.readings, c.reading))] = c.reading
      /\ Append(s.asked, b) # <<>>
  <2>1. AskedMore(s.call, s.asked, s.readings, s.gone, s.todo, c.reading)
    BY <1>5, <1>8, OneMore DEF b
  <2> QED BY <2>1 DEF AskedMore, b
<1>10. "global" \in gone => c.reading.budget = "global" /\ c.reading.exceeded
  BY <1>5, <1>8 DEF GoneAfter
<1> HIDE DEF gone
<1>11. Paying(After(asking))
  BY <1>6, <1>9, <1>10, AfterPays
<1> QED BY <1>1, <1>11, PayingMoves

LEMMA ArrivePays ==
  ASSUME LimitsInv, PaidInv, NEW t \in Threads, Arrive(t)
  PROVE  PaidInv'
<1>1. PICK call \in calls :
        LET todo == IF call.bypassed THEN Inner(call) ELSE Outer(call)
        IN thread' = [thread EXCEPT ![t] =
             [pc |-> IF todo = <<>> THEN "served" ELSE "asking", call |-> call, todo |-> todo,
              at |-> None, readings |-> <<>>, asked |-> <<>>, gone |-> {}, retry |-> "none"]]
  BY DEF Arrive
<1> DEFINE todo == IF call.bypassed THEN Inner(call) ELSE Outer(call)
           s == [pc |-> IF todo = <<>> THEN "served" ELSE "asking", call |-> call, todo |-> todo,
                 at |-> None, readings |-> <<>>, asked |-> <<>>, gone |-> {}, retry |-> "none"]
<1>2. /\ s.pc = IF todo = <<>> THEN "served" ELSE "asking"
      /\ s.call = call /\ s.todo = todo
      /\ s.readings = <<>> /\ s.asked = <<>> /\ s.gone = {}
  OBVIOUS
<1>3. thread' = [thread EXCEPT ![t] = s]
  BY <1>1
<1> HIDE DEF s
<1>4. Outer(call) \in Seq(Budgets) /\ Inner(call) \in Seq(Budgets)
  BY Spends
<1>5. Reads(<<>>, <<>>, {})
  BY SMT DEF Reads
<1>6. ASSUME NEW all \in Seq(Budgets) PROVE Makes(<<>>, all, all)
  BY SMT DEF Makes
<1>7. CASE todo = <<>>
  <2>1. Outer(call) = <<>> /\ Inner(call) = <<>>
    BY <1>7, Spends
  <2>2. Budgeted(call) = <<>>
    BY <2>1, SMT DEF Budgeted
  <2>3. Paying(s)
    BY <1>2, <1>7, <2>2 DEF Paying, Settled
  <2> QED BY <1>3, <2>3, PayingMoves
<1>8. CASE todo # <<>>
  <2>1. Due(call, <<>>, todo, {})
    <3>1. CASE ~call.bypassed
      BY <1>4, <1>6, <3>1 DEF Due
    <3>2. CASE call.bypassed
      <4>1. Outer(call) = <<>> /\ todo = Inner(call)
        BY <3>2, Spends
      <4>2. Budgeted(call) = Inner(call) /\ Len(<<>>) >= Len(<<>>)
        BY <1>4, <4>1, SMT DEF Budgeted
      <4>3. Makes(<<>>, todo, Budgeted(call))
        BY <1>4, <1>6, <4>1, <4>2
      <4> QED BY <1>4, <1>8, <4>1, <4>2, <4>3 DEF Due
    <3> QED BY <3>1, <3>2
  <2>2. Paying(s)
    <3> HIDE DEF todo
    <3> QED BY <1>2, <1>5, <1>8, <2>1 DEF Paying, Settled
  <2> QED BY <1>3, <2>2, PayingMoves
<1> QED BY <1>7, <1>8


LEMMA ReadClockPays ==
  ASSUME LimitsInv, PaidInv, NEW t \in Threads, ReadClock(t)
  PROVE  PaidInv'
<1> DEFINE s == [thread[t] EXCEPT !.pc = "counting", !.at = now]
<1>1. ThreadOK(thread[t]) /\ Paying(thread[t]) /\ thread[t].pc = "asking"
  BY DEF LimitsInv, PaidInv, ReadClock
<1>2. thread' = [thread EXCEPT ![t] = s]
  BY DEF ReadClock, LimitsInv
<1>3. /\ s.pc = "counting" /\ s.call = thread[t].call /\ s.todo = thread[t].todo
      /\ s.readings = thread[t].readings /\ s.asked = thread[t].asked /\ s.gone = thread[t].gone
  BY <1>1 DEF ThreadOK, Fields
<1> HIDE DEF s
<1>4. Paying(s)
  BY <1>1, <1>3 DEF Paying, Settled
<1> QED BY <1>2, <1>4, PayingMoves

LEMMA PaidInit == Init => PaidInv
<1> SUFFICES ASSUME Init, NEW t \in Threads PROVE Paying(thread[t])
  BY DEF PaidInv
<1>1. thread[t].pc = "idle"
  BY DEF Init
<1> QED BY <1>1 DEF Paying, Settled

LEMMA PaidStep == LimitsInv /\ PaidInv /\ [Next]_vars => PaidInv'
<1> SUFFICES ASSUME LimitsInv, PaidInv, [Next]_vars PROVE PaidInv'
  OBVIOUS
<1>1. CASE Tick \/ UNCHANGED vars
  <2>1. thread' = thread
    BY <1>1 DEF Tick, vars
  <2> QED BY <2>1 DEF PaidInv
<1>2. ASSUME NEW t \in Threads, Arrive(t) \/ ReadClock(t) \/ Consume(t) PROVE PaidInv'
  BY <1>2, ArrivePays, ReadClockPays, ConsumePays
<1> QED BY <1>1, <1>2 DEF Next

\* limits and take_writes: a request is served only once every budget it falls
\* under has counted it and none was gone, one refused by the shared budget has
\* been counted by no other, and one refused for its writes has been counted by
\* all of them; whoever else is counted in between.
THEOREM EveryCallHasPaid == Spec => []ServedHasPaid
<1>1. PaidInv => ServedHasPaid
  <2> SUFFICES ASSUME PaidInv, NEW t \in Threads PROVE Settled(thread[t])
    BY DEF ServedHasPaid, Settled
  <2> QED BY DEF PaidInv, Paying
<1> QED BY <1>1, LimitsInvariance, PaidInit, PaidStep, PTL DEF Spec

=============================================================================
