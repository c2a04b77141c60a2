------------------------------- MODULE Limits -------------------------------
(***************************************************************************)
(* The budgets callers are held to (src/xrpc/limit.rs): the middleware     *)
(* global, which counts a request against the shared budget and its        *)
(* method's own, and writing, which the write handlers call.               *)
(*                                                                         *)
(* Limiter::consume reads the clock before it takes the lock on the        *)
(* counts, so a request may be counted by a time earlier than one already  *)
(* used: reading the clock and counting are two steps here.  Who a caller  *)
(* is (addresses, forwarded headers, names) is settled before a request    *)
(* arrives.  A write refused before it is counted, for its credentials or  *)
(* its arguments, is a call of kind other.                                 *)
(***************************************************************************)
EXTENDS Integers, Sequences, FiniteSets

CONSTANTS Threads,   \* requests being answered at once
          Mixes,     \* the sets of calls that callers may make
          Points,    \* the points of each budget
          Window,    \* how long each takes to refill
          KEYS,      \* keys a budget will hold
          U32MAX,    \* bound: the most a count of points can be
          MaxNow,    \* bound: how far the clock runs
          MaxStall   \* bound: how long a request waits for the lock

Budgets == {"global", "session", "sessionDay", "signup", "repo", "writes", "writesDay"}
Writes == {"writes", "writesDay"}

ASSUME PointsAssumption == Points \in [Budgets -> 1..(U32MAX - 1)]
ASSUME WindowAssumption == Window \in [Budgets -> Nat \ {0}]
ASSUME MixesAssumption == \A mix \in Mixes : mix # {} /\ \A call \in mix : call.points \in Nat
ASSUME StallAssumption == MaxStall \in Nat /\ \A b \in Budgets : MaxStall < Window[b]
ASSUME BoundAssumption == KEYS \in Nat /\ U32MAX \in Nat /\ MaxNow \in Nat

VARIABLES now,      \* the clock
          calls,    \* what callers ask for in this behaviour
          tables,   \* each budget's windows, by key, and when it was last swept
          thread,   \* each request: its call, what it has still to be counted
                    \* against, the clock it read, the readings it took and, once
                    \* answered, the budgets asked and the ones it went past
          watched,  \* history: a budget, one of its keys and a time
          granted   \* history: what that key was granted in the stretch from then

vars == <<now, calls, tables, thread, watched, granted>>

None == -1
NoCall == [kind |-> "none"]
Times == 0..MaxNow

\* The key each budget counts a call under.
KeyOf(b, call) ==
  CASE b \in Writes -> call.did
    [] b \in {"session", "sessionDay"} -> <<call.name, call.caller>>
    [] OTHER -> call.caller

Cost(b, call) == IF b \in Writes THEN call.points ELSE 1

\* What the middleware counts a call against, and what its handler does.
Outer(call) ==
  IF call.bypassed THEN <<>>
  ELSE CASE call.kind = "getRepo" -> <<"repo">>
         [] call.kind = "createSession" -> <<"global", "session", "sessionDay">>
         [] call.kind = "createAccount" -> <<"global", "signup">>
         [] OTHER -> <<"global">>

Inner(call) == IF call.kind = "write" THEN <<"writes", "writesDay">> ELSE <<>>

Budgeted(call) == Outer(call) \o Inner(call)

-----------------------------------------------------------------------------
(* Limiter::consume. *)

\* Mutant: a key goes only once its window is well past.
SweptLate(b, table, at) ==
  IF at - table.swept < Window[b] THEN table
  ELSE LET kept == {k \in DOMAIN table.windows : table.windows[k].until >= at}
       IN [windows |-> [k \in kept |-> table.windows[k]], swept |-> at]

\* The table once the keys whose windows have passed are dropped, where that
\* has not been done for a window.
Swept(b, table, at) ==
  IF at - table.swept < Window[b] THEN table
  ELSE LET kept == {k \in DOMAIN table.windows : table.windows[k].until > at}
       IN [windows |-> [k \in kept |-> table.windows[k]], swept |-> at]

Full(windows, key) == key \notin DOMAIN windows /\ Cardinality(DOMAIN windows) >= KEYS

\* Mutant: a window that every request pushes along.
PushedAlong(b, windows, key, at) ==
  IF key \in DOMAIN windows /\ windows[key].until > at
  THEN [points |-> windows[key].points, until |-> at + Window[b]]
  ELSE [points |-> 0, until |-> at + Window[b]]

\* The window a key is counted in.
Opened(b, windows, key, at) ==
  IF key \in DOMAIN windows /\ windows[key].until > at THEN windows[key]
  ELSE [points |-> 0, until |-> at + Window[b]]

SaturatingAdd(spent, points) == IF spent + points > U32MAX THEN U32MAX ELSE spent + points

\* Mutant: one more call is let past.
ReadingLate(b, spent) ==
  [budget |-> b, exceeded |-> spent > Points[b] + 1,
   remaining |-> IF spent > Points[b] THEN 0 ELSE Points[b] - spent]

\* What a caller reads of a budget it has spent this much of.
Reading(b, spent) ==
  [budget |-> b, exceeded |-> spent > Points[b],
   remaining |-> IF spent > Points[b] THEN 0 ELSE Points[b] - spent]

\* The table a call leaves behind, and what the caller reads of its budget.
Counted(b, key, points, at) ==
  LET table == Swept(b, tables[b], at)
      windows == table.windows
      window == Opened(b, windows, key, at)
      spent == SaturatingAdd(window.points, points)
  IN IF Full(windows, key)
     THEN [table |-> table,
           counted |-> FALSE,
           reading |-> Reading(b, 0)]
     ELSE [table |->
             [table EXCEPT !.windows =
                [k \in DOMAIN windows \cup {key} |->
                   IF k = key THEN [points |-> spent, until |-> window.until] ELSE windows[k]]],
           counted |-> TRUE,
           reading |-> Reading(b, spent)]

-----------------------------------------------------------------------------
(* A request on its way through. *)

\* The readings the middleware took.
OuterReadings(readings) == {i \in DOMAIN readings : readings[i].budget \notin Writes}
Exceeded(readings) == {i \in DOMAIN readings : readings[i].exceeded}
First(indices) == CHOOSE i \in indices : \A j \in indices : i <= j

\* Mutant: what is left is all that is compared.
LeastLeft(readings, indices) ==
  readings[First({i \in indices : \A j \in indices : readings[i].remaining <= readings[j].remaining})]

\* Of these readings, the budget with least left, one already gone before one
\* merely empty.
Tightest(readings, indices) ==
  LET gone == indices \cap Exceeded(readings)
      least == {i \in indices : \A j \in indices : readings[i].remaining <= readings[j].remaining}
  IN readings[First(IF gone # {} THEN gone ELSE least)]

\* The budget a response's retry-after is about once a reading is written to its
\* headers: one that refuses nobody leaves what is there.
RetryAfter(reading, before) == IF reading.exceeded THEN reading.budget ELSE before

\* A response: whether the call was refused, and whose end it is told to wait for.
Refusal(reading) == [pc |-> "refused", retry |-> RetryAfter(reading, "none")]
Served == [pc |-> "served", retry |-> "none"]

\* What the handler answers, once the budgets of writes have been asked.
Handled(readings) ==
  LET gone == {i \in Exceeded(readings) : readings[i].budget \in Writes}
  IN IF gone = {} THEN Served ELSE Refusal(readings[First(gone)])

\* What the middleware makes of that on the way out.
Answered(readings) ==
  LET outer == OuterReadings(readings)
      handled == Handled(readings)
  IN IF outer = {} THEN handled
     ELSE [handled EXCEPT !.retry = RetryAfter(Tightest(readings, outer), @)]

\* A request that has been counted against a budget: turned away, on to the next
\* budget, on to its handler, or answered.
After(s) ==
  LET tightest == Tightest(s.readings, OuterReadings(s.readings))
      latest == s.readings[Len(s.readings)]
      more(todo) == [s EXCEPT !.pc = "asking", !.todo = todo]
      answer(a) == [s EXCEPT !.pc = a.pc, !.retry = a.retry, !.todo = <<>>, !.readings = <<>>]
  IN IF latest.budget = "global" /\ latest.exceeded THEN answer(Refusal(latest))
     ELSE IF s.todo # <<>> THEN more(s.todo)
     ELSE IF latest.budget \in Writes THEN answer(Answered(s.readings))
     ELSE IF tightest.exceeded THEN answer(Refusal(tightest))
     ELSE IF Inner(s.call) # <<>> THEN more(Inner(s.call))
     ELSE answer(Answered(s.readings))

Idle(s) == s.pc \in {"idle", "served", "refused"}

Arrive(t) ==
  /\ Idle(thread[t])
  /\ \E call \in calls :
       LET todo == IF call.bypassed THEN Inner(call) ELSE Outer(call)
       IN thread' = [thread EXCEPT ![t] =
            [pc |-> IF todo = <<>> THEN "served" ELSE "asking", call |-> call, todo |-> todo,
             at |-> None, readings |-> <<>>, asked |-> <<>>, gone |-> {}, retry |-> "none"]]
  /\ UNCHANGED <<now, calls, tables, watched, granted>>

\* consume reads the clock.
ReadClock(t) ==
  /\ thread[t].pc = "asking"
  /\ thread' = [thread EXCEPT ![t].pc = "counting", ![t].at = now]
  /\ UNCHANGED <<now, calls, tables, watched, granted>>

\* Whether what this key is granted now is counted: from the time watched for
\* as long as a window, less what a request may wait for the lock.
Watching(b, key) ==
  /\ watched.budget = b /\ watched.key = key
  /\ watched.from <= now /\ now < watched.from + Window[b] - MaxStall

\* consume takes the lock.
Consume(t) ==
  /\ thread[t].pc = "counting"
  /\ LET s == thread[t]
         b == Head(s.todo)
         key == KeyOf(b, s.call)
         points == Cost(b, s.call)
         c == Counted(b, key, points, s.at)
         grant == c.counted /\ ~c.reading.exceeded /\ Watching(b, key)
     IN /\ tables' = [tables EXCEPT ![b] = c.table]
        /\ thread' = [thread EXCEPT ![t] =
             After([s EXCEPT !.at = None, !.todo = Tail(@), !.readings = Append(@, c.reading),
                             !.asked = Append(@, b),
                             !.gone = IF c.reading.exceeded THEN @ \cup {b} ELSE @])]
        /\ granted' = IF grant THEN granted + points ELSE granted
  /\ UNCHANGED <<now, calls, watched>>

Tick ==
  /\ now < MaxNow
  /\ \A t \in Threads : thread[t].pc = "counting" => now - thread[t].at < MaxStall
  /\ now' = now + 1
  /\ UNCHANGED <<calls, tables, thread, watched, granted>>

Init ==
  /\ now = 0
  /\ calls \in Mixes
  /\ tables = [b \in Budgets |-> [windows |-> <<>>, swept |-> 0]]
  /\ thread = [t \in Threads |->
                 [pc |-> "idle", call |-> NoCall, todo |-> <<>>, at |-> None,
                  readings |-> <<>>, asked |-> <<>>, gone |-> {}, retry |-> "none"]]
  /\ \E call \in calls, b \in Budgets, from \in Times :
       /\ \E i \in DOMAIN Budgeted(call) : Budgeted(call)[i] = b
       /\ watched = [budget |-> b, key |-> KeyOf(b, call), from |-> from]
  /\ granted = 0

Next == Tick \/ \E t \in Threads : Arrive(t) \/ ReadClock(t) \/ Consume(t)

Spec == Init /\ [][Next]_vars

-----------------------------------------------------------------------------

TypeOK ==
  /\ now \in Times /\ calls \in Mixes
  /\ \A b \in Budgets :
       /\ tables[b].swept \in Times
       /\ \A k \in DOMAIN tables[b].windows :
            /\ k \in {KeyOf(b, call) : call \in calls}
            /\ tables[b].windows[k].points \in 0..U32MAX
            /\ tables[b].windows[k].until \in 0..(MaxNow + Window[b])
  /\ \A t \in Threads : thread[t].pc \in {"idle", "asking", "counting", "served", "refused"}

\* Whatever the order in which requests read the clock and take the lock, and
\* however a sweep falls between them, no key is granted more than two budgets,
\* the most a fixed window allows, in any stretch shorter than a window by as
\* long as a request may wait for the lock.  In a whole window it can be more:
\* consume opens a window at the clock it read before the wait, so that two
\* ends of windows may fall less than a window apart.
TwiceAtMost == granted <= 2 * Points[watched.budget]

\* A budget never holds more keys than KEYS, and none whose window ended before
\* it was last swept, which with a sweep a window apart is "a key outlives its
\* window by at most one more" (Limiter::consume): a late clock puts no key back
\* that is already over, so a full table takes new keys again.
KeysAreLetGo ==
  /\ TypeOK
  /\ \A b \in Budgets :
       /\ Cardinality(DOMAIN tables[b].windows) <= KEYS
       /\ \A k \in DOMAIN tables[b].windows : tables[b].windows[k].until > tables[b].swept

\* A call is served only once every budget it spends from has counted it, the
\* second after the first refused included, and none was past its end; it is
\* refused for a budget that was; and one turned away by the shared budget was
\* counted against no other, "so a flood cannot fill a table on its way to
\* being refused" (global).  A refusal says when to come back by a budget that
\* was passed, also where the middleware writes the headers of another over the
\* handler's.
ServedHasPaid ==
  \A t \in Threads :
    LET s == thread[t]
        all == Budgeted(s.call)
    IN /\ s.pc = "served" => s.asked = all /\ s.gone = {}
       /\ s.pc = "refused" =>
            /\ s.retry \in s.gone
            /\ "global" \in s.gone => s.asked = <<"global">>
            /\ s.gone \subseteq Writes => s.asked = all

\* A window that has not passed keeps its end and stays in the table, so a
\* client hammering a spent budget "waits out the window rather than pushing it
\* along", and nobody's count is dropped early.
WaitsOutTheWindow ==
  [][\A b \in Budgets : \A k \in DOMAIN tables[b].windows :
       tables[b].windows[k].until > now =>
         /\ k \in DOMAIN tables'[b].windows
         /\ tables'[b].windows[k].until = tables[b].windows[k].until
         /\ tables'[b].windows[k].points >= tables[b].windows[k].points]_vars

=============================================================================
