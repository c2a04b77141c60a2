--------------------------- MODULE DownloadsProofs ---------------------------
(***************************************************************************)
(* What Downloads promises, for any number of readers, turns, blocks and   *)
(* revisions and any size of a page: turns come back, and a download is    *)
(* one revision's blocks.  What ORDER BY and LIMIT make of rows is shown   *)
(* in ListingsProofs.                                                      *)
(***************************************************************************)
EXTENDS Downloads, ListingsProofs

USE Zenon

-----------------------------------------------------------------------------
(* Downloads: the line and the turns. *)

\* A line of those who wait, each once.
Line(q, waiting) ==
  /\ q \in Seq(Readers)
  /\ OnceEach(q, Len(q))
  /\ \A d \in Readers : d \in waiting <=> \E i \in 1..Len(q) : q[i] = d

Waiting == {d \in Readers : pc[d] = "queued"}

\* The queue is the ones who wait, and each thread at work holds a turn.
LineInv ==
  /\ Line(queue, Waiting)
  /\ free \in Nat /\ free + Cardinality(Working) = Turns

LEMMA LineGrows ==
  ASSUME NEW q, NEW S, Line(q, S), NEW d \in Readers, d \notin S
  PROVE  Line(Append(q, d), S \cup {d})
<1>1. q \in Seq(Readers) /\ OnceEach(q, Len(q)) /\ \A e \in Readers : e \in S <=> \E i \in 1..Len(q) : q[i] = e
  BY DEF Line
<1> DEFINE new == Append(q, d)
<1>2. /\ new \in Seq(Readers) /\ Len(q) \in Nat /\ Len(new) = Len(q) + 1
      /\ \A i \in 1..Len(q) : new[i] = q[i]
      /\ new[Len(q) + 1] = d
  BY <1>1, SMT
<1> HIDE DEF new
<1>3. /\ \A i \in 1..Len(new) : i \in 1..Len(q) \/ i = Len(q) + 1
      /\ \A i \in 1..Len(q) : i \in 1..Len(new)
      /\ Len(q) + 1 \in 1..Len(new)
  BY <1>2, SMT
<1>4. \A i \in 1..Len(q) : q[i] # d
  BY <1>1
<1>5. OnceEach(new, Len(new))
  <2>1. ASSUME NEW i \in 1..Len(new), NEW j \in 1..Len(new), new[i] = new[j] PROVE i = j
    <3>1. CASE i \in 1..Len(q) /\ j \in 1..Len(q)
      BY <1>1, <1>2, <2>1, <3>1 DEF OnceEach
    <3>2. CASE i = Len(q) + 1 \/ j = Len(q) + 1
      BY <1>2, <1>3, <1>4, <2>1, <3>2
    <3> QED BY <1>3, <3>1, <3>2
  <2> QED BY <2>1 DEF OnceEach
<1>6. ASSUME NEW e \in Readers PROVE e \in S \cup {d} <=> \E i \in 1..Len(new) : new[i] = e
  BY <1>1, <1>2, <1>3
<1> QED BY <1>2, <1>5, <1>6 DEF Line, new

LEMMA LineLoses ==
  ASSUME NEW q, NEW S, Line(q, S), NEW k \in 1..Len(q)
  PROVE  Line(Without(q, k), S \ {q[k]})
<1>1. q \in Seq(Readers) /\ OnceEach(q, Len(q)) /\ \A e \in Readers : e \in S <=> \E i \in 1..Len(q) : q[i] = e
  BY DEF Line
<1> DEFINE new == Without(q, k)
           place(i) == IF i < k THEN i ELSE i + 1
           back(i) == IF i < k THEN i ELSE i - 1
<1>2. Len(q) \in Nat /\ Len(q) - 1 \in Nat /\ \A i \in 1..Len(q) : q[i] \in Readers
  BY <1>1, SMT
<1>3. /\ \A i \in 1..(Len(q) - 1) : place(i) \in 1..Len(q) /\ place(i) # k
      /\ \A i, j \in 1..(Len(q) - 1) : place(i) = place(j) => i = j
      /\ \A i \in 1..Len(q) : i # k => back(i) \in 1..(Len(q) - 1) /\ place(back(i)) = i
  BY <1>2, SMT
<1>4. \A i \in 1..(Len(q) - 1) : new[i] = q[place(i)]
  BY DEF Without
<1>5. new \in [1..(Len(q) - 1) -> Readers]
  <2>1. \A i \in 1..(Len(q) - 1) : q[place(i)] \in Readers
    BY <1>2, <1>3
  <2> QED BY <2>1 DEF Without
<1> HIDE DEF new, place, back
<1>6. new \in Seq(Readers) /\ Len(new) = Len(q) - 1
  BY <1>2, <1>5, LineIsSeq
<1>7. OnceEach(new, Len(new))
  <2>1. ASSUME NEW i \in 1..Len(new), NEW j \in 1..Len(new), new[i] = new[j] PROVE i = j
    <3>1. i \in 1..(Len(q) - 1) /\ j \in 1..(Len(q) - 1)
      BY <1>6
    <3>2. /\ place(i) \in 1..Len(q) /\ place(j) \in 1..Len(q)
          /\ q[place(i)] = q[place(j)]
      BY <1>3, <1>4, <2>1, <3>1
    <3>3. place(i) = place(j)
      BY <1>1, <3>2 DEF OnceEach
    <3> QED BY <1>3, <3>1, <3>3
  <2> QED BY <2>1 DEF OnceEach
<1>8. ASSUME NEW e \in S \ {q[k]}, e \in Readers PROVE \E i \in 1..Len(new) : new[i] = e
  <2>1. PICK i \in 1..Len(q) : q[i] = e
    BY <1>1, <1>8
  <2>2. i # k
    BY <1>8, <2>1
  <2> QED BY <1>3, <1>4, <1>6, <2>1, <2>2
<1>9. ASSUME NEW i \in 1..Len(new) PROVE new[i] \in S \ {q[k]}
  <2>1. new[i] = q[place(i)] /\ place(i) \in 1..Len(q) /\ place(i) # k
    BY <1>3, <1>4, <1>6
  <2>2. q[place(i)] \in Readers /\ q[place(i)] # q[k]
    BY <1>1, <1>2, <2>1 DEF OnceEach
  <2> QED BY <1>1, <2>1, <2>2
<1>10. \A e \in Readers : e \in S \ {q[k]} <=> \E i \in 1..Len(new) : new[i] = e
  BY <1>8, <1>9
<1> QED BY <1>6, <1>7, <1>10 DEF Line, new

LEMMA LineMoves ==
  ASSUME NEW q, NEW S, Line(q, S), q # <<>>
  PROVE  Head(q) \in S /\ Head(q) \in Readers /\ Line(Tail(q), S \ {Head(q)})
<1>1. q \in Seq(Readers)
  BY DEF Line
<1>2. 1 \in 1..Len(q) /\ Head(q) = q[1] /\ q[1] \in Readers
  BY <1>1, SMT
<1>3. Tail(q) = Without(q, 1)
  <2>1. Tail(q) = [i \in 1..(Len(q) - 1) |-> q[i + 1]]
    <3>1. Tail(q) \in Seq(Readers) /\ Len(Tail(q)) = Len(q) - 1 /\ Len(q) \in Nat
      BY <1>1, SMT
    <3>2. \A i \in 1..(Len(q) - 1) : Tail(q)[i] = q[i + 1]
      BY <1>1, SMT
    <3>3. Tail(q) = [i \in 1..Len(Tail(q)) |-> Tail(q)[i]]
      BY <3>1, SeqIs
    <3> QED BY <3>1, <3>2, <3>3
  <2>2. \A i \in 1..(Len(q) - 1) : (IF i < 1 THEN i ELSE i + 1) = i + 1
    BY <1>1, SMT
  <2> QED BY <2>1, <2>2 DEF Without
<1>4. q[1] \in S
  <2>1. \A e \in Readers : e \in S <=> \E i \in 1..Len(q) : q[i] = e
    BY DEF Line
  <2> QED BY <1>2, <2>1
<1>5. Line(Without(q, 1), S \ {q[1]})
  BY <1>2, LineLoses
<1> QED BY <1>2, <1>3, <1>4, <1>5

LEMMA LineCounts ==
  ASSUME NEW q, NEW S \in SUBSET Readers, Line(q, S)
  PROVE  Len(q) = Cardinality(S)
<1>1. q \in Seq(Readers) /\ OnceEach(q, Len(q)) /\ \A e \in Readers : e \in S <=> \E i \in 1..Len(q) : q[i] = e
  BY DEF Line
<1>2. Len(q) \in Nat /\ q \in [1..Len(q) -> Readers]
  BY <1>1, SMT
<1>3. q \in [1..Len(q) -> S]
  BY <1>1, <1>2
<1>4. q \in Injection(1..Len(q), S) /\ q \in Surjection(1..Len(q), S)
  BY <1>1, <1>3 DEF Injection, IsInjective, Surjection, OnceEach
<1>5. ExistsBijection(1..Len(q), S)
  BY <1>4 DEF ExistsBijection, Bijection
<1> QED BY <1>2, <1>5, FS_CountingElements


\* A step that leaves the line and the turns alone, one that ends a thread at
\* work and gives its turn back.
Still ==
  /\ queue' = queue /\ free' = free
  /\ Waiting' = Waiting /\ Working' = Working

Freed(d) ==
  /\ queue' = queue /\ free' = free + 1
  /\ d \in Working /\ Waiting' = Waiting /\ Working' = Working \ {d}

LEMMA WorkingFinite == IsFiniteSet(Working) /\ Cardinality(Working) \in Nat
<1>1. Working \in SUBSET Readers
  BY DEF Working
<1> QED BY <1>1, ReadersAssumption, FS_Subset, FS_CardinalityType

LEMMA StillKeeps ==
  ASSUME LineInv, Still
  PROVE  LineInv'
BY DEF LineInv, Still

LEMMA FreedKeeps ==
  ASSUME LineInv, NEW d, Freed(d)
  PROVE  LineInv'
<1>1. Cardinality(Working \ {d}) = Cardinality(Working) - 1
  BY WorkingFinite, FS_RemoveElement DEF Freed
<1>2. Line(queue', Waiting')
  BY DEF LineInv, Freed
<1>3. free' \in Nat /\ free' + Cardinality(Working') = Turns
  <2>1. free \in Nat /\ free + Cardinality(Working) = Turns /\ free' = free + 1 /\ Cardinality(Working') = Cardinality(Working) - 1
    BY <1>1 DEF LineInv, Freed
  <2> QED BY <2>1, WorkingFinite, SizesAssumption, SMT
<1> QED BY <1>2, <1>3 DEF LineInv

\* What a change of one download's place means for those who wait and work.
Busy == {"opening", "rooting", "reading", "handing"}

Places == {"idle", "queued", "opening", "rooting", "reading", "handing", "ended"}

MovedTo(d, to) ==
  /\ Waiting' = IF to = "queued" THEN Waiting \cup {d} ELSE Waiting \ {d}
  /\ Working' = IF to \in Busy THEN Working \cup {d} ELSE Working \ {d}
  /\ d \in Waiting <=> pc[d] = "queued"
  /\ d \in Working <=> pc[d] \in Busy
  /\ pc[d] \notin Busy => Working \ {d} = Working
  /\ pc[d] \in Busy => Working \cup {d} = Working
  /\ pc[d] # "queued" => Waiting \ {d} = Waiting

LEMMA Moved ==
  ASSUME pc \in [Readers -> Places], NEW d \in Readers, NEW to, pc' = [pc EXCEPT ![d] = to]
  PROVE  MovedTo(d, to)
<1>1. pc' \in [Readers -> Places \cup {to}] /\ pc'[d] = to /\ \A e \in Readers : e # d => pc'[e] = pc[e]
  OBVIOUS
<1> QED BY <1>1, SMT DEF MovedTo, Waiting, Working, Busy

LEMMA EndsFrees ==
  ASSUME pc \in [Readers -> Places], NEW d \in Readers, Ends(d), queue' = queue, pc[d] \in Busy
  PROVE  Freed(d)
<1>1. pc' = [pc EXCEPT ![d] = "ended"] /\ free' = free + 1
  BY DEF Ends
<1>2. "ended" \notin Busy /\ "ended" # "queued" /\ pc[d] # "queued"
  BY SMT DEF Busy
<1>3. Waiting' = Waiting /\ Working' = Working \ {d} /\ d \in Working
  <2>1. MovedTo(d, "ended")
    BY <1>1, Moved
  <2> QED BY <1>2, <2>1 DEF MovedTo
<1> QED BY <1>1, <1>3 DEF Freed

LEMMA MovesOn ==
  ASSUME pc \in [Readers -> Places], NEW d \in Readers, NEW to \in Busy, pc' = [pc EXCEPT ![d] = to],
         queue' = queue, free' = free, pc[d] \in Busy
  PROVE  Still
<1>2. to # "queued" /\ pc[d] # "queued"
  BY SMT DEF Busy
<1>3. MovedTo(d, to)
  BY Moved
<1> QED BY <1>2, <1>3 DEF Still, MovedTo


LEMMA AskKeepsLine ==
  ASSUME pc \in [Readers -> Places], LineInv, NEW d \in Readers, Ask(d)
  PROVE  LineInv'
<1>1. /\ pc[d] = "idle" /\ pc' = [pc EXCEPT ![d] = "queued"]
      /\ queue' = Append(queue, d) /\ free' = free
  BY DEF Ask
<1>2. "queued" \notin Busy /\ pc[d] \notin Busy /\ pc[d] # "queued"
  BY <1>1, SMT DEF Busy
<1>3. Waiting' = Waiting \cup {d} /\ Working' = Working /\ d \notin Waiting
  <2>1. MovedTo(d, "queued")
    BY <1>1, Moved
  <2> QED BY <1>2, <2>1 DEF MovedTo
<1>4. Line(queue', Waiting')
  BY <1>1, <1>3, LineGrows DEF LineInv
<1> QED BY <1>1, <1>3, <1>4 DEF LineInv

LEMMA AcquireKeepsLine ==
  ASSUME pc \in [Readers -> Places], LineInv, NEW d \in Readers, Acquire(d)
  PROVE  LineInv'
<1>1. /\ queue # <<>> /\ d = Head(queue) /\ free > 0 /\ free' = free - 1
      /\ queue' = Tail(queue) /\ pc' = [pc EXCEPT ![d] = "opening"]
  BY DEF Acquire
<1>2. d \in Waiting /\ Line(queue', Waiting \ {d})
  BY <1>1, LineMoves DEF LineInv
<1>3. pc[d] = "queued"
  BY <1>2 DEF Waiting
<1>4. "opening" \in Busy /\ "opening" # "queued" /\ pc[d] \notin Busy
  BY <1>3, SMT DEF Busy
<1>5. Waiting' = Waiting \ {d} /\ Working' = Working \cup {d} /\ d \notin Working
  <2>1. MovedTo(d, "opening")
    BY <1>1, Moved
  <2> QED BY <1>4, <2>1 DEF MovedTo
<1>6. Cardinality(Working') = Cardinality(Working) + 1
  BY <1>5, WorkingFinite, FS_AddElement
<1>7. free' \in Nat /\ free' + Cardinality(Working') = Turns
  <2>1. free \in Nat /\ free + Cardinality(Working) = Turns
    BY DEF LineInv
  <2> QED BY <1>1, <1>6, <2>1, WorkingFinite, SizesAssumption, SMT
<1> QED BY <1>2, <1>5, <1>7 DEF LineInv

LEMMA LeaveKeepsLine ==
  ASSUME pc \in [Readers -> Places], LineInv, NEW d \in Readers, Leave(d)
  PROVE  LineInv'
<1>1. CASE pc[d] # "queued"
  <2>1. pc' = pc /\ queue' = queue /\ free' = free
    BY <1>1 DEF Leave
  <2> QED BY <2>1, StillKeeps DEF Still, Waiting, Working
<1>2. CASE pc[d] = "queued"
  <2>1. /\ pc' = [pc EXCEPT ![d] = "ended"] /\ free' = free
        /\ \E i \in DOMAIN queue : queue[i] = d /\ queue' = Without(queue, i)
    BY <1>2 DEF Leave
  <2>2. DOMAIN queue = 1..Len(queue)
    <3>1. queue \in Seq(Readers)
      BY DEF LineInv, Line
    <3> QED BY <3>1, SMT
  <2>3. Line(queue', Waiting \ {d})
    <3>1. PICK i \in 1..Len(queue) : queue[i] = d /\ queue' = Without(queue, i)
      BY <2>1, <2>2
    <3>2. Line(Without(queue, i), Waiting \ {queue[i]})
      BY LineLoses DEF LineInv
    <3> QED BY <3>1, <3>2
  <2>4. "ended" \notin Busy /\ "ended" # "queued" /\ pc[d] \notin Busy
    BY <1>2, SMT DEF Busy
  <2>5. Waiting' = Waiting \ {d} /\ Working' = Working
    <3>1. MovedTo(d, "ended")
      BY <2>1, Moved
    <3> QED BY <2>4, <3>1 DEF MovedTo
  <2> QED BY <2>1, <2>3, <2>5 DEF LineInv
<1> QED BY <1>1, <1>2, SMT

LEMMA WorksKeepsLine ==
  ASSUME pc \in [Readers -> Places], LineInv, NEW d \in Readers, Works(d)
  PROVE  LineInv'
<1>1. pc[d] \in Busy /\ queue' = queue
  <2>1. pc[d] \in {"opening", "rooting", "reading", "handing"} /\ queue' = queue
    BY DEF Works, Open, Root, Read, Hand, Gone, Lapse
  <2> QED BY <2>1 DEF Busy
<1>2. Ends(d) \/ \E to \in Busy : pc' = [pc EXCEPT ![d] = to] /\ free' = free
  <2>1. "rooting" \in Busy /\ "reading" \in Busy /\ "handing" \in Busy
    BY SMT DEF Busy
  <2>2. CASE Open(d)
    BY <2>1, <2>2 DEF Open
  <2>3. CASE Root(d)
    BY <2>1, <2>3 DEF Root
  <2>4. CASE Read(d)
    BY <2>1, <2>4 DEF Read
  <2>5. CASE Hand(d)
    BY <2>1, <2>5 DEF Hand
  <2>6. CASE Gone(d) \/ Lapse(d)
    BY <2>6 DEF Gone, Lapse
  <2> QED BY <2>2, <2>3, <2>4, <2>5, <2>6 DEF Works
<1>3. CASE Ends(d)
  BY <1>1, <1>3, EndsFrees, FreedKeeps
<1>4. CASE \E to \in Busy : pc' = [pc EXCEPT ![d] = to] /\ free' = free
  BY <1>1, <1>4, MovesOn, StillKeeps
<1> QED BY <1>2, <1>3, <1>4

LEMMA LineStep ==
  ASSUME pc \in [Readers -> Places], LineInv, [Next]_vars
  PROVE  LineInv'
<1>1. CASE Commit \/ UNCHANGED vars
  <2>1. pc' = pc /\ queue' = queue /\ free' = free
    BY <1>1 DEF Commit, vars, task
  <2> QED BY <2>1, StillKeeps DEF Still, Waiting, Working
<1>2. ASSUME NEW d \in Readers, Take(d) PROVE LineInv'
  <2>1. pc' = pc /\ queue' = queue /\ free' = free
    BY <1>2 DEF Take, task
  <2> QED BY <2>1, StillKeeps DEF Still, Waiting, Working
<1> QED BY <1>1, <1>2, AskKeepsLine, AcquireKeepsLine, LeaveKeepsLine, WorksKeepsLine DEF Next

LEMMA LineStarts ==
  ASSUME Init
  PROVE  LineInv
<1>1. queue = <<>> /\ free = Turns /\ pc = [d \in Readers |-> "idle"]
  BY DEF Init
<1>2. Waiting = {} /\ Working = {}
  BY <1>1, SMT DEF Waiting, Working
<1>3. Line(queue, Waiting)
  BY <1>1, <1>2, SMT DEF Line, OnceEach
<1>4. free \in Nat /\ free + Cardinality(Working) = Turns
  BY <1>1, <1>2, FS_EmptySet, SizesAssumption, SMT
<1> QED BY <1>3, <1>4, SMT DEF LineInv


LEMMA PlacesStep ==
  ASSUME pc \in [Readers -> Places], [Next]_vars
  PROVE  pc' \in [Readers -> Places]
<1>1. pc' = pc \/ \E d \in Readers, to \in Places : pc' = [pc EXCEPT ![d] = to]
  <2>1. /\ "queued" \in Places /\ "opening" \in Places /\ "rooting" \in Places
        /\ "reading" \in Places /\ "handing" \in Places /\ "ended" \in Places
    BY SMT DEF Places
  <2>2. CASE Commit \/ UNCHANGED vars
    BY <2>2 DEF Commit, vars, task
  <2>3. ASSUME NEW d \in Readers, Ask(d) \/ Acquire(d) \/ Leave(d) \/ Take(d)
        PROVE  pc' = pc \/ \E to \in Places : pc' = [pc EXCEPT ![d] = to]
    BY <2>1, <2>3 DEF Ask, Acquire, Leave, Take, task
  <2>4. ASSUME NEW d \in Readers, Works(d)
        PROVE  \E to \in Places : pc' = [pc EXCEPT ![d] = to]
    BY <2>1, <2>4 DEF Works, Open, Root, Read, Hand, Gone, Lapse, Ends
  <2> QED BY <2>2, <2>3, <2>4 DEF Next
<1> QED BY <1>1

\* TurnsAreKept: however the steps of the requests, the readers who hang up and
\* the threads of Manager::export interleave, the semaphore's free permits and the
\* threads at work add up to downloads_at_once, and its queue is those who wait.
THEOREM TurnsComeBack == Spec => []TurnsAreKept
<1> DEFINE Inv == pc \in [Readers -> Places] /\ LineInv
<1>1. Init => Inv
  <2>1. Init => pc \in [Readers -> Places]
    BY SMT DEF Init, Places
  <2> QED BY <2>1, LineStarts
<1>2. Inv /\ [Next]_vars => Inv'
  BY PlacesStep, LineStep
<1>3. Inv => TurnsAreKept
  <2> SUFFICES ASSUME LineInv PROVE TurnsAreKept
    BY SMT
  <2>1. Waiting \in SUBSET Readers
    BY DEF Waiting
  <2>2. Len(queue) = Cardinality(Waiting)
    BY <2>1, LineCounts DEF LineInv
  <2> QED BY <2>2 DEF TurnsAreKept, LineInv, Waiting
<1> QED BY <1>1, <1>2, <1>3, PTL DEF Spec

-----------------------------------------------------------------------------
(* Downloads: the pages of a file. *)

\* The rows of a file, the file, and the mark a page leaves that ends with a row.
File(h, low) == Sorted(h, RowsPast(h, low, None))
MarkOf(h, c) == [rev |-> h[c], cid |-> c]
MarkPast(h, low, n) == IF n = 0 THEN None ELSE MarkOf(h, File(h, low)[n * PageSize])

Downward(h, rows) == {p \in rows \X rows : Above(h, p[1], p[2])}

LEMMA DownwardIs ==
  ASSUME NEW h, NEW rows, NEW a \in rows, NEW b \in rows
  PROVE  <<a, b>> \in Downward(h, rows) <=> Above(h, a, b)
BY SMT DEF Downward

LEMMA AboveOrders ==
  ASSUME NEW h \in [Cids -> 0..MaxRev], NEW rows \in SUBSET Cids
  PROVE  Orders(Downward(h, rows), rows)
<1>1. \A c \in rows : c \in Nat /\ h[c] \in Nat
  BY CidsAssumption, SizesAssumption, SMT
<1>2. /\ \A a \in rows : ~Above(h, a, a)
      /\ \A a, b, c \in rows : Above(h, a, b) /\ Above(h, b, c) => Above(h, a, c)
      /\ \A a, b \in rows : a # b => Above(h, a, b) \/ Above(h, b, a)
  BY <1>1, SMT DEF Above
<1> QED BY <1>2, DownwardIs DEF Orders

LEMMA RowsFinite ==
  ASSUME NEW h, NEW low, NEW mark
  PROVE  /\ RowsPast(h, low, mark) \in SUBSET Cids /\ IsFiniteSet(RowsPast(h, low, mark))
         /\ Cardinality(RowsPast(h, low, mark)) \in Nat
<1>1. RowsPast(h, low, mark) \in SUBSET Cids
  BY DEF RowsPast
<1> QED BY <1>1, CidsAssumption, FS_Subset, FS_CardinalityType

LEMMA FileIs ==
  ASSUME NEW h \in [Cids -> 0..MaxRev], NEW low \in 0..MaxRev
  PROVE  /\ File(h, low) \in Seq(Cids)
         /\ Len(File(h, low)) = Cardinality(RowsPast(h, low, None)) /\ Len(File(h, low)) \in Nat
         /\ \A i \in 1..Len(File(h, low)) :
              File(h, low)[i] \in RowsPast(h, low, None)
<1> DEFINE rows == RowsPast(h, low, None)
           w == Ordered(rows, Downward(h, rows))
<1>1. rows \in SUBSET Cids /\ IsFiniteSet(rows) /\ Cardinality(rows) \in Nat
  BY RowsFinite
<1>2. File(h, low) = w
  BY DEF File, Sorted, Downward
<1> HIDE DEF rows
<1>3. w \in [1..Cardinality(rows) -> rows]
  BY <1>1, AboveOrders, OrderedIs
<1> HIDE DEF w
<1>4. w \in Seq(rows) /\ Len(w) = Cardinality(rows)
  BY <1>1, <1>3, LineIsSeq
<1>5. w \in Seq(Cids) /\ \A i \in 1..Len(w) : w[i] \in rows
  BY <1>1, <1>4, SMT
<1> QED BY <1>1, <1>2, <1>4, <1>5 DEF rows

LEMMA MarkIs ==
  ASSUME NEW h \in [Cids -> 0..MaxRev], NEW low \in 0..MaxRev, NEW i \in 1..Len(File(h, low))
  PROVE  /\ File(h, low)[i] \in Cids
         /\ MarkOf(h, File(h, low)[i]) \in [rev : 1..MaxRev, cid : Cids]
         /\ MarkOf(h, File(h, low)[i]) # None
<1> DEFINE c == File(h, low)[i]
<1>1. c \in RowsPast(h, low, None)
  BY FileIs
<1>2. c \in Cids /\ h[c] > low /\ h[c] \in 0..MaxRev
  BY <1>1, SMT DEF RowsPast
<1> HIDE DEF c
<1>3. h[c] \in 1..MaxRev
  BY <1>2, SizesAssumption, SMT
<1>4. MarkOf(h, c) \in [rev : 1..MaxRev, cid : Cids]
  BY <1>2, <1>3, SMT DEF MarkOf
<1> QED BY <1>2, <1>4, NoneAssumption DEF c

\* What the query finds past a mark is what comes after its row.
LEMMA PastMark ==
  ASSUME NEW h \in [Cids -> 0..MaxRev], NEW low \in 0..MaxRev, NEW m \in 1..Len(File(h, low))
  PROVE  RowsPast(h, low, MarkOf(h, File(h, low)[m]))
           = {x \in RowsPast(h, low, None) : Above(h, File(h, low)[m], x)}
<1> DEFINE c == File(h, low)[m]
<1>1. c \in Cids /\ MarkOf(h, c) # None
  BY MarkIs
<1> HIDE DEF c
<1>2. MarkOf(h, c).rev = h[c] /\ MarkOf(h, c).cid = c
  BY SMT DEF MarkOf
<1>3. \A x \in Cids : x \in Nat /\ h[x] \in Nat
  BY CidsAssumption, SizesAssumption, SMT
<1>4. RowsPast(h, low, MarkOf(h, c)) = {x \in RowsPast(h, low, None) : Above(h, c, x)}
  BY <1>1, <1>2, <1>3, SMT DEF RowsPast, Above
<1> QED BY <1>4 DEF c


\* The rest of a file is what the query finds past the mark.
LEMMA RestOfFile ==
  ASSUME NEW h \in [Cids -> 0..MaxRev], NEW low \in 0..MaxRev, NEW n \in Nat,
         n * PageSize <= Len(File(h, low))
  PROVE  Sorted(h, RowsPast(h, low, MarkPast(h, low, n)))
           = SubSeq(File(h, low), n * PageSize + 1, Len(File(h, low)))
<1> DEFINE rows == RowsPast(h, low, None)
           w == File(h, low)
           m == n * PageSize
           past == RowsPast(h, low, MarkPast(h, low, n))
           rest == Onward(rows, Downward(h, rows), w, m)
<1>1. PageSize \in Nat \ {0} /\ m \in Nat /\ (m = 0 <=> n = 0)
  BY SizesAssumption, SMT
<1>2. rows \in SUBSET Cids /\ IsFiniteSet(rows) /\ Len(w) = Cardinality(rows) /\ Len(w) \in Nat
  BY FileIs, RowsFinite
<1>3. w = Ordered(rows, Downward(h, rows))
  BY DEF File, Sorted, Downward
<1>4. m \in 0..Cardinality(rows)
  BY <1>1, <1>2, SMT
<1>5. past = rest
  <2>1. CASE n = 0
    <3>1. past = rows
      BY <2>1 DEF MarkPast
    <3> QED BY <1>1, <2>1, <3>1 DEF Onward
  <2>2. CASE n # 0
    <3>1. m \in 1..Len(w)
      BY <1>1, <1>2, <2>2, SMT
    <3>2. w[m] \in rows
      BY <3>1, FileIs
    <3>3. past = {x \in rows : Above(h, w[m], x)}
      BY <2>2, <3>1, PastMark DEF MarkPast
    <3>4. \A x \in rows : <<w[m], x>> \in Downward(h, rows) <=> Above(h, w[m], x)
      BY <3>2, DownwardIs
    <3> HIDE DEF rows, w, m, past
    <3>5. past = {x \in rows : m = 0 \/ <<w[m], x>> \in Downward(h, rows)}
      BY <1>1, <2>2, <3>3, <3>4
    <3> QED BY <3>5 DEF Onward
  <2> QED BY <2>1, <2>2
<1>6. rest \in SUBSET rows
  BY DEF Onward
<1> HIDE DEF rows, w, m, past, rest
<1>7. \A a, b \in rest : <<a, b>> \in Downward(h, rest) <=> <<a, b>> \in Downward(h, rows)
  BY <1>6, DownwardIs
<1>8. Orders(Downward(h, rows), rows)
  BY <1>2, AboveOrders
<1>9. Ordered(rest, Downward(h, rest)) = SubSeq(w, m + 1, Cardinality(rows))
  <2>1. rest = Onward(rows, Downward(h, rows), Ordered(rows, Downward(h, rows)), m)
    BY <1>3 DEF rest
  <2>2. Ordered(rest, Downward(h, rest)) = SubSeq(Ordered(rows, Downward(h, rows)), m + 1, Cardinality(rows))
    BY <1>2, <1>4, <1>7, <1>8, <2>1, RestIs
  <2> QED BY <1>3, <2>2
<1>10. Sorted(h, past) = Ordered(rest, Downward(h, rest))
  BY <1>5 DEF Sorted, Downward
<1> QED BY <1>2, <1>9, <1>10 DEF w, m, past

\* The page past the mark is the file's next, and it is full where the file goes
\* that far.
PageFound(h, low, n, page) ==
  /\ page = Part(File(h, low), n + 1) /\ page \in Seq(Cids)
  /\ Len(page) = PageSize <=> (n + 1) * PageSize <= Len(File(h, low))
  /\ Len(page) = PageSize => page[Len(page)] = File(h, low)[(n + 1) * PageSize]

LEMMA PageIsFound ==
  ASSUME NEW h \in [Cids -> 0..MaxRev], NEW low \in 0..MaxRev, NEW n \in Nat,
         n * PageSize <= Len(File(h, low))
  PROVE  PageFound(h, low, n,
                   Limited(Sorted(h, RowsPast(h, low, MarkPast(h, low, n))), PageSize))
<1> DEFINE w == File(h, low)
           m == n * PageSize
           rest == SubSeq(w, m + 1, Len(w))
           page == Limited(rest, PageSize)
<1>1. Limited(Sorted(h, RowsPast(h, low, MarkPast(h, low, n))), PageSize) = page
  BY RestOfFile
<1>2. w \in Seq(Cids) /\ Len(w) \in Nat
  BY FileIs
<1>3. PageSize \in Nat \ {0} /\ m \in Nat /\ m <= Len(w) /\ (n + 1) * PageSize = m + PageSize /\ ((n + 1) - 1) * PageSize = m
  BY SizesAssumption, SMT
<1>4. page = Part(w, n + 1)
  BY <1>3 DEF Part
<1> HIDE DEF w, m
<1>5. /\ rest \in Seq(Cids) /\ Len(rest) = Len(w) - m
      /\ \A i \in 1..Len(rest) : rest[i] = w[m + i]
  <2>1. m + 1 \in 1..(Len(w) + 1)
    BY <1>2, <1>3, SMT
  <2>2. rest \in Seq(Cids) /\ Len(rest) = Len(w) - m
    BY <1>2, <1>3, <2>1, SMT
  <2>3. \A i \in 1..Len(rest) : rest[i] = w[m + i]
    BY <1>2, <1>3, <2>1, <2>2, SMT
  <2> QED
    BY <2>2, <2>3
<1> HIDE DEF rest
<1>6. /\ page \in Seq(Cids)
      /\ Len(page) = IF Len(rest) > PageSize THEN PageSize ELSE Len(rest)
      /\ \A i \in 1..Len(page) : page[i] = rest[i]
  BY <1>3, <1>5, LimitedIs
<1> HIDE DEF page
<1>7. /\ Len(page) = PageSize <=> m + PageSize <= Len(w)
      /\ Len(page) = PageSize => PageSize \in 1..Len(page) /\ PageSize \in 1..Len(rest)
  <2>1. PageSize \in Nat \ {0} /\ m \in Nat /\ m <= Len(w)
    BY <1>3
  <2>2. Len(rest) = Len(w) - m /\ Len(page) = IF Len(rest) > PageSize THEN PageSize ELSE Len(rest)
    BY <1>5, <1>6
  <2>3. ASSUME NEW a \in Nat, NEW b \in Nat, NEW r, NEW l, b <= a, r = a - b, l = IF r > PageSize THEN PageSize ELSE r
        PROVE  /\ l = PageSize <=> b + PageSize <= a
               /\ l = PageSize => PageSize \in 1..l /\ PageSize \in 1..r
    BY <2>1, <2>3, SMT
  <2> QED BY <1>2, <2>1, <2>2, <2>3
<1>8. Len(page) = PageSize => page[Len(page)] = w[m + PageSize]
  BY <1>5, <1>6, <1>7
<1>9. PageFound(h, low, n, page)
  BY <1>3, <1>4, <1>6, <1>7, <1>8 DEF PageFound, w
<1> QED BY <1>1, <1>9

\* The last page, which is not full, makes the count of the pieces.
LEMMA LastPiece ==
  ASSUME NEW w, Len(w) \in Nat, NEW n \in Nat, n * PageSize <= Len(w), ~((n + 1) * PageSize <= Len(w))
  PROVE  Pieces(w) = n + 1
<1>1. PageSize \in Nat \ {0}
  BY SizesAssumption, SMT
<1> DEFINE k == Len(w) - n * PageSize
<1>2. k \in 0..(PageSize - 1) /\ Len(w) = n * PageSize + k
  BY <1>1, SMT
<1> HIDE DEF k
<1>3. (n * PageSize + k) \div PageSize = n
  BY <1>1, <1>2, Split
<1> QED BY <1>2, <1>3 DEF Pieces

-----------------------------------------------------------------------------
(* Downloads: the stream. *)

\* The nth piece of a download's file.
PieceOf(d, n) == Piece(IF n = 1 THEN snap[d].rev ELSE None, Part(Whole(d), n))
Sendable(d) == {PieceOf(d, n) : n \in Nat} \cup {Failed}

\* A failure is the last of what is sent, and all else is the file's next piece.
Faithful(d) ==
  \A i \in 1..Len(Sent(d)) :
    IF Sent(d)[i] = Failed THEN i = Len(Sent(d)) ELSE Sent(d)[i] = PieceOf(d, i)

Sound(d) == \A i \in 1..Len(Sent(d)) : Sent(d)[i] # Failed

Begins(d) == pc[d] \notin {"idle", "queued", "opening", "rooting"}

Sending(d) ==
  /\ taken[d] \in Seq(Sendable(d)) /\ channel[d] \in Seq(Sendable(d))
  /\ Faithful(d)
  /\ ~Begins(d) => taken[d] = <<>> /\ channel[d] = <<>> /\ from[d] = None
  /\ pc[d] \in {"reading", "handing"} => snap[d] \in Snaps

\* The mark past so many pages of a download's file.
MarkAt(d, n) == MarkPast(snap[d].held, since[d], n)

\* With n pieces sent, the next page begins where the nth ended.
Reading(d) ==
  /\ Sound(d)
  /\ Len(Sent(d)) * PageSize <= Len(Whole(d))
  /\ from[d] = MarkAt(d, Len(Sent(d)))
  /\ piece[d] = Piece(IF Len(Sent(d)) = 0 THEN snap[d].rev ELSE None, <<>>)

\* A piece that is ready is the next one, and the page after it begins where it
\* ends, unless it is the last; or the read failed, and nothing comes after it.
Ready(d, n) ==
  /\ n * PageSize <= Len(Whole(d))
  /\ piece[d] = PieceOf(d, n + 1)
  /\ from[d] = IF (n + 1) * PageSize <= Len(Whole(d)) THEN MarkAt(d, n + 1) ELSE None

Handing(d) ==
  /\ Sound(d)
  /\ (piece[d] = Failed /\ from[d] = None) \/ Ready(d, Len(Sent(d)))

\* A stream that just ends has ended with the file.
Complete(d) ==
  Len(Sent(d)) # 0 /\ Sent(d)[Len(Sent(d))] # Failed => Len(Sent(d)) = Pieces(Whole(d)) \/ tardy[d]

Stream(d) ==
  /\ Sending(d)
  /\ there[d] /\ pc[d] = "reading" => Reading(d)
  /\ there[d] /\ pc[d] = "handing" => Handing(d)
  /\ there[d] /\ pc[d] = "ended" => Complete(d)

\* What a stream's place in the file is made of stays as it is.
SameFile(d) ==
  /\ snap'[d] = snap[d] /\ since'[d] = since[d]

SameTask(d) ==
  /\ SameFile(d)
  /\ pc'[d] = pc[d] /\ piece'[d] = piece[d] /\ from'[d] = from[d]
  /\ there'[d] = there[d] /\ tardy'[d] = tardy[d]

LEMMA FileStays ==
  ASSUME NEW d, SameFile(d)
  PROVE  /\ Whole(d)' = Whole(d)
         /\ \A n : PieceOf(d, n)' = PieceOf(d, n)
         /\ \A n : MarkAt(d, n)' = MarkAt(d, n)
         /\ Sendable(d)' = Sendable(d)
<1>1. snap'[d] = snap[d] /\ since'[d] = since[d]
  BY DEF SameFile
<1>2. Whole(d)' = Whole(d)
  BY <1>1 DEF Whole
<1>3. \A n : PieceOf(d, n)' = PieceOf(d, n)
  BY <1>1, <1>2 DEF PieceOf
<1>4. \A n : MarkAt(d, n)' = MarkAt(d, n)
  BY <1>1 DEF MarkAt
<1> QED BY <1>2, <1>3, <1>4 DEF Sendable

\* Only what was sent matters, and not how much of it was taken.
LEMMA StreamStays ==
  ASSUME NEW d, Stream(d), SameTask(d), Sent(d)' = Sent(d),
         taken'[d] \in Seq(Sendable(d)), channel'[d] \in Seq(Sendable(d)),
         ~Begins(d) => taken'[d] = <<>> /\ channel'[d] = <<>>
  PROVE  Stream(d)'
<1>1. /\ Whole(d)' = Whole(d)
      /\ \A n : PieceOf(d, n)' = PieceOf(d, n)
      /\ \A n : MarkAt(d, n)' = MarkAt(d, n)
      /\ Sendable(d)' = Sendable(d)
  BY FileStays DEF SameTask
<1>2. /\ pc'[d] = pc[d] /\ piece'[d] = piece[d] /\ from'[d] = from[d] /\ snap'[d] = snap[d]
      /\ there'[d] = there[d] /\ tardy'[d] = tardy[d]
  BY DEF SameTask, SameFile
<1>3. Faithful(d)' = Faithful(d) /\ Sound(d)' = Sound(d) /\ Begins(d)' = Begins(d)
  BY <1>1, <1>2 DEF Faithful, Sound, Begins
<1>4. Sending(d)'
  BY <1>1, <1>2, <1>3 DEF Stream, Sending
<1>5. there[d] /\ pc[d] = "reading" => Reading(d)'
  BY <1>1, <1>2, <1>3 DEF Stream, Reading
<1>6. there[d] /\ pc[d] = "handing" => Handing(d)'
  BY <1>1, <1>2, <1>3 DEF Stream, Handing, Ready
<1>7. there[d] /\ pc[d] = "ended" => Complete(d)'
  BY <1>1, <1>2, <1>3 DEF Stream, Complete
<1> QED BY <1>2, <1>4, <1>5, <1>6, <1>7 DEF Stream

LEMMA StreamApart ==
  ASSUME NEW d, Stream(d), SameTask(d), taken'[d] = taken[d], channel'[d] = channel[d]
  PROVE  Stream(d)'
<1>1. Sent(d)' = Sent(d)
  BY DEF Sent
<1>2. taken'[d] \in Seq(Sendable(d)) /\ channel'[d] \in Seq(Sendable(d))
  BY DEF Stream, Sending
<1>3. ~Begins(d) => taken'[d] = <<>> /\ channel'[d] = <<>>
  BY DEF Stream, Sending
<1> QED BY <1>1, <1>2, <1>3, StreamStays


\* The variables are one value for each reader.
Shapes ==
  /\ DOMAIN pc = Readers /\ DOMAIN since = Readers /\ DOMAIN snap = Readers
  /\ DOMAIN piece = Readers /\ DOMAIN from = Readers /\ DOMAIN channel = Readers
  /\ DOMAIN there = Readers /\ DOMAIN taken = Readers /\ DOMAIN tardy = Readers

Steps(d) == Ask(d) \/ Acquire(d) \/ Leave(d) \/ Take(d) \/ Works(d)

\* A step of one download leaves the others as they are.
LEMMA OthersApart ==
  ASSUME Shapes, NEW d \in Readers, NEW e \in Readers, e # d, Steps(d)
  PROVE  SameTask(e) /\ taken'[e] = taken[e] /\ channel'[e] = channel[e]
<1> USE DEF Shapes, SameTask, SameFile, task
<1>1. CASE Ask(d)
  BY <1>1 DEF Ask
<1>2. CASE Acquire(d)
  BY <1>2 DEF Acquire
<1>3. CASE Leave(d)
  BY <1>3 DEF Leave
<1>4. CASE Take(d)
  BY <1>4 DEF Take
<1>5. CASE Open(d)
  BY <1>5 DEF Open, Ends
<1>6. CASE Root(d)
  BY <1>6 DEF Root, Ends
<1>7. CASE Read(d)
  BY <1>7 DEF Read
<1>8. CASE Hand(d)
  BY <1>8 DEF Hand, Ends
<1>9. CASE Gone(d)
  BY <1>9 DEF Gone, Ends
<1>10. CASE Lapse(d)
  BY <1>10 DEF Lapse, Ends
<1> QED BY <1>1, <1>2, <1>3, <1>4, <1>5, <1>6, <1>7, <1>8, <1>9, <1>10 DEF Steps, Works

LEMMA NothingSent ==
  ASSUME NEW d, taken'[d] = <<>>, channel'[d] = <<>>
  PROVE  /\ Len(Sent(d)') = 0 /\ Faithful(d)' /\ Sound(d)'
         /\ taken'[d] \in Seq(Sendable(d)') /\ channel'[d] \in Seq(Sendable(d)')
<1>1. Len(Sent(d)') = 0
  BY SMT DEF Sent
<1>2. \A i : i \notin 1..Len(Sent(d)')
  BY <1>1, SMT
<1>3. \A S : <<>> \in Seq(S)
  BY SMT
<1> QED BY <1>1, <1>2, <1>3 DEF Faithful, Sound

LEMMA Empty ==
  ASSUME NEW d, taken'[d] = <<>>, channel'[d] = <<>>, from'[d] = None, pc'[d] \notin {"reading", "handing"}
  PROVE  Stream(d)'
<1>1. pc'[d] # "reading" /\ pc'[d] # "handing"
  BY SMT
<1> QED BY <1>1, NothingSent DEF Stream, Sending, Complete

LEMMA BeginKeeps ==
  ASSUME Shapes, NEW d \in Readers, Stream(d),
         Ask(d) \/ (Acquire(d) /\ pc[d] = "queued") \/ Open(d)
  PROVE  Stream(d)'
<1>1. pc[d] \in {"idle", "queued", "opening"}
  BY DEF Ask, Open
<1>2. ~Begins(d)
  BY <1>1, SMT DEF Begins
<1>3. taken[d] = <<>> /\ channel[d] = <<>> /\ from[d] = None
  BY <1>2 DEF Stream, Sending
<1>4. taken'[d] = <<>> /\ channel'[d] = <<>> /\ from'[d] = None
  BY <1>3 DEF Ask, Acquire, Open, Ends, Shapes
<1>5. pc'[d] \in {"queued", "opening", "rooting", "ended"}
  BY DEF Ask, Acquire, Open, Ends, Shapes
<1>6. pc'[d] \notin {"reading", "handing"}
  BY <1>5, SMT
<1> QED BY <1>4, <1>6, Empty


\* The file of a snapshot.
LEMMA WholeIs ==
  ASSUME NEW d, snap[d] \in Snaps, since[d] \in 0..MaxRev
  PROVE  /\ snap[d].held \in [Cids -> 0..MaxRev]
         /\ Whole(d) = File(snap[d].held, since[d])
         /\ Whole(d) \in Seq(Cids) /\ Len(Whole(d)) \in Nat
<1>1. snap[d].held \in [Cids -> 0..MaxRev]
  BY SMT DEF Snaps
<1>2. Whole(d) = File(snap[d].held, since[d])
  BY DEF Whole, File
<1> QED BY <1>1, <1>2, FileIs

LEMMA PieceIs ==
  ASSUME NEW d, snap[d] \in Snaps, since[d] \in 0..MaxRev, NEW n \in Nat
  PROVE  PieceOf(d, n + 1) # Failed /\ PieceOf(d, n + 1) \in Sendable(d)
<1>1. Whole(d) \in Seq(Cids) /\ Len(Whole(d)) \in Nat
  BY WholeIs
<1> DEFINE rest == SubSeq(Whole(d), ((n + 1) - 1) * PageSize + 1, Len(Whole(d)))
<1>2. rest \in Seq(Cids)
  <2>1. n * PageSize + 1 \in Nat /\ ((n + 1) - 1) * PageSize = n * PageSize /\ n * PageSize + 1 >= 1
    BY SizesAssumption, SMT
  <2> DEFINE k == n * PageSize + 1
  <2>2. k \in Nat /\ k >= 1 /\ rest = SubSeq(Whole(d), k, Len(Whole(d)))
    BY <2>1
  <2> HIDE DEF k, rest
  <2> QED BY <1>1, <2>2, SMT
<1>3. Part(Whole(d), n + 1) \in Seq(Cids)
  <2>1. PageSize \in Nat
    BY SizesAssumption, SMT
  <2> HIDE DEF rest
  <2>2. Limited(rest, PageSize) \in Seq(Cids)
    BY <1>2, <2>1, LimitedIs
  <2> QED BY <2>2 DEF Part, rest
<1>4. Part(Whole(d), n + 1) # None
  BY <1>3, NoneAssumption
<1>5. PieceOf(d, n + 1).cids = Part(Whole(d), n + 1) /\ Failed.cids = None
  BY SMT DEF PieceOf, Piece, Failed
<1>6. PieceOf(d, n + 1) # Failed
  BY <1>4, <1>5
<1>7. n + 1 \in Nat
  BY SMT
<1> QED BY <1>6, <1>7 DEF Sendable

LEMMA RootKeeps ==
  ASSUME TypeOK, Shapes, NEW d \in Readers, Stream(d), Root(d)
  PROVE  Stream(d)'
<1>1. pc[d] = "rooting"
  BY DEF Root
<1>2. ~Begins(d)
  BY <1>1, SMT DEF Begins
<1>3. taken[d] = <<>> /\ channel[d] = <<>> /\ from[d] = None
  BY <1>2 DEF Stream, Sending
<1>4. taken'[d] = <<>> /\ channel'[d] = <<>> /\ from'[d] = None
  BY <1>3 DEF Root, Ends, Shapes
<1>5. CASE rev = 0 \/ ~there[d]
  <2>1. pc'[d] = "ended"
    BY <1>5 DEF Root, Ends, Shapes
  <2>2. pc'[d] \notin {"reading", "handing"}
    BY <2>1, SMT
  <2> QED BY <1>4, <2>2, Empty
<1>6. CASE ~(rev = 0 \/ ~there[d])
  <2>1. /\ pc'[d] = "reading" /\ snap'[d] = [rev |-> rev, held |-> held]
        /\ piece'[d] = Piece(rev, <<>>) /\ since' = since
    BY <1>6 DEF Root, Shapes
  <2>2. snap'[d] \in Snaps /\ snap'[d].rev = rev
    BY <1>6, <2>1, SizesAssumption, SMT DEF TypeOK, Snaps
  <2>3. since'[d] \in 0..MaxRev
    BY <2>1 DEF TypeOK
  <2>4. Len(Whole(d)') \in Nat
    <3>1. snap'[d].held \in [Cids -> 0..MaxRev]
      BY <2>2, SMT DEF Snaps
    <3> QED BY <2>3, <3>1, FileIs DEF Whole, File
  <2>5. Len(Sent(d)') = 0 /\ Faithful(d)' /\ Sound(d)' /\ taken'[d] \in Seq(Sendable(d)') /\ channel'[d] \in Seq(Sendable(d)')
    BY <1>4, NothingSent
  <2>6. Len(Sent(d)') * PageSize <= Len(Whole(d)')
    BY <2>4, <2>5, SizesAssumption, SMT
  <2>7. from'[d] = MarkAt(d, Len(Sent(d)))'
    BY <1>4, <2>5 DEF MarkAt, MarkPast
  <2>8. Reading(d)'
    BY <2>1, <2>2, <2>5, <2>6, <2>7 DEF Reading
  <2>9. pc'[d] # "handing" /\ pc'[d] # "ended"
    BY <2>1, SMT
  <2> QED BY <1>4, <2>2, <2>5, <2>8, <2>9 DEF Stream, Sending
<1> QED BY <1>5, <1>6


LEMMA SentIs ==
  ASSUME NEW d, Stream(d)
  PROVE  /\ taken[d] \in Seq(Sendable(d)) /\ channel[d] \in Seq(Sendable(d)) /\ Sent(d) \in Seq(Sendable(d))
         /\ Joins(Sent(d), taken[d], channel[d]) /\ Len(Sent(d)) \in Nat
<1>1. taken[d] \in Seq(Sendable(d)) /\ channel[d] \in Seq(Sendable(d))
  BY DEF Stream, Sending
<1>2. Sent(d) \in Seq(Sendable(d)) /\ Joins(Sent(d), taken[d], channel[d])
  BY <1>1, Longer DEF Sent
<1>3. Len(Sent(d)) \in Nat
  BY <1>2, SMT
<1> QED BY <1>1, <1>2, <1>3, SMT

\* Taking a piece moves it from the channel to what was taken.
Passed(S, t, c) ==
  /\ Append(t, Head(c)) \in Seq(S) /\ Tail(c) \in Seq(S)
  /\ Append(t, Head(c)) \o Tail(c) = t \o c

LEMMA Passing ==
  ASSUME NEW S, NEW t \in Seq(S), NEW c \in Seq(S), c # <<>>
  PROVE  Passed(S, t, c)
<1>1. Head(c) \in S /\ Tail(c) \in Seq(S)
  BY SMT
<1> DEFINE a == Append(t, Head(c)) \o Tail(c)
           b == t \o c
<1>2. a \in Seq(S) /\ b \in Seq(S) /\ Len(a) = Len(b)
  BY <1>1, SMT
<1>3. \A i \in 1..Len(b) : a[i] = b[i]
  BY <1>1, SMT
<1>4. a = [i \in 1..Len(a) |-> a[i]] /\ b = [i \in 1..Len(b) |-> b[i]]
  BY <1>2, SeqIs
<1> HIDE DEF a, b
<1>5. a = b
  BY <1>2, <1>3, <1>4
<1>6. Append(t, Head(c)) \in Seq(S)
  BY <1>1, SMT
<1> QED BY <1>1, <1>5, <1>6 DEF Passed, a, b

LEMMA TakeKeeps ==
  ASSUME Shapes, NEW d \in Readers, Stream(d), Take(d)
  PROVE  Stream(d)'
<1>1. /\ taken'[d] = Append(taken[d], Head(channel[d])) /\ channel'[d] = Tail(channel[d])
      /\ channel[d] # <<>>
  BY DEF Take, Shapes
<1>2. SameTask(d)
  BY DEF Take, SameTask, SameFile, task
<1>3. taken[d] \in Seq(Sendable(d)) /\ channel[d] \in Seq(Sendable(d))
  BY SentIs
<1>4. /\ taken'[d] \in Seq(Sendable(d)) /\ channel'[d] \in Seq(Sendable(d))
      /\ taken'[d] \o channel'[d] = taken[d] \o channel[d]
  <2>1. Passed(Sendable(d), taken[d], channel[d])
    BY <1>1, <1>3, Passing
  <2> QED BY <1>1, <2>1 DEF Passed
<1>5. Begins(d)
  BY <1>1 DEF Stream, Sending
<1>6. Sent(d)' = Sent(d)
  BY <1>4 DEF Sent
<1> QED BY <1>2, <1>4, <1>5, <1>6, StreamStays

LEMMA LeaveKeeps ==
  ASSUME Shapes, NEW d \in Readers, Stream(d), Leave(d)
  PROVE  Stream(d)'
<1>1. /\ ~there'[d] /\ channel'[d] = <<>> /\ taken'[d] = taken[d] /\ from'[d] = from[d]
      /\ SameFile(d) /\ snap'[d] = snap[d]
      /\ (pc'[d] = pc[d] \/ pc'[d] = "ended")
  BY DEF Leave, Shapes, SameFile
<1>2. /\ Joins(Sent(d), taken[d], channel[d]) /\ taken[d] \in Seq(Sendable(d))
  BY SentIs
<1>3. Sent(d)' = taken[d]
  <2>1. taken[d] \o <<>> = taken[d]
    BY <1>2, SMT
  <2> QED BY <1>1, <2>1 DEF Sent
<1>4. \A n : PieceOf(d, n)' = PieceOf(d, n)
  BY <1>1, FileStays
<1>5. Sendable(d)' = Sendable(d)
  BY <1>1, FileStays
<1>6. Faithful(d)'
  <2> SUFFICES ASSUME NEW i \in 1..Len(taken[d])
               PROVE  IF taken[d][i] = Failed THEN i = Len(taken[d]) ELSE taken[d][i] = PieceOf(d, i)
    BY <1>3, <1>4 DEF Faithful
  <2>1. i \in 1..Len(Sent(d)) /\ Sent(d)[i] = taken[d][i] /\ (i = Len(Sent(d)) => i = Len(taken[d]))
    <3>1. /\ Len(taken[d]) \in Nat /\ Len(channel[d]) \in Nat /\ Len(Sent(d)) = Len(taken[d]) + Len(channel[d])
          /\ Sent(d)[i] = taken[d][i]
      BY <1>2 DEF Joins
    <3>2. ASSUME NEW a \in Nat, NEW b \in Nat, NEW j \in 1..a PROVE j \in 1..(a + b) /\ (j = a + b => j = a)
      BY SMT
    <3> QED BY <3>1, <3>2
  <2>2. IF Sent(d)[i] = Failed THEN i = Len(Sent(d)) ELSE Sent(d)[i] = PieceOf(d, i)
    BY <2>1 DEF Stream, Sending, Faithful
  <2> QED BY <2>1, <2>2
<1>7. "ended" \notin {"idle", "queued", "opening", "rooting"} /\ "ended" \notin {"reading", "handing"}
  BY SMT
<1>8. ~Begins(d)' => taken'[d] = <<>> /\ from'[d] = None
  BY <1>1, <1>7 DEF Begins, Stream, Sending
<1>9. pc'[d] \in {"reading", "handing"} => snap'[d] \in Snaps
  BY <1>1, <1>7 DEF Stream, Sending
<1>10. channel'[d] \in Seq(Sendable(d)')
  BY <1>1, SMT
<1>11. taken'[d] \in Seq(Sendable(d)')
  BY <1>1, <1>2, <1>5
<1>12. Sending(d)'
  BY <1>1, <1>6, <1>8, <1>9, <1>10, <1>11 DEF Sending
<1> QED BY <1>1, <1>12 DEF Stream


\* What blocks_since answers with.
Fetched(d) == Limited(Sorted(snap[d].held, RowsPast(snap[d].held, since[d], from[d])), PageSize)

LEMMA PageIsFetched ==
  ASSUME NEW d
  PROVE  /\ Page(d).cids = Fetched(d)
         /\ Page(d).next = IF Len(Fetched(d)) = PageSize
                           THEN MarkOf(snap[d].held, Fetched(d)[Len(Fetched(d))]) ELSE None
<1>1. View(d) = snap[d].held
  BY DEF View
<1>2. Page(d) = [cids |-> Fetched(d),
                 next |-> IF Len(Fetched(d)) = PageSize
                          THEN MarkOf(snap[d].held, Fetched(d)[Len(Fetched(d))]) ELSE None]
  BY <1>1 DEF Page, Fetched, MarkOf
<1> QED BY <1>2, SMT

LEMMA PageHas ==
  ASSUME NEW d, snap[d] \in Snaps, since[d] \in 0..MaxRev, NEW n \in Nat,
         n * PageSize <= Len(Whole(d)), from[d] = MarkAt(d, n)
  PROVE  /\ Page(d).cids = Part(Whole(d), n + 1) /\ Page(d).cids \in Seq(Cids)
         /\ Page(d).next = IF (n + 1) * PageSize <= Len(Whole(d)) THEN MarkAt(d, n + 1) ELSE None
<1> DEFINE h == snap[d].held
<1>1. h \in [Cids -> 0..MaxRev] /\ Whole(d) = File(h, since[d])
  BY WholeIs
<1>2. Fetched(d) = Limited(Sorted(h, RowsPast(h, since[d], MarkPast(h, since[d], n))), PageSize)
  BY DEF Fetched, MarkAt
<1> HIDE DEF h
<1>3. PageFound(h, since[d], n, Fetched(d))
  BY <1>1, <1>2, PageIsFound
<1>4. MarkAt(d, n + 1) = MarkOf(h, Whole(d)[(n + 1) * PageSize])
  <2>1. n + 1 # 0
    BY SMT
  <2> QED BY <1>1, <2>1 DEF MarkAt, MarkPast, h
<1>5. /\ Page(d).cids = Fetched(d)
      /\ Page(d).next = IF Len(Fetched(d)) = PageSize
                        THEN MarkOf(h, Fetched(d)[Len(Fetched(d))]) ELSE None
  BY PageIsFetched DEF h
<1> QED BY <1>1, <1>3, <1>4, <1>5 DEF PageFound

LEMMA ReadKeeps ==
  ASSUME TypeOK, Shapes, NEW d \in Readers, Stream(d), Read(d)
  PROVE  Stream(d)'
<1>1. /\ pc[d] = "reading" /\ pc'[d] = "handing"
      /\ taken' = taken /\ channel' = channel /\ there' = there /\ snap' = snap /\ since' = since
  BY DEF Read, Shapes
<1>2. SameFile(d) /\ Sent(d)' = Sent(d)
  BY <1>1 DEF SameFile, Sent
<1>3. Whole(d)' = Whole(d) /\ Sendable(d)' = Sendable(d)
  BY <1>2, FileStays
<1>4. (\A n : PieceOf(d, n)' = PieceOf(d, n)) /\ (\A n : MarkAt(d, n)' = MarkAt(d, n))
  BY <1>2, FileStays
<1>5. Faithful(d)' /\ (Sound(d) => Sound(d)')
  BY <1>2, <1>4 DEF Stream, Sending, Faithful, Sound
<1>6. "handing" \notin {"idle", "queued", "opening", "rooting"} /\ "reading" \in {"reading", "handing"}
  BY SMT
<1>7. snap[d] \in Snaps /\ since[d] \in 0..MaxRev
  BY <1>1, <1>6 DEF Stream, Sending, TypeOK
<1>8. Sending(d)'
  BY <1>1, <1>3, <1>5, <1>6, <1>7 DEF Stream, Sending, Begins
<1>9. ASSUME there[d] PROVE Handing(d)'
  <2> DEFINE n == Len(Sent(d))
  <2>1. Reading(d)
    BY <1>1, <1>9 DEF Stream
  <2>2. /\ Sound(d)' /\ n * PageSize <= Len(Whole(d)) /\ from[d] = MarkAt(d, n)
        /\ piece[d] = Piece(IF n = 0 THEN snap[d].rev ELSE None, <<>>)
    BY <1>5, <2>1 DEF Reading
  <2>3. n \in Nat
    BY SentIs
  <2> HIDE DEF n
  <2>4. CASE piece' = [piece EXCEPT ![d] = Failed] /\ from' = [from EXCEPT ![d] = None]
    <3>1. piece'[d] = Failed /\ from'[d] = None
      BY <2>4 DEF Shapes
    <3> QED BY <2>2, <3>1 DEF Handing
  <2>5. CASE piece' = [piece EXCEPT ![d].cids = @ \o Page(d).cids] /\ from' = [from EXCEPT ![d] = Page(d).next]
    <3>1. piece'[d] = [piece[d] EXCEPT !.cids = piece[d].cids \o Page(d).cids] /\ from'[d] = Page(d).next
      BY <2>5 DEF Shapes
    <3>2. /\ Page(d).cids = Part(Whole(d), n + 1) /\ Page(d).cids \in Seq(Cids)
          /\ Page(d).next = IF (n + 1) * PageSize <= Len(Whole(d)) THEN MarkAt(d, n + 1) ELSE None
      BY <1>7, <2>2, <2>3, PageHas
    <3>3. piece'[d] = Piece(IF n = 0 THEN snap[d].rev ELSE None, <<>> \o Page(d).cids)
      BY <2>2, <3>1, SMT DEF Piece
    <3>4. <<>> \o Page(d).cids = Page(d).cids
      BY <3>2, SMT
    <3>5. n = 0 <=> n + 1 = 1
      BY <2>3, SMT
    <3>6. piece'[d] = PieceOf(d, n + 1)
      BY <3>2, <3>3, <3>4, <3>5 DEF PieceOf
    <3>7. Ready(d, n)'
      BY <1>2, <1>3, <1>4, <2>2, <3>1, <3>2, <3>6 DEF Ready, n
    <3> QED BY <2>2, <3>7 DEF Handing, n
  <2> QED BY <2>4, <2>5 DEF Read
<1>10. pc'[d] # "reading" /\ pc'[d] # "ended"
  BY <1>1, SMT
<1> QED BY <1>1, <1>8, <1>9, <1>10 DEF Stream


\* Handing a piece over adds it to what was sent.
Handed(S, t, c, p) ==
  /\ Append(c, p) \in Seq(S)
  /\ Len(t \o Append(c, p)) = Len(t \o c) + 1
  /\ \A i \in 1..Len(t \o c) : (t \o Append(c, p))[i] = (t \o c)[i]
  /\ (t \o Append(c, p))[Len(t \o c) + 1] = p
  /\ \A i \in 1..(Len(t \o c) + 1) : i \in 1..Len(t \o c) \/ i = Len(t \o c) + 1

LEMMA HandingOver ==
  ASSUME NEW S, NEW t \in Seq(S), NEW c \in Seq(S), NEW p \in S
  PROVE  Handed(S, t, c, p)
BY SMT DEF Handed

LEMMA EndsStream ==
  ASSUME Shapes, NEW d \in Readers, Ends(d)
  PROVE  /\ pc'[d] = "ended" /\ pc'[d] # "reading" /\ pc'[d] # "handing" /\ Begins(d)'
         /\ pc'[d] \notin {"reading", "handing"}
<1>1. pc'[d] = "ended"
  BY DEF Ends, Shapes
<1> QED BY <1>1, SMT DEF Begins

\* A stream given up on: nothing more is sent.
LEMMA DropKeeps ==
  ASSUME Shapes, NEW d \in Readers, Stream(d), Gone(d) \/ Lapse(d)
  PROVE  Stream(d)'
<1>1. /\ Ends(d) /\ taken' = taken /\ channel' = channel /\ snap' = snap /\ since' = since
      /\ ~there'[d] \/ tardy'[d]
  BY DEF Gone, Lapse, Shapes
<1>2. SameFile(d) /\ Sent(d)' = Sent(d)
  BY <1>1 DEF SameFile, Sent
<1>3. Sendable(d)' = Sendable(d) /\ \A n : PieceOf(d, n)' = PieceOf(d, n)
  BY <1>2, FileStays
<1>4. Faithful(d)'
  BY <1>2, <1>3 DEF Stream, Sending, Faithful
<1>5. pc'[d] # "reading" /\ pc'[d] # "handing" /\ Begins(d)' /\ pc'[d] \notin {"reading", "handing"}
  BY <1>1, EndsStream
<1>6. Sending(d)'
  BY <1>1, <1>3, <1>4, <1>5 DEF Stream, Sending
<1> QED BY <1>1, <1>5, <1>6 DEF Stream, Complete

LEMMA HandKeeps ==
  ASSUME TypeOK, Shapes, NEW d \in Readers, Stream(d), Hand(d)
  PROVE  Stream(d)'
<1> DEFINE n == Len(Sent(d))
           s == Sent(d)'
<1>1. /\ pc[d] = "handing" /\ there[d] /\ channel'[d] = Append(channel[d], piece[d])
      /\ taken' = taken /\ snap' = snap /\ since' = since
  BY DEF Hand, Shapes
<1>2. "handing" \in {"reading", "handing"}
  BY SMT
<1>3. snap[d] \in Snaps /\ since[d] \in 0..MaxRev /\ Handing(d)
  BY <1>1, <1>2 DEF Stream, Sending, TypeOK
<1>4. /\ taken[d] \in Seq(Sendable(d)) /\ channel[d] \in Seq(Sendable(d)) /\ n \in Nat
  BY SentIs
<1>5. SameFile(d)
  BY <1>1 DEF SameFile
<1>6. Whole(d)' = Whole(d) /\ Sendable(d)' = Sendable(d)
  BY <1>5, FileStays
<1>7. (\A k : PieceOf(d, k)' = PieceOf(d, k)) /\ (\A k : MarkAt(d, k)' = MarkAt(d, k))
  BY <1>5, FileStays
<1>8. PieceOf(d, n + 1) # Failed /\ PieceOf(d, n + 1) \in Sendable(d) /\ Failed \in Sendable(d)
  <2>1. Failed \in Sendable(d)
    BY DEF Sendable
  <2> QED BY <1>3, <1>4, <2>1, PieceIs
<1>9. /\ Sound(d)
      /\ (piece[d] = Failed /\ from[d] = None) \/ (piece[d] # Failed /\ Ready(d, n))
  BY <1>3, <1>8 DEF Handing, Ready
<1>10. piece[d] \in Sendable(d) /\ (piece[d] # Failed => piece[d] = PieceOf(d, n + 1))
  BY <1>8, <1>9 DEF Ready
<1>11. /\ channel'[d] \in Seq(Sendable(d)) /\ Len(s) = n + 1
       /\ \A i \in 1..n : s[i] = Sent(d)[i]
       /\ s[n + 1] = piece[d]
       /\ \A i \in 1..(n + 1) : i \in 1..n \/ i = n + 1
  <2>1. Handed(Sendable(d), taken[d], channel[d], piece[d])
    BY <1>4, <1>10, HandingOver
  <2>2. s = taken[d] \o Append(channel[d], piece[d])
    BY <1>1 DEF Sent
  <2> HIDE DEF s
  <2> QED BY <1>1, <2>1, <2>2 DEF Handed, Sent
<1>12. \A i \in 1..n : s[i] = PieceOf(d, i) /\ s[i] # Failed
  <2> SUFFICES ASSUME NEW i \in 1..n PROVE Sent(d)[i] = PieceOf(d, i) /\ Sent(d)[i] # Failed
    BY <1>11
  <2>1. Sent(d)[i] # Failed
    BY <1>9 DEF Sound
  <2> QED BY <2>1 DEF Stream, Sending, Faithful
<1> HIDE DEF s, n
<1>13. ASSUME NEW i \in 1..Len(s) PROVE IF s[i] = Failed THEN i = Len(s) ELSE s[i] = PieceOf(d, i)
  <2>1. CASE i \in 1..n
    BY <1>12, <2>1
  <2>2. CASE i = n + 1
    BY <1>10, <1>11, <2>2
  <2> QED BY <1>11, <2>1, <2>2
<1>14. Faithful(d)'
  BY <1>7, <1>13 DEF Faithful, s
<1>15. piece[d] # Failed => Sound(d)'
  <2> SUFFICES ASSUME piece[d] # Failed, NEW i \in 1..Len(s) PROVE s[i] # Failed
    BY DEF Sound, s
  <2> QED BY <1>11, <1>12
<1>16. taken'[d] \in Seq(Sendable(d)') /\ channel'[d] \in Seq(Sendable(d)') /\ snap'[d] \in Snaps
  BY <1>1, <1>3, <1>4, <1>6, <1>11
<1>17. CASE from[d] = None
  <2>1. Ends(d)
    BY <1>17 DEF Hand
  <2>2. pc'[d] # "reading" /\ pc'[d] # "handing" /\ Begins(d)' /\ pc'[d] \notin {"reading", "handing"}
    BY <2>1, EndsStream
  <2>3. Sending(d)'
    BY <1>14, <1>16, <2>2 DEF Sending
  <2>4. ASSUME piece[d] # Failed PROVE n + 1 = Pieces(Whole(d))
    <3>1. Ready(d, n)
      BY <1>9, <2>4
    <3>2. Whole(d) = File(snap[d].held, since[d]) /\ snap[d].held \in [Cids -> 0..MaxRev] /\ Len(Whole(d)) \in Nat
      BY <1>3, WholeIs
    <3>3. ~((n + 1) * PageSize <= Len(Whole(d)))
      <4> SUFFICES ASSUME (n + 1) * PageSize <= Len(Whole(d)) PROVE FALSE
        OBVIOUS
      <4>1. (n + 1) * PageSize \in 1..Len(Whole(d)) /\ n + 1 # 0
        <5>1. (n + 1) * PageSize \in Nat \ {0} /\ n + 1 # 0
          BY <1>4, SizesAssumption, SMT
        <5>2. ASSUME NEW k \in Nat \ {0}, NEW l \in Nat, k <= l PROVE k \in 1..l
          BY <5>2, SMT
        <5> QED BY <3>2, <5>1, <5>2
      <4>2. MarkAt(d, n + 1) # None
        BY <1>3, <3>2, <4>1, MarkIs DEF MarkAt, MarkPast
      <4> QED BY <1>17, <3>1, <4>2 DEF Ready
    <3>4. n * PageSize <= Len(Whole(d))
      BY <3>1 DEF Ready
    <3> QED BY <1>4, <3>2, <3>3, <3>4, LastPiece
  <2>5. Complete(d)'
    BY <1>6, <1>11, <2>4 DEF Complete, s
  <2> QED BY <2>2, <2>3, <2>5 DEF Stream
<1>18. CASE from[d] # None
  <2>1. /\ pc'[d] = "reading" /\ piece'[d] = Piece(None, <<>>) /\ from'[d] = from[d]
    BY <1>18 DEF Hand, Shapes
  <2>2. piece[d] # Failed /\ Ready(d, n)
    BY <1>9, <1>18
  <2>3. (n + 1) * PageSize <= Len(Whole(d)) /\ from[d] = MarkAt(d, n + 1)
    BY <1>18, <2>2 DEF Ready
  <2>4. n + 1 # 0
    BY <1>4, SMT
  <2>5. Reading(d)'
    BY <1>6, <1>7, <1>11, <1>15, <2>1, <2>2, <2>3, <2>4 DEF Reading, s
  <2>6. pc'[d] # "handing" /\ pc'[d] # "ended" /\ pc'[d] \notin {"idle", "queued", "opening", "rooting"}
    BY <2>1, SMT
  <2>7. Sending(d)'
    BY <1>14, <1>16, <2>6 DEF Sending, Begins
  <2> QED BY <2>5, <2>6, <2>7 DEF Stream
<1> QED BY <1>17, <1>18


\* A mark a page leaves is one of the table's rows.
LEMMA NextIsMark ==
  ASSUME NEW d, snap[d] \in Snaps, since[d] \in 0..MaxRev
  PROVE  Page(d).next \in Marks
<1> DEFINE h == snap[d].held
           rows == RowsPast(h, since[d], from[d])
           page == Fetched(d)
<1>1. h \in [Cids -> 0..MaxRev]
  BY SMT DEF Snaps
<1>2. rows \in SUBSET Cids /\ IsFiniteSet(rows)
  BY RowsFinite
<1>3. PageSize \in Nat \ {0}
  BY SizesAssumption
<1>4. page = Limited(Ordered(rows, Downward(h, rows)), PageSize)
  BY DEF Fetched, Sorted, Downward
<1>5. \A c \in rows : c \in Cids /\ h[c] > since[d]
  BY DEF RowsPast
<1>6. Page(d).next = IF Len(page) = PageSize THEN MarkOf(h, page[Len(page)]) ELSE None
  BY PageIsFetched
<1> HIDE DEF h, rows, page
<1>7. PageOf(page, rows, Downward(h, rows), PageSize)
  BY <1>1, <1>2, <1>3, <1>4, AboveOrders, PageIs
<1>8. page \in Seq(rows)
  BY <1>7 DEF PageOf
<1>9. ASSUME Len(page) = PageSize PROVE MarkOf(h, page[Len(page)]) \in [rev : 1..MaxRev, cid : Cids]
  <2> DEFINE c == page[Len(page)]
  <2>1. c \in rows
    BY <1>3, <1>8, <1>9, SMT
  <2>2. c \in Cids /\ h[c] > since[d]
    BY <1>5, <2>1
  <2> HIDE DEF c
  <2>3. h[c] \in 1..MaxRev
    BY <1>1, <2>2, SizesAssumption, SMT
  <2>4. MarkOf(h, c) \in [rev : 1..MaxRev, cid : Cids]
    BY <2>2, <2>3, SMT DEF MarkOf
  <2> QED BY <2>4 DEF c
<1> QED BY <1>6, <1>9 DEF Marks

\* What the stream's steps leave of the types: all but the turns.
Typed ==
  /\ rev \in 0..MaxRev /\ held \in [Cids -> 0..MaxRev]
  /\ pc \in [Readers -> Places]
  /\ since \in [Readers -> 0..MaxRev]
  /\ snap \in [Readers -> Snaps \cup {None}] /\ from \in [Readers -> Marks]
  /\ there \in [Readers -> BOOLEAN] /\ tardy \in [Readers -> BOOLEAN]
  /\ faults \in 0..MaxFaults
  /\ DOMAIN piece = Readers /\ DOMAIN channel = Readers /\ DOMAIN taken = Readers

LEMMA TypedShapes == Typed => Shapes
BY DEF Typed, Shapes

LEMMA CommitTyped ==
  ASSUME Typed, Commit
  PROVE  Typed'
<1>1. PICK new \in SUBSET {c \in Cids : held[c] = 0} \ {{}}, gone \in SUBSET {c \in Cids : held[c] > 0} :
        held' = [c \in Cids |-> IF c \in new THEN rev + 1 ELSE IF c \in gone THEN 0 ELSE held[c]]
  BY DEF Commit
<1>2. rev \in 0..MaxRev /\ held \in [Cids -> 0..MaxRev] /\ rev < MaxRev /\ rev' = rev + 1
  BY DEF Typed, Commit
<1>3. rev' \in 0..MaxRev /\ rev + 1 \in 0..MaxRev /\ 0 \in 0..MaxRev
  BY <1>2, SizesAssumption, SMT
<1>4. held' \in [Cids -> 0..MaxRev]
  BY <1>1, <1>2, <1>3
<1> QED BY <1>3, <1>4 DEF Typed, Commit, task

LEMMA StepsTyped ==
  ASSUME Typed, pc' \in [Readers -> Places], NEW d \in Readers, Stream(d), Steps(d)
  PROVE  Typed'
<1>1. rev' = rev /\ held' = held
  BY DEF Steps, Works, Ask, Acquire, Leave, Take, Open, Root, Read, Hand, Gone, Lapse, repo
<1>2. DOMAIN piece' = Readers /\ DOMAIN channel' = Readers /\ DOMAIN taken' = Readers
  <2>1. CASE Ask(d) \/ Acquire(d) \/ Leave(d) \/ Take(d)
    BY <2>1 DEF Ask, Acquire, Leave, Take, task, Typed
  <2>2. CASE Works(d)
    BY <2>2 DEF Works, Open, Root, Read, Hand, Gone, Lapse, Ends, Typed
  <2> QED BY <2>1, <2>2 DEF Steps
<1>3. since' \in [Readers -> 0..MaxRev]
  <2>1. CASE Ask(d)
    <3>1. PICK low \in 0..rev : since' = [since EXCEPT ![d] = low]
      BY <2>1 DEF Ask
    <3>2. low \in 0..MaxRev
      BY SizesAssumption, SMT DEF Typed
    <3> QED BY <3>1, <3>2 DEF Typed
  <2>2. CASE ~Ask(d)
    BY <2>2 DEF Steps, Works, Acquire, Leave, Take, Open, Root, Read, Hand, Gone, Lapse, Typed
  <2> QED BY <2>1, <2>2
<1>4. snap' \in [Readers -> Snaps \cup {None}]
  <2>1. CASE snap' = snap
    BY <2>1 DEF Typed
  <2>2. CASE rev # 0 /\ snap' = [snap EXCEPT ![d] = [rev |-> rev, held |-> held]]
    <3>1. rev \in 1..MaxRev /\ held \in [Cids -> 0..MaxRev]
      BY <2>2, SizesAssumption, SMT DEF Typed
    <3>2. [rev |-> rev, held |-> held] \in Snaps
      BY <3>1, SMT DEF Snaps
    <3> QED BY <2>2, <3>2 DEF Typed
  <2> QED BY <2>1, <2>2 DEF Steps, Works, Ask, Acquire, Leave, Take, Open, Root, Read, Hand, Gone, Lapse, task
<1>5. from' \in [Readers -> Marks]
  <2>1. None \in Marks
    BY DEF Marks
  <2>2. CASE Read(d)
    <3>1. "reading" \in {"reading", "handing"}
      BY SMT
    <3>2. snap[d] \in Snaps /\ since[d] \in 0..MaxRev
      BY <2>2, <3>1 DEF Read, Stream, Sending, Typed
    <3>3. Page(d).next \in Marks
      BY <3>2, NextIsMark
    <3>4. from' = [from EXCEPT ![d] = None] \/ from' = [from EXCEPT ![d] = Page(d).next]
      BY <2>2 DEF Read
    <3> QED BY <2>1, <3>3, <3>4 DEF Typed
  <2>3. CASE ~Read(d)
    <3>1. from' = from \/ from' = [from EXCEPT ![d] = None]
      BY <2>3 DEF Steps, Works, Ask, Acquire, Leave, Take, Open, Root, Hand, Gone, Lapse, Ends, task
    <3> QED BY <2>1, <3>1 DEF Typed
  <2> QED BY <2>2, <2>3
<1>6. there' \in [Readers -> BOOLEAN] /\ tardy' \in [Readers -> BOOLEAN]
  <2>1. there' = there \/ there' = [there EXCEPT ![d] = FALSE]
    BY DEF Steps, Works, Ask, Acquire, Leave, Take, Open, Root, Read, Hand, Gone, Lapse
  <2>2. tardy' = tardy \/ tardy' = [tardy EXCEPT ![d] = TRUE]
    BY DEF Steps, Works, Ask, Acquire, Leave, Take, Open, Root, Read, Hand, Gone, Lapse
  <2> QED BY <2>1, <2>2 DEF Typed
<1>7. faults' \in 0..MaxFaults
  <2>1. faults' = faults \/ (faults < MaxFaults /\ faults' = faults + 1)
    BY DEF Steps, Works, Ask, Acquire, Leave, Take, Open, Root, Read, Hand, Gone, Lapse
  <2> QED BY <2>1, SizesAssumption, SMT DEF Typed
<1> QED BY <1>1, <1>2, <1>3, <1>4, <1>5, <1>6, <1>7 DEF Typed


\* The invariant: types, the line and its turns, and every download's stream.
DownloadInv == Typed /\ LineInv /\ \A d \in Readers : Stream(d)

LEMMA TypesHold ==
  ASSUME Typed, LineInv
  PROVE  TypeOK
<1>1. free \in 0..Turns
  <2>1. free \in Nat /\ free + Cardinality(Working) = Turns
    BY DEF LineInv
  <2> QED BY <2>1, WorkingFinite, SizesAssumption, SMT
<1> QED BY <1>1 DEF Typed, TypeOK, Places


LEMMA StreamStep ==
  ASSUME Typed, LineInv, NEW d \in Readers, Stream(d), Steps(d)
  PROVE  Stream(d)'
<1>1. Shapes /\ TypeOK
  BY TypedShapes, TypesHold
<1>2. CASE Ask(d) \/ Acquire(d) \/ Open(d)
  <2>1. Acquire(d) => pc[d] = "queued"
    <3> SUFFICES ASSUME Acquire(d) PROVE pc[d] = "queued"
      OBVIOUS
    <3>1. queue # <<>> /\ d = Head(queue)
      BY DEF Acquire
    <3>2. Head(queue) \in Waiting
      BY <3>1, LineMoves DEF LineInv
    <3> QED BY <3>1, <3>2 DEF Waiting
  <2>2. Ask(d) \/ (Acquire(d) /\ pc[d] = "queued") \/ Open(d)
    BY <1>2, <2>1
  <2> QED BY <1>1, <2>2, BeginKeeps, SMT
<1>3. CASE Take(d)
  BY <1>1, <1>3, TakeKeeps
<1>4. CASE Leave(d)
  BY <1>1, <1>4, LeaveKeeps
<1>5. CASE Root(d)
  BY <1>1, <1>5, RootKeeps
<1>6. CASE Read(d)
  BY <1>1, <1>6, ReadKeeps
<1>7. CASE Hand(d)
  BY <1>1, <1>7, HandKeeps
<1>8. CASE Gone(d) \/ Lapse(d)
  BY <1>1, <1>8, DropKeeps
<1> QED BY <1>2, <1>3, <1>4, <1>5, <1>6, <1>7, <1>8 DEF Steps, Works

LEMMA DownloadStarts ==
  ASSUME Init
  PROVE  DownloadInv
<1>1. rev \in {0, 1} /\ held \in [Cids -> {0, rev}]
  BY DEF Init
<1>2. /\ pc = [d \in Readers |-> "idle"] /\ since = [d \in Readers |-> 0]
      /\ snap = [d \in Readers |-> None] /\ piece = [d \in Readers |-> None]
      /\ from = [d \in Readers |-> None] /\ channel = [d \in Readers |-> <<>>]
      /\ there = [d \in Readers |-> TRUE] /\ taken = [d \in Readers |-> <<>>]
      /\ tardy = [d \in Readers |-> FALSE] /\ faults = 0
  BY DEF Init
<1>3. rev \in 0..MaxRev /\ 0 \in 0..MaxRev /\ 0 \in 0..MaxFaults
  BY <1>1, SizesAssumption, SMT
<1>4. held \in [Cids -> 0..MaxRev]
  BY <1>1, <1>3, SMT
<1>5. "idle" \in Places /\ None \in Marks
  BY SMT DEF Places, Marks
<1>6. Typed
  <2>1. /\ pc \in [Readers -> Places] /\ since \in [Readers -> 0..MaxRev]
        /\ snap \in [Readers -> Snaps \cup {None}] /\ from \in [Readers -> Marks]
        /\ there \in [Readers -> BOOLEAN] /\ tardy \in [Readers -> BOOLEAN]
    BY <1>2, <1>3, <1>5
  <2>2. DOMAIN piece = Readers /\ DOMAIN channel = Readers /\ DOMAIN taken = Readers
    BY <1>2
  <2> QED BY <1>2, <1>3, <1>4, <2>1, <2>2 DEF Typed
<1>7. ASSUME NEW d \in Readers PROVE Stream(d)
  <2>1. taken[d] = <<>> /\ channel[d] = <<>> /\ from[d] = None /\ pc[d] = "idle"
    BY <1>2
  <2>2. Len(Sent(d)) = 0
    BY <2>1, SMT DEF Sent
  <2>3. \A i : i \notin 1..Len(Sent(d))
    BY <2>2, SMT
  <2>4. \A S : <<>> \in Seq(S)
    BY SMT
  <2>5. /\ pc[d] # "reading" /\ pc[d] # "handing" /\ pc[d] # "ended"
        /\ pc[d] \notin {"reading", "handing"}
    BY <2>1, SMT
  <2>6. Faithful(d)
    BY <2>3 DEF Faithful
  <2> QED BY <2>1, <2>4, <2>5, <2>6 DEF Stream, Sending
<1> QED BY <1>6, <1>7, LineStarts DEF DownloadInv

LEMMA DownloadStep ==
  ASSUME DownloadInv, [Next]_vars
  PROVE  DownloadInv'
<1>1. Typed /\ LineInv /\ \A d \in Readers : Stream(d)
  BY DEF DownloadInv
<1>2. pc' \in [Readers -> Places]
  BY <1>1, PlacesStep DEF Typed
<1>3. LineInv'
  BY <1>1, LineStep DEF Typed
<1>4. CASE Commit \/ UNCHANGED vars
  <2>1. Typed'
    <3>1. CASE UNCHANGED vars
      BY <1>1, <3>1 DEF Typed, vars
    <3> QED BY <1>1, <1>4, <3>1, CommitTyped
  <2>2. ASSUME NEW d \in Readers PROVE Stream(d)'
    <3>1. SameTask(d) /\ taken'[d] = taken[d] /\ channel'[d] = channel[d]
      BY <1>4 DEF Commit, vars, task, SameTask, SameFile
    <3> QED BY <1>1, <3>1, StreamApart
  <2> QED BY <1>3, <2>1, <2>2 DEF DownloadInv
<1>5. ASSUME NEW d \in Readers, Steps(d) PROVE DownloadInv'
  <2>1. Typed'
    BY <1>1, <1>2, <1>5, StepsTyped
  <2>2. ASSUME NEW e \in Readers PROVE Stream(e)'
    <3>1. CASE e = d
      BY <1>1, <1>5, <3>1, StreamStep
    <3>2. CASE e # d
      <4>1. SameTask(e) /\ taken'[e] = taken[e] /\ channel'[e] = channel[e]
        BY <1>1, <1>5, <3>2, TypedShapes, OthersApart
      <4> QED BY <1>1, <4>1, StreamApart
    <3> QED BY <3>1, <3>2
  <2> QED BY <1>3, <2>1, <2>2 DEF DownloadInv
<1> QED BY <1>4, <1>5 DEF Next, Steps

LEMMA DownloadShows ==
  ASSUME DownloadInv
  PROVE  SentIsOneRevision
<1>1. Typed /\ LineInv /\ \A d \in Readers : Stream(d)
  BY DEF DownloadInv
<1>2. TypeOK
  BY <1>1, TypesHold
<1>3. ASSUME NEW d \in Readers, NEW i \in DOMAIN Sent(d)
      PROVE  IF Sent(d)[i] = Failed THEN i = Len(Sent(d))
             ELSE Sent(d)[i] = Piece(IF i = 1 THEN snap[d].rev ELSE None, Part(Whole(d), i))
  <2>1. Sent(d) \in Seq(Sendable(d)) /\ Faithful(d)
    BY <1>1, SentIs DEF Stream, Sending
  <2>2. DOMAIN Sent(d) = 1..Len(Sent(d))
    BY <2>1, SMT
  <2> QED BY <2>1, <2>2 DEF Faithful, PieceOf
<1>4. ASSUME NEW d \in Readers, pc[d] = "ended", there[d], channel[d] = <<>>,
             taken[d] # <<>>, taken[d][Len(taken[d])] # Failed
      PROVE  Len(taken[d]) = Pieces(Whole(d)) \/ tardy[d]
  <2>1. taken[d] \in Seq(Sendable(d)) /\ Complete(d)
    BY <1>1, <1>4, SentIs DEF Stream
  <2>2. taken[d] \o <<>> = taken[d] /\ Len(taken[d]) # 0
    BY <1>4, <2>1, SMT
  <2>3. Sent(d) = taken[d]
    BY <1>4, <2>2 DEF Sent
  <2> QED BY <1>4, <2>1, <2>2, <2>3 DEF Complete
<1> QED BY <1>2, <1>3, <1>4 DEF SentIsOneRevision

\* SentIsOneRevision: whatever lands between the queries of Manager::export,
\* whichever of them fails and however its reader takes, stalls or leaves, what a
\* download sends is the pages of the one revision its transaction opened on, in
\* their order, and a stream that just ends has sent all of them.
THEOREM DownloadsAreOneRevision == Spec => []SentIsOneRevision
<1>1. Init => DownloadInv
  BY DownloadStarts
<1>2. DownloadInv /\ [Next]_vars => DownloadInv'
  BY DownloadStep
<1>3. DownloadInv => SentIsOneRevision
  BY DownloadShows
<1> QED BY <1>1, <1>2, <1>3, PTL DEF Spec

=============================================================================
