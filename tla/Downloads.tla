------------------------------ MODULE Downloads ------------------------------
(***************************************************************************)
(* Downloads of one repository: Manager::export (src/account.rs), the      *)
(* pages it reads (Actor::reading, Actor::blocks_since in                  *)
(* src/store/actor.rs) and the stream they are answered as                 *)
(* (src/server/sync.rs), while commits land.                               *)
(*                                                                         *)
(* A download waits for one of a few turns, takes it into a blocking       *)
(* thread, and hands the file over piece by piece through a channel of     *)
(* ReadAhead.  The thread cannot be cancelled: a reader who leaves is      *)
(* noticed at the next piece, and one who merely stops taking pieces when  *)
(* patience runs out.                                                      *)
(***************************************************************************)
EXTENDS Rows

CONSTANTS Readers,    \* calls to getRepo
          Turns,      \* downloads_at_once
          ReadAhead,  \* pieces the channel holds
          PageSize,   \* blocks to a page
          Cids,       \* blocks, as numbers in the order of their names
          MaxRev,     \* bound: revisions of the repository
          MaxFaults,  \* bound: reads that fail
          None        \* nothing

ASSUME SizesAssumption ==
  /\ Turns \in Nat \ {0} /\ ReadAhead \in Nat \ {0} /\ PageSize \in Nat \ {0}
  /\ MaxRev \in Nat \ {0} /\ MaxFaults \in Nat
ASSUME CidsAssumption == Cids \subseteq Nat /\ IsFiniteSet(Cids)
ASSUME ReadersAssumption == IsFiniteSet(Readers)
ASSUME NoneAssumption == None \notin Seq(Cids) /\ None \notin [rev : 1..MaxRev, cid : Cids]

VARIABLES rev,      \* the revision repo_root is on, 0 before the first commit
          held,     \* repo_block: the revision that wrote each block, 0 for none
          queue,    \* the semaphore's waiters, first come first served
          free,     \* its turns
          pc,       \* where each download's task is
          since,    \* the revision each asked for blocks after
          snap,     \* what its transaction sees
          piece,    \* what it has read and not handed over
          from,     \* where its last page ended
          channel,  \* pieces handed over and not taken
          there,    \* whether its reader still is
          taken,    \* what its reader took
          tardy,    \* whether it was given up on as its reader stalled
          faults    \* reads that failed

repo == <<rev, held>>
task == <<pc, snap, piece, from>>
vars == <<rev, held, queue, free, pc, since, snap, piece, from, channel, there, taken, tardy, faults>>

\* A piece of the file: the root its header names, where it has the header, and
\* the blocks after it.  Failed stands in place of a piece.
Piece(root, cids) == [root |-> root, cids |-> cids]
Failed == [root |-> None, cids |-> None]

Init ==
  /\ rev \in {0, 1}
  /\ held \in {h \in [Cids -> {0, rev}] : (rev = 0) = (\A c \in Cids : h[c] = 0)}
  /\ queue = <<>>
  /\ free = Turns
  /\ pc = [d \in Readers |-> "idle"]
  /\ since = [d \in Readers |-> 0]
  /\ snap = [d \in Readers |-> None]
  /\ piece = [d \in Readers |-> None]
  /\ from = [d \in Readers |-> None]
  /\ channel = [d \in Readers |-> <<>>]
  /\ there = [d \in Readers |-> TRUE]
  /\ taken = [d \in Readers |-> <<>>]
  /\ tardy = [d \in Readers |-> FALSE]
  /\ faults = 0

\* A commit, as the repo_block table sees it: blocks written under the new
\* revision and blocks let go of.
Commit ==
  /\ rev < MaxRev
  /\ \E new \in SUBSET {c \in Cids : held[c] = 0} \ {{}}, gone \in SUBSET {c \in Cids : held[c] > 0} :
       held' = [c \in Cids |-> IF c \in new THEN rev + 1 ELSE IF c \in gone THEN 0 ELSE held[c]]
  /\ rev' = rev + 1
  /\ UNCHANGED <<queue, free, task, since, channel, there, taken, tardy, faults>>

-----------------------------------------------------------------------------
(* The request. *)

\* get_repo, and the wait for a turn.
Ask(d) ==
  /\ pc[d] = "idle"
  /\ \E after \in 0..rev : since' = [since EXCEPT ![d] = after]
  /\ pc' = [pc EXCEPT ![d] = "queued"]
  /\ queue' = Append(queue, d)
  /\ UNCHANGED <<repo, free, snap, piece, from, channel, there, taken, tardy, faults>>

\* A turn is free: the task starts with it.
Acquire(d) ==
  /\ queue # <<>> /\ d = Head(queue)
  /\ free > 0
  /\ free' = free - 1
  /\ queue' = Tail(queue)
  /\ pc' = [pc EXCEPT ![d] = "opening"]
  /\ UNCHANGED <<repo, since, snap, piece, from, channel, there, taken, tardy, faults>>

\* A line closes up over the place someone left.
Without(line, place) == [i \in 1..(Len(line) - 1) |-> line[IF i < place THEN i ELSE i + 1]]

\* The reader hangs up: a wait for a turn goes with it, a task does not.
Leave(d) ==
  /\ there[d] /\ pc[d] # "idle"
  /\ there' = [there EXCEPT ![d] = FALSE]
  /\ IF pc[d] = "queued"
     THEN /\ \E i \in DOMAIN queue : queue[i] = d /\ queue' = Without(queue, i)
          /\ pc' = [pc EXCEPT ![d] = "ended"]
     ELSE UNCHANGED <<queue, pc>>
  /\ channel' = [channel EXCEPT ![d] = <<>>]
  /\ UNCHANGED <<repo, free, since, snap, piece, from, taken, tardy, faults>>

\* Pieces::poll_next: the reader takes the next piece.
Take(d) ==
  /\ there[d] /\ channel[d] # <<>>
  /\ taken' = [taken EXCEPT ![d] = Append(@, Head(channel[d]))]
  /\ channel' = [channel EXCEPT ![d] = Tail(@)]
  /\ UNCHANGED <<repo, queue, free, task, since, there, tardy, faults>>

-----------------------------------------------------------------------------
(* The task. *)

\* Mutant: the turn stays behind and is not given back.
EndsHolding(d) ==
  /\ pc' = [pc EXCEPT ![d] = "ended"]
  /\ piece' = [piece EXCEPT ![d] = None]
  /\ from' = [from EXCEPT ![d] = None]
  /\ UNCHANGED free

\* The closure returns, by whichever way: the thread, the transaction, the
\* sender and the turn go with it.
Ends(d) ==
  /\ pc' = [pc EXCEPT ![d] = "ended"]
  /\ piece' = [piece EXCEPT ![d] = None]
  /\ from' = [from EXCEPT ![d] = None]
  /\ free' = free + 1

\* The database is opened, or will not open and the request is told so.
Open(d) ==
  /\ pc[d] = "opening"
  /\ \/ /\ pc' = [pc EXCEPT ![d] = "rooting"]
        /\ UNCHANGED <<free, piece, from, faults>>
     \/ /\ faults < MaxFaults
        /\ faults' = faults + 1
        /\ Ends(d)
  /\ UNCHANGED <<repo, queue, since, snap, channel, there, taken, tardy>>

\* The transaction's first read, of the root, fixes what it sees.  No root is
\* told to the request, and a request that is gone ends it.
Root(d) ==
  /\ pc[d] = "rooting"
  /\ IF rev = 0 \/ ~there[d]
     THEN Ends(d) /\ UNCHANGED snap
     ELSE /\ pc' = [pc EXCEPT ![d] = "reading"]
          /\ snap' = [snap EXCEPT ![d] = [rev |-> rev, held |-> held]]
          /\ piece' = [piece EXCEPT ![d] = Piece(rev, <<>>)]
          /\ UNCHANGED <<free, from>>
  /\ UNCHANGED <<repo, queue, since, channel, there, taken, tardy, faults>>

\* The order of the revision index, from its top.
Above(h, b, c) == h[b] > h[c] \/ (h[b] = h[c] /\ b > c)

\* What blocks_query lets through: written after since, below the mark.
RowsPast(h, after, mark) ==
  {c \in Cids : /\ h[c] > after
                /\ \/ mark = None
                   \/ h[c] < mark.rev
                   \/ h[c] = mark.rev /\ c < mark.cid}

\* Those rows in order.
Sorted(h, rows) == Ordered(rows, {p \in rows \X rows : Above(h, p[1], p[2])})

\* Mutant: each page is a read of its own.
ViewNow(d) == held

\* What the open transaction reads.
View(d) == snap[d].held

\* Actor::blocks_since: a page, and where the next starts after a full one.
Page(d) ==
  LET page == Limited(Sorted(View(d), RowsPast(View(d), since[d], from[d])), PageSize)
      last == page[Len(page)]
  IN [cids |-> page,
      next |-> IF Len(page) = PageSize THEN [rev |-> View(d)[last], cid |-> last] ELSE None]

\* A page is added to the piece, or the read fails and that is what is handed
\* over instead.
Read(d) ==
  /\ pc[d] = "reading"
  /\ \/ /\ piece' = [piece EXCEPT ![d].cids = @ \o Page(d).cids]
        /\ from' = [from EXCEPT ![d] = Page(d).next]
        /\ pc' = [pc EXCEPT ![d] = "handing"]
        /\ UNCHANGED faults
     \/ /\ faults < MaxFaults
        /\ faults' = faults + 1
        /\ piece' = [piece EXCEPT ![d] = Failed]
        /\ pc' = [pc EXCEPT ![d] = "handing"]
        /\ from' = [from EXCEPT ![d] = None]
  /\ UNCHANGED <<repo, queue, free, since, snap, channel, there, taken, tardy>>

\* hand: the piece goes into the channel, and the next page is read where the
\* last was full.
Hand(d) ==
  /\ pc[d] = "handing"
  /\ there[d] /\ Len(channel[d]) < ReadAhead
  /\ channel' = [channel EXCEPT ![d] = Append(@, piece[d])]
  /\ IF from[d] = None
     THEN Ends(d)
     ELSE /\ pc' = [pc EXCEPT ![d] = "reading"]
          /\ piece' = [piece EXCEPT ![d] = Piece(None, <<>>)]
          /\ UNCHANGED <<from, free>>
  /\ UNCHANGED <<repo, queue, since, snap, there, taken, tardy, faults>>

\* hand, to a reader who is gone.
Gone(d) ==
  /\ pc[d] = "handing"
  /\ ~there[d]
  /\ Ends(d)
  /\ UNCHANGED <<repo, queue, since, snap, channel, there, taken, tardy, faults>>

\* Mutant: the thread waits for as long as the connection stands.
NeverLapses(d) == FALSE /\ UNCHANGED vars

\* hand, whose patience ran out on a full channel.
Lapse(d) ==
  /\ pc[d] = "handing"
  /\ there[d] /\ Len(channel[d]) = ReadAhead
  /\ tardy' = [tardy EXCEPT ![d] = TRUE]
  /\ Ends(d)
  /\ UNCHANGED <<repo, queue, since, snap, channel, there, taken, faults>>

Works(d) == Open(d) \/ Root(d) \/ Read(d) \/ Hand(d) \/ Gone(d) \/ Lapse(d)

Next ==
  \/ Commit
  \/ \E d \in Readers : Ask(d) \/ Acquire(d) \/ Leave(d) \/ Take(d) \/ Works(d)

Spec == Init /\ [][Next]_vars

\* Threads run, the semaphore hands its turns out and timers go off.  Readers
\* owe nothing: no fairness on Take or Leave.
FairSpec == Spec /\ \A d \in Readers : WF_vars(Acquire(d)) /\ WF_vars(Works(d))

-----------------------------------------------------------------------------
(* Properties. *)

Working == {d \in Readers : pc[d] \in {"opening", "rooting", "reading", "handing"}}

Marks == [rev : 1..MaxRev, cid : Cids] \cup {None}
Snaps == [rev : 1..MaxRev, held : [Cids -> 0..MaxRev]]

TypeOK ==
  /\ rev \in 0..MaxRev
  /\ held \in [Cids -> 0..MaxRev]
  /\ free \in 0..Turns
  /\ pc \in [Readers -> {"idle", "queued", "opening", "rooting", "reading", "handing", "ended"}]
  /\ since \in [Readers -> 0..MaxRev]
  /\ snap \in [Readers -> Snaps \cup {None}]
  /\ from \in [Readers -> Marks]
  /\ there \in [Readers -> BOOLEAN] /\ tardy \in [Readers -> BOOLEAN]
  /\ faults \in 0..MaxFaults

\* "How many run at once is downloads_at_once", and a turn comes back by every
\* way out of the closure, whatever its reader does: turns and threads at work
\* always add up to what there is, and nobody queues who is not waiting.
TurnsAreKept ==
  /\ free + Cardinality(Working) = Turns
  /\ Len(queue) = Cardinality({d \in Readers : pc[d] = "queued"})

\* The file a reader should have: every block of the revision the download is
\* of that was written after since, newest first.
Whole(d) == Sorted(snap[d].held, RowsPast(snap[d].held, since[d], None))

\* The nth page of it, and how many pieces it takes: after a full page there is
\* one more, be it empty.
Part(file, n) == Limited(SubSeq(file, (n - 1) * PageSize + 1, Len(file)), PageSize)
Pieces(file) == Len(file) \div PageSize + 1

Sent(d) == taken[d] \o channel[d]

\* "Two queries outside one are two moments": however many commits land while
\* a download is under way, its nth piece is the nth page of one revision's
\* blocks, under a header naming that revision, and nothing follows a failure.
\* "What fails once the file is under way arrives in place of a piece of it": a
\* reader who took everything there was, after which the stream just ended, has
\* every piece of the file, unless it was given up on for leaving one to sit.
SentIsOneRevision ==
  TypeOK /\ \A d \in Readers :
    /\ \A i \in DOMAIN Sent(d) :
         IF Sent(d)[i] = Failed THEN i = Len(Sent(d))
         ELSE Sent(d)[i] = Piece(IF i = 1 THEN snap[d].rev ELSE None, Part(Whole(d), i))
    /\ (/\ pc[d] = "ended" /\ there[d] /\ channel[d] = <<>>
        /\ taken[d] # <<>> /\ taken[d][Len(taken[d])] # Failed)
       => Len(taken[d]) = Pieces(Whole(d)) \/ tardy[d]

\* "The count on its own is a few connections that never read away from
\* refusing every download": though no reader ever has to take a piece or to
\* leave, every download that waits for a turn gets one.
EveryDownloadGetsATurn == \A d \in Readers : pc[d] = "queued" ~> pc[d] # "queued"

=============================================================================
