------------------------------ MODULE RepoWrites ------------------------------
(***************************************************************************)
(* Writing to one account's repository: Manager::write (src/account.rs)    *)
(* with the turn it takes, the commit it works out and swaps in            *)
(* (commit_writes, Repo::apply, Actor::commit), the log entry and the copy *)
(* of the root that follow, callers that hang up, storage that fails and   *)
(* processes that crash.                                                   *)
(*                                                                         *)
(* A call is a future that hands its slow parts to blocking tasks.         *)
(* Dropping the future does not stop the task it is waiting on, so the two *)
(* are kept apart: pc[r] is the future, task[r] the blocking task it last  *)
(* started.  The guard of the turn travels with the commit task and comes  *)
(* back to the future with its result.                                     *)
(***************************************************************************)
EXTENDS Integers, Sequences, FiniteSets

CONSTANTS Servers,     \* processes with the data directory open
          Requests,    \* calls to Manager::write, each made once
          ServerOf,    \* the process a call reaches
          Leavers,     \* calls whose caller may hang up
          MICROS,      \* one past the largest timestamp of a TID
          ATTEMPTS,    \* how often a commit is worked out before giving up
          MaxFaults,   \* bound: storage calls that fail
          MaxCrashes,  \* bound: processes that die and start again
          None         \* no request, no commit

ASSUME ServersAssumption == ServerOf \in [Requests -> Servers] /\ Leavers \subseteq Requests
ASSUME NumbersAssumption ==
  /\ MICROS \in Nat \ {0, 1}
  /\ ATTEMPTS \in Nat \ {0}
  /\ MaxFaults \in Nat
  /\ MaxCrashes \in Nat

VARIABLES root,     \* repo_root in the account's own database
          clock,    \* the last timestamp each process's TidClock minted
          turn,     \* whose the account's lock is, in each process
          pc,       \* where each call's future is
          task,     \* the blocking task each call started
          swap,     \* the commit a caller wants to write on top of
          from,     \* the root commit_writes read
          next,     \* the commit it built
          tries,    \* how many times it has read the root
          log,      \* the sequencer's entries for this account
          mirror,   \* the copy of the root in the account database
          faults,   \* storage calls that failed so far
          crashes   \* processes that died so far

vars == <<root, clock, turn, pc, task, swap, from, next, tries, log, mirror, faults, crashes>>

Stamps == 0..(MICROS - 1)

\* A commit by what tells two of them apart: its revision, the one it was
\* built on, the call that wrote it, and the calls whose writes it holds.
Commits == [rev : Stamps, since : Int, by : Requests \cup {None}, holds : SUBSET Requests]

Genesis == [rev |-> 0, since |-> -1, by |-> None, holds |-> {}]

ASSUME NoneAssumption == None \notin Requests /\ None \notin Commits

Larger(a, b) == IF a >= b THEN a ELSE b
Smaller(a, b) == IF a <= b THEN a ELSE b

\* Mutant: a timestamp past the field comes back around.
MintWrapping(last, now) == Larger(now, last + 1) % MICROS

\* Mutant: nothing holds the timestamp inside the field.
MintPast(last, now) == Larger(now, last + 1)

\* Clock::mint, for a system clock that says now.
Mint(last, now) == Smaller(Larger(now, last + 1), MICROS - 1)

CommitSteps == {"reading", "loading", "applying", "landing"}
Tasks == CommitSteps \cup {"none", "logging", "mirroring"}
Landed == {"landed", "logging", "mirroring"}
Refused == {"failed", "blockless", "swapped", "contended", "full"}
Answers == Refused \cup {"skipped", "answered"}
Futures == Landed \cup Answers \cup {"idle", "waiting", "committing", "gone"}

Free(r) == [turn EXCEPT ![ServerOf[r]] = None]

\* Mutant: the lock lets everybody in.
AlwaysFree(r) == TRUE

\* The lock Writing::turn hands out is nobody's.
TurnFree(r) == turn[ServerOf[r]] = None

Init ==
  /\ root = Genesis
  /\ clock = [s \in Servers |-> 0]
  /\ turn = [s \in Servers |-> None]
  /\ pc = [r \in Requests |-> "idle"]
  /\ task = [r \in Requests |-> "none"]
  /\ swap = [r \in Requests |-> None]
  /\ from = [r \in Requests |-> Genesis]
  /\ next = [r \in Requests |-> Genesis]
  /\ tries = [r \in Requests |-> 0]
  /\ log = <<>>
  /\ mirror = Genesis
  /\ faults = 0
  /\ crashes = 0

-----------------------------------------------------------------------------
(* The future, up to the commit. *)

\* A caller asks, perhaps naming the commit it saw.
Begin(r) ==
  /\ pc[r] = "idle"
  /\ pc' = [pc EXCEPT ![r] = "waiting"]
  /\ \E wanted \in {None, root} : swap' = [swap EXCEPT ![r] = wanted]
  /\ UNCHANGED <<root, clock, turn, task, from, next, tries, log, mirror, faults, crashes>>

\* lock_owned answers, and the commit task starts with the guard in it.
Take(r) ==
  /\ pc[r] = "waiting"
  /\ TurnFree(r)
  /\ turn' = [turn EXCEPT ![ServerOf[r]] = r]
  /\ pc' = [pc EXCEPT ![r] = "committing"]
  /\ task' = [task EXCEPT ![r] = "reading"]
  /\ UNCHANGED <<root, clock, swap, from, next, tries, log, mirror, faults, crashes>>

-----------------------------------------------------------------------------
(* commit_writes, which runs whether or not anyone still waits for it. *)

\* Mutant: the turn ends with the commit rather than with the log.
HeldForNothing(r, outcome) == FALSE

\* Mutant: a result nobody waits for keeps its guard.
HeldForever(r, outcome) == pc[r] = "gone" \/ outcome = "landed"

\* Whether the future goes on with the guard the task gives back.
HeldAfter(r, outcome) == pc[r] # "gone" /\ outcome = "landed"

\* The task is over: a future that is still there takes the guard and goes on,
\* returning (and so letting go) unless a commit landed.  With nobody waiting
\* the result and the guard inside it are dropped.
Finish(r, outcome) ==
  /\ task' = [task EXCEPT ![r] = "none"]
  /\ pc' = IF pc[r] = "gone" THEN pc ELSE [pc EXCEPT ![r] = outcome]
  /\ turn' = IF HeldAfter(r, outcome) THEN turn ELSE Free(r)

ReadRoot(r) ==
  /\ task[r] = "reading"
  /\ from' = [from EXCEPT ![r] = root]
  /\ tries' = [tries EXCEPT ![r] = @ + 1]
  /\ task' = [task EXCEPT ![r] = "loading"]
  /\ UNCHANGED <<root, clock, turn, pc, swap, next, log, mirror, faults, crashes>>

\* Repo::load and plan.  A commit forgets the block of the one it replaces, so
\* a root that has moved since it was read has nothing left to load.
LoadAndPlan(r) ==
  /\ task[r] = "loading"
  /\ \/ /\ from[r] # root
        /\ Finish(r, "blockless")
     \/ /\ from[r] = root
        /\ \E outcome \in {"skipped", "failed"} : Finish(r, outcome)
     \/ /\ from[r] = root
        /\ swap[r] \notin {None, from[r]}
        /\ Finish(r, "swapped")
     \/ /\ from[r] = root
        /\ swap[r] \in {None, from[r]}
        /\ task' = [task EXCEPT ![r] = "applying"]
        /\ UNCHANGED <<pc, turn>>
  /\ UNCHANGED <<root, clock, swap, from, next, tries, log, mirror, faults, crashes>>

\* Repo::apply.  It reads the tree as it goes, which a root that has moved may
\* or may not have left in place, and mints the revision last.
Apply(r) ==
  LET s == ServerOf[r]
      last == Larger(clock[s], from[r].rev)
  IN /\ task[r] = "applying"
     /\ \/ /\ from[r] # root
           /\ Finish(r, "blockless")
           /\ UNCHANGED <<clock, next>>
        \/ /\ last >= MICROS - 1
           /\ clock' = [clock EXCEPT ![s] = last]
           /\ Finish(r, "full")
           /\ UNCHANGED next
        \/ /\ last < MICROS - 1
           /\ \E now \in 0..MICROS : clock' = [clock EXCEPT ![s] = Mint(last, now)]
           /\ next' = [next EXCEPT ![r] = [rev |-> clock'[s], since |-> from[r].rev, by |-> r,
                                           holds |-> from[r].holds \cup {r}]]
           /\ task' = [task EXCEPT ![r] = "landing"]
           /\ UNCHANGED <<pc, turn>>
     /\ UNCHANGED <<root, swap, from, tries, log, mirror, faults, crashes>>

\* Mutant: the root moves whatever it has become.
AnyRoot(r) == TRUE

\* The row the update in Actor::landing names.
RootUnmoved(r) == root = from[r]

\* Actor::commit: one transaction, whose update moves the root only where it
\* is still the one read.
Land(r) ==
  /\ task[r] = "landing"
  /\ \/ /\ RootUnmoved(r)
        /\ root' = next[r]
        /\ Finish(r, "landed")
     \/ /\ ~RootUnmoved(r)
        /\ tries[r] < ATTEMPTS
        /\ task' = [task EXCEPT ![r] = "reading"]
        /\ UNCHANGED <<root, pc, turn>>
     \/ /\ ~RootUnmoved(r)
        /\ tries[r] >= ATTEMPTS
        /\ Finish(r, "contended")
        /\ UNCHANGED root
  /\ UNCHANGED <<clock, swap, from, next, tries, log, mirror, faults, crashes>>

\* Storage refuses a read or the transaction, which leaves nothing behind.
CommitFails(r) ==
  /\ task[r] \in CommitSteps
  /\ faults < MaxFaults
  /\ faults' = faults + 1
  /\ Finish(r, "failed")
  /\ UNCHANGED <<root, clock, swap, from, next, tries, log, mirror, crashes>>

-----------------------------------------------------------------------------
(* What follows a commit that landed. *)

\* The future has cleared the files the commit let go of and logs it.
StartLog(r) ==
  /\ pc[r] = "landed"
  /\ pc' = [pc EXCEPT ![r] = "logging"]
  /\ task' = [task EXCEPT ![r] = "logging"]
  /\ UNCHANGED <<root, clock, turn, swap, from, next, tries, log, mirror, faults, crashes>>

\* What an entry tells a consumer of the commit it carries.
Entries == [rev : Stamps, since : Int]
Entry(r) == [rev |-> next[r].rev, since |-> next[r].since]

\* The append lands or fails; either way a future still there goes on to the
\* copy of the root.
AppendLog(r) ==
  /\ task[r] = "logging"
  /\ \/ log' = Append(log, Entry(r)) /\ UNCHANGED faults
     \/ faults < MaxFaults /\ faults' = faults + 1 /\ UNCHANGED log
  /\ IF pc[r] = "gone"
     THEN task' = [task EXCEPT ![r] = "none"] /\ UNCHANGED pc
     ELSE /\ task' = [task EXCEPT ![r] = "mirroring"]
          /\ pc' = [pc EXCEPT ![r] = "mirroring"]
  /\ UNCHANGED <<root, clock, turn, swap, from, next, tries, mirror, crashes>>

\* Accounts::update_root, after which write returns.
UpdateRoot(r) ==
  /\ task[r] = "mirroring"
  /\ \/ mirror' = next[r] /\ UNCHANGED faults
     \/ faults < MaxFaults /\ faults' = faults + 1 /\ UNCHANGED mirror
  /\ task' = [task EXCEPT ![r] = "none"]
  /\ IF pc[r] = "gone"
     THEN UNCHANGED <<pc, turn>>
     ELSE pc' = [pc EXCEPT ![r] = "answered"] /\ turn' = Free(r)
  /\ UNCHANGED <<root, clock, swap, from, next, tries, log, crashes>>

-----------------------------------------------------------------------------
(* Everything around a call. *)

\* Mutant: the guard stays with the future while the commit runs.
LetGoWhileCommitting(r) == pc[r] \in Landed \cup {"committing"}

\* The guard is the future's own, so dropping the future lets go of the turn.
LetGoByLeaving(r) == pc[r] \in Landed

\* The caller goes and the future is dropped where it waits, with the guard if
\* the commit task has already given it back.
HangUp(r) ==
  /\ r \in Leavers
  /\ pc[r] \in Landed \cup {"waiting", "committing"}
  /\ pc' = [pc EXCEPT ![r] = "gone"]
  /\ turn' = IF LetGoByLeaving(r) THEN Free(r) ELSE turn
  /\ UNCHANGED <<root, clock, task, swap, from, next, tries, log, mirror, faults, crashes>>

\* Manager::record_key, or a revision of another account's.
RecordKey(s) ==
  /\ \E now \in 0..MICROS : clock' = [clock EXCEPT ![s] = Mint(clock[s], now)]
  /\ UNCHANGED <<root, turn, pc, task, swap, from, next, tries, log, mirror, faults, crashes>>

\* The process dies and starts again: what is on disk is all that is left.
Crash(s) ==
  /\ crashes < MaxCrashes
  /\ crashes' = crashes + 1
  /\ clock' = [clock EXCEPT ![s] = 0]
  /\ turn' = [turn EXCEPT ![s] = None]
  /\ pc' = [r \in Requests |->
              IF ServerOf[r] = s /\ pc[r] \notin Answers \cup {"idle"} THEN "gone" ELSE pc[r]]
  /\ task' = [r \in Requests |-> IF ServerOf[r] = s THEN "none" ELSE task[r]]
  /\ UNCHANGED <<root, swap, from, next, tries, log, mirror, faults>>

Step(r) ==
  \/ Take(r) \/ ReadRoot(r) \/ LoadAndPlan(r) \/ Apply(r) \/ Land(r)
  \/ StartLog(r) \/ AppendLog(r) \/ UpdateRoot(r)

Next ==
  \/ \E r \in Requests : Begin(r) \/ Step(r) \/ CommitFails(r) \/ HangUp(r)
  \/ \E s \in Servers : RecordKey(s) \/ Crash(s)

Spec == Init /\ [][Next]_vars

\* The runtime polls a future that is ready and runs every task it was given;
\* nobody promises that a caller arrives, hangs up or that a process dies.
FairSpec == Spec /\ \A r \in Requests : WF_vars(Step(r))

-----------------------------------------------------------------------------
(* Properties. *)

TypeOK ==
  /\ root \in Commits
  /\ clock \in [Servers -> Stamps]
  /\ turn \in [Servers -> Requests \cup {None}]
  /\ pc \in [Requests -> Futures]
  /\ task \in [Requests -> Tasks]
  /\ swap \in [Requests -> Commits \cup {None}]
  /\ from \in [Requests -> Commits]
  /\ next \in [Requests -> Commits]
  /\ tries \in [Requests -> 0..ATTEMPTS]
  /\ log \in Seq(Entries)
  /\ mirror \in Commits
  /\ faults \in 0..MaxFaults
  /\ crashes \in 0..MaxCrashes

\* Two calls of one process are never both inside commit_writes, hung up or
\* not: the guard travels with the blocking task (write, account.rs 705-723).
CommitsTakeTurns ==
  \A r, q \in Requests :
    /\ r # q
    /\ ServerOf[r] = ServerOf[q]
    /\ task[r] \in CommitSteps
    => task[q] \notin CommitSteps

\* What a caller is told is so: a write answered for is in the repository
\* whatever landed after it, and a refused one left nothing there.  The swap
\* in Actor::commit is what no second server gets past.
AnswersAreTrue ==
  \A r \in Requests :
    /\ pc[r] \in Landed \cup {"answered"} => r \in root.holds
    /\ pc[r] \in Refused \cup {"skipped"} => r \notin root.holds

\* The root only moves onto a revision built on it and sorting after it,
\* whatever the system clock says (Clock::mint_after, Actor::landing).
RootMovesOn == [][root'.since = root.rev /\ root'.rev > root.rev]_root

\* One server never finds that the root has moved under a write
\* (docs/architecture.md 143-145), even with callers hanging up.
OneServer == \A s, t \in Servers : s = t
OneServerNeverStartsOver ==
  OneServer => \A r \in Requests : tries[r] <= 1 /\ pc[r] \notin {"blockless", "contended"}

\* A consumer is handed the revisions in the order they were written: the turn
\* is held until the log has the commit (write, account.rs 708-710).
LogInOrder == \A i, j \in 1..Len(log) : i < j => log[i].rev < log[j].rev

\* The copy of the root may lag but never steps back to an older revision
\* (update_root writes whatever it is given).
MirrorNeverRetreats == [][mirror'.rev > mirror.rev]_mirror

\* Every caller that stays is answered, unless its process dies.  A request is
\* made once, so this is that from some time on none is under way.
EveryCallAnswered ==
  <>[](\A r \in Requests : pc[r] \in Answers \cup {"idle", "gone"})

\* With one server and callers that stay, the whole of it is what RevisionLog
\* promises: one revision at a time, in the log before the next is made.
Unlogged == {r \in Requests : pc[r] \in {"landed", "logging"}}
Pending == IF Unlogged = {} THEN None ELSE next[CHOOSE r \in Unlogged : TRUE]
Serial == INSTANCE RevisionLog WITH pending <- Pending
OneRevisionAtATime == Serial!Spec

=============================================================================
