--------------------------- MODULE RepoWritesProofs ---------------------------
(***************************************************************************)
(* Proofs about RepoWrites, for any number of processes, calls, attempts,  *)
(* faults and crashes.                                                     *)
(***************************************************************************)
EXTENDS RepoWrites, TLAPS

\* Leaves are left to Zenon; the ones with arithmetic in them say SMT.
USE Zenon

-----------------------------------------------------------------------------
(* The inductive invariant, in parts. *)

\* A future and its task are in step, unless the future is gone; and whoever
\* is inside commit_writes, or has landed and not returned, has the turn.
TurnInv ==
  \A r \in Requests :
    /\ task[r] \in CommitSteps \/ pc[r] \in Landed => turn[ServerOf[r]] = r
    /\ task[r] \in CommitSteps => pc[r] \in {"committing", "gone"}
    /\ task[r] = "logging" => pc[r] \in {"logging", "gone"}
    /\ task[r] = "mirroring" => pc[r] \in {"mirroring", "gone"}
    /\ pc[r] = "committing" => task[r] \in CommitSteps
    /\ pc[r] = "logging" => task[r] = "logging"

\* A call reads the root at most ATTEMPTS times.
TriesInv ==
  \A r \in Requests :
    /\ pc[r] \in {"idle", "waiting"} => tries[r] = 0
    /\ task[r] = "reading" => tries[r] < ATTEMPTS

\* What is about to land follows what it was built on.
BuiltInv ==
  \A r \in Requests : task[r] = "landing" =>
    /\ next[r].since = from[r].rev
    /\ next[r].rev > from[r].rev
    /\ next[r].by = r
    /\ next[r].holds = from[r].holds \cup {r}

\* A call is in the repository from the moment it lands and not before.
HoldsInv ==
  \A r \in Requests :
    /\ pc[r] \in Landed \cup {"answered"} => r \in root.holds
    /\ pc[r] \in Refused \cup {"skipped", "idle", "waiting", "committing"} => r \notin root.holds
    /\ task[r] \in CommitSteps => r \notin root.holds

\* In one process nothing moves the root under a commit.
SoloInv ==
  \A r \in Requests :
    /\ task[r] \in {"loading", "applying", "landing"} => from[r] = root
    /\ task[r] = "reading" => tries[r] = 0
    /\ tries[r] <= 1
    /\ pc[r] \notin {"blockless", "contended"}

\* With callers that stay as well, what has landed and is not in the log is the
\* root, and everything in the log is older.
LogInv ==
  /\ \A i \in 1..Len(log) : log[i].rev <= root.rev
  /\ \A r \in Requests :
       /\ pc[r] = "gone" => task[r] = "none"
       /\ pc[r] \in {"landed", "logging"} =>
            next[r] = root /\ \A i \in 1..Len(log) : log[i].rev < root.rev
  /\ LogInOrder

Inv == TypeOK /\ TurnInv /\ TriesInv /\ BuiltInv /\ HoldsInv

-----------------------------------------------------------------------------
(* Facts about the helpers. *)

\* Clock::mint stays inside the field, and goes up where there is room.
LEMMA MintFacts ==
  ASSUME NEW last \in Stamps, NEW now \in 0..MICROS
  PROVE  /\ Mint(last, now) \in Stamps
         /\ last < MICROS - 1 => Mint(last, now) > last
BY NumbersAssumption, SMT DEF Mint, Larger, Smaller, Stamps

\* mint_after starts from the later of the clock and the revision followed.
LEMMA LargerFacts ==
  ASSUME NEW a \in Stamps, NEW b \in Stamps
  PROVE  Larger(a, b) \in Stamps /\ Larger(a, b) >= a /\ Larger(a, b) >= b
BY NumbersAssumption, SMT DEF Larger, Stamps

\* Appending keeps a sequence a sequence, and what was there.
LEMMA AppendType ==
  ASSUME NEW S, NEW seq \in Seq(S), NEW e \in S
  PROVE  /\ Append(seq, e) \in Seq(S)
         /\ Len(seq) \in Nat
         /\ Len(Append(seq, e)) = Len(seq) + 1
         /\ \A i \in 1..Len(seq) : Append(seq, e)[i] = seq[i]
         /\ Append(seq, e)[Len(seq) + 1] = e
BY SMT

\* What is in a sequence is what it is a sequence of.
LEMMA ElementType ==
  ASSUME NEW S, NEW seq \in Seq(S), NEW i \in 1..Len(seq)
  PROVE  seq[i] \in S
BY SMT

\* A commit is its four fields.
LEMMA CommitShape ==
  ASSUME NEW c \in Commits
  PROVE  c = [rev |-> c.rev, since |-> c.since, by |-> c.by, holds |-> c.holds]
BY DEF Commits

\* The types the control of a call needs, apart from the rest.
LEMMA ControlTypes ==
  TypeOK => /\ pc \in [Requests -> Futures]
            /\ task \in [Requests -> Tasks]
            /\ turn \in [Servers -> Requests \cup {None}]
            /\ tries \in [Requests -> 0..ATTEMPTS]
BY DEF TypeOK

-----------------------------------------------------------------------------
(* The shapes a step can have. *)

\* A step inside commit_writes that does not land: the task goes on, or it is
\* over and the turn is let go.
Worked(r) ==
  /\ task[r] \in CommitSteps
  /\ UNCHANGED <<root, log, mirror>>
  /\ next' = next \/ \E n : next' = [next EXCEPT ![r] = n]
  /\ \/ /\ \E step \in CommitSteps : task' = [task EXCEPT ![r] = step]
        /\ UNCHANGED <<pc, turn>>
     \/ /\ task' = [task EXCEPT ![r] = "none"]
        /\ turn' = Free(r)
        /\ \/ pc[r] = "gone" /\ UNCHANGED pc
           \/ \E o \in Refused \cup {"skipped"} : pc[r] # "gone" /\ pc' = [pc EXCEPT ![r] = o]

\* The step that lands.
Landing(r) ==
  /\ task[r] = "landing"
  /\ root = from[r]
  /\ root' = next[r]
  /\ task' = [task EXCEPT ![r] = "none"]
  /\ \/ pc[r] = "gone" /\ UNCHANGED pc /\ turn' = Free(r)
     \/ pc[r] # "gone" /\ pc' = [pc EXCEPT ![r] = "landed"] /\ UNCHANGED turn
  /\ UNCHANGED <<log, next, mirror>>

\* A refusal ends the task in one of the two ways.
LEMMA FinishRefusing ==
  ASSUME NEW r \in Requests, NEW o \in Refused \cup {"skipped"}, Finish(r, o)
  PROVE  /\ task' = [task EXCEPT ![r] = "none"]
         /\ turn' = Free(r)
         /\ pc[r] = "gone" => pc' = pc
         /\ pc[r] # "gone" => pc' = [pc EXCEPT ![r] = o]
BY DEF Finish, HeldAfter, Refused

LEMMA ReadRootWorks == ASSUME NEW r \in Requests, ReadRoot(r) PROVE Worked(r)
BY DEF ReadRoot, Worked, CommitSteps

LEMMA LoadAndPlanWorks == ASSUME NEW r \in Requests, LoadAndPlan(r) PROVE Worked(r)
<1>1. task[r] \in CommitSteps /\ UNCHANGED <<root, log, next, mirror>>
  BY DEF LoadAndPlan, CommitSteps
<1>2. CASE \E o \in {"blockless", "skipped", "failed", "swapped"} : Finish(r, o)
  <2>1. PICK o \in Refused \cup {"skipped"} : Finish(r, o)
    BY <1>2 DEF Refused
  <2>2. QED
    BY <1>1, <2>1, FinishRefusing DEF Worked
<1>3. CASE task' = [task EXCEPT ![r] = "applying"] /\ UNCHANGED <<pc, turn>>
  BY <1>1, <1>3 DEF Worked, CommitSteps
<1>4. QED
  BY <1>2, <1>3 DEF LoadAndPlan

LEMMA ApplyWorks == ASSUME NEW r \in Requests, Apply(r) PROVE Worked(r)
<1>1. /\ task[r] \in CommitSteps /\ UNCHANGED <<root, log, mirror>>
      /\ next' = next \/ \E n : next' = [next EXCEPT ![r] = n]
  BY DEF Apply, CommitSteps
<1>2. CASE \E o \in {"blockless", "full"} : Finish(r, o)
  <2>1. PICK o \in Refused \cup {"skipped"} : Finish(r, o)
    BY <1>2 DEF Refused
  <2>2. QED
    BY <1>1, <2>1, FinishRefusing DEF Worked
<1>3. CASE task' = [task EXCEPT ![r] = "landing"] /\ UNCHANGED <<pc, turn>>
  BY <1>1, <1>3 DEF Worked, CommitSteps
<1>4. QED
  BY <1>2, <1>3 DEF Apply

LEMMA CommitFailsWorks == ASSUME NEW r \in Requests, CommitFails(r) PROVE Worked(r)
<1>1. task[r] \in CommitSteps /\ UNCHANGED <<root, log, next, mirror>> /\ Finish(r, "failed")
  BY DEF CommitFails
<1>2. "failed" \in Refused \cup {"skipped"}
  BY DEF Refused
<1>3. QED
  BY <1>1, <1>2, FinishRefusing DEF Worked

LEMMA LandWorks == ASSUME NEW r \in Requests, Land(r) PROVE Worked(r) \/ Landing(r)
<1>1. task[r] \in CommitSteps /\ UNCHANGED <<log, next, mirror>>
  BY DEF Land, CommitSteps
<1>2. CASE RootUnmoved(r) /\ root' = next[r] /\ Finish(r, "landed")
  BY <1>1, <1>2 DEF Land, Landing, Finish, HeldAfter, RootUnmoved
<1>3. CASE task' = [task EXCEPT ![r] = "reading"] /\ UNCHANGED <<root, pc, turn>>
  BY <1>1, <1>3 DEF Worked, CommitSteps
<1>4. CASE Finish(r, "contended") /\ UNCHANGED root
  <2>1. "contended" \in Refused \cup {"skipped"}
    BY DEF Refused
  <2>2. QED
    BY <1>1, <1>4, <2>1, FinishRefusing DEF Worked
<1>5. QED
  BY <1>2, <1>3, <1>4 DEF Land

\* Every step has one of these shapes.
LEMMA Shapes ==
  [Next]_vars =>
    \/ \E r \in Requests :
         \/ Begin(r) \/ Take(r) \/ Worked(r) \/ Landing(r)
         \/ StartLog(r) \/ AppendLog(r) \/ UpdateRoot(r) \/ HangUp(r)
    \/ \E s \in Servers : RecordKey(s) \/ Crash(s)
    \/ UNCHANGED vars
BY ReadRootWorks, LoadAndPlanWorks, ApplyWorks, CommitFailsWorks, LandWorks DEF Next, Step

-----------------------------------------------------------------------------
(* Type correctness. *)

\* The types of everything but a call's control.
DataOK ==
  /\ root \in Commits
  /\ clock \in [Servers -> Stamps]
  /\ swap \in [Requests -> Commits \cup {None}]
  /\ from \in [Requests -> Commits]
  /\ next \in [Requests -> Commits]
  /\ tries \in [Requests -> 0..ATTEMPTS]
  /\ log \in Seq(Entries)
  /\ mirror \in Commits
  /\ faults \in 0..MaxFaults
  /\ crashes \in 0..MaxCrashes

LEMMA TypeInit == Init => TypeOK
<1> SUFFICES ASSUME Init PROVE TypeOK
  OBVIOUS
<1>1. Genesis \in Commits /\ 0 \in Stamps
  BY NumbersAssumption, SMT DEF Genesis, Commits, Stamps
<1>2. "idle" \in Futures /\ "none" \in Tasks
  BY DEF Futures, Tasks
<1>3. 0 \in 0..ATTEMPTS /\ 0 \in 0..MaxFaults /\ 0 \in 0..MaxCrashes
  BY NumbersAssumption, SMT
<1>4. log \in Seq(Entries)
  BY SMT DEF Init
<1>5. QED
  BY <1>1, <1>2, <1>3, <1>4 DEF Init, TypeOK

LEMMA ControlStep ==
  TypeOK /\ [Next]_vars => /\ pc' \in [Requests -> Futures]
                           /\ task' \in [Requests -> Tasks]
                           /\ turn' \in [Servers -> Requests \cup {None}]
<1> DEFINE Control == /\ pc \in [Requests -> Futures]
                      /\ task \in [Requests -> Tasks]
                      /\ turn \in [Servers -> Requests \cup {None}]
<1> SUFFICES ASSUME TypeOK, [Next]_vars PROVE Control'
  OBVIOUS
<1>0. Control
  BY ControlTypes
<1>1. ASSUME NEW r \in Requests, Begin(r) PROVE Control'
  BY <1>0, <1>1 DEF Begin, Futures
<1>2. ASSUME NEW r \in Requests, Take(r) PROVE Control'
  <2>1. "committing" \in Futures /\ "reading" \in Tasks
    BY DEF Futures, Tasks, CommitSteps
  <2>2. QED
    BY <1>0, <1>2, <2>1, ServersAssumption DEF Take
<1>3. ASSUME NEW r \in Requests, Worked(r) PROVE Control'
  BY <1>0, <1>3, SMT DEF Worked, Free, Futures, Answers, Tasks
<1>4. ASSUME NEW r \in Requests, Landing(r) PROVE Control'
  BY <1>0, <1>4 DEF Landing, Free, Futures, Landed, Tasks
<1>5. ASSUME NEW r \in Requests, StartLog(r) PROVE Control'
  BY <1>0, <1>5 DEF StartLog, Futures, Landed, Tasks
<1>6. ASSUME NEW r \in Requests, AppendLog(r) PROVE Control'
  BY <1>0, <1>6 DEF AppendLog, Futures, Landed, Tasks
<1>7. ASSUME NEW r \in Requests, UpdateRoot(r) PROVE Control'
  BY <1>0, <1>7 DEF UpdateRoot, Free, Futures, Answers, Tasks
<1>8. ASSUME NEW r \in Requests, HangUp(r) PROVE Control'
  <2>1. "gone" \in Futures
    BY DEF Futures
  <2>2. QED
    BY <1>0, <1>8, <2>1, ServersAssumption DEF HangUp, Free
<1>9. ASSUME NEW s \in Servers, RecordKey(s) PROVE Control'
  BY <1>0, <1>9 DEF RecordKey
<1>10. ASSUME NEW s \in Servers, Crash(s) PROVE Control'
  BY <1>0, <1>10 DEF Crash, Futures, Tasks
<1>11. CASE UNCHANGED vars
  BY <1>0, <1>11 DEF vars
<1>12. QED
  BY <1>1, <1>2, <1>3, <1>4, <1>5, <1>6, <1>7, <1>8, <1>9, <1>10, <1>11, Shapes

LEMMA DataStep == TypeOK /\ TriesInv /\ [Next]_vars => DataOK'
<1> SUFFICES ASSUME TypeOK, TriesInv, [Next]_vars PROVE DataOK'
  OBVIOUS
<1>0. DataOK
  BY DEF TypeOK, DataOK
<1>1. ASSUME NEW r \in Requests, Begin(r) PROVE DataOK'
  BY <1>0, <1>1, SMT DEF Begin, DataOK
<1>2. ASSUME NEW r \in Requests, Take(r) PROVE DataOK'
  BY <1>0, <1>2 DEF Take, DataOK
<1>3. ASSUME NEW r \in Requests, ReadRoot(r) PROVE DataOK'
  <2>1. tries[r] + 1 \in 0..ATTEMPTS
    <3>1. tries[r] \in 0..ATTEMPTS /\ tries[r] < ATTEMPTS
      BY <1>3, <1>0 DEF ReadRoot, TriesInv, DataOK
    <3>2. QED
      BY <3>1, NumbersAssumption, SMT
  <2>2. QED
    BY <1>3, <1>0, <2>1 DEF ReadRoot, DataOK
<1>4. ASSUME NEW r \in Requests, LoadAndPlan(r) PROVE DataOK'
  BY <1>0, <1>4 DEF LoadAndPlan, DataOK
<1>5. ASSUME NEW r \in Requests, Apply(r) PROVE DataOK'
  <2> DEFINE s == ServerOf[r]
             last == Larger(clock[s], from[r].rev)
  <2>1. s \in Servers /\ last \in Stamps /\ from[r].rev \in Int /\ from[r].holds \in SUBSET Requests
    <3>1. s \in Servers /\ clock \in [Servers -> Stamps] /\ from[r] \in Commits
      BY <1>0, ServersAssumption DEF DataOK
    <3>2. clock[s] \in Stamps /\ from[r].rev \in Stamps /\ from[r].holds \in SUBSET Requests
      BY <3>1 DEF Commits
    <3>3. last \in Stamps
      BY <3>2, LargerFacts
    <3>4. QED
      BY <3>1, <3>2, <3>3, SMT DEF Stamps
  <2>2. clock' \in [Servers -> Stamps]
    <3>1. CASE UNCHANGED clock \/ clock' = [clock EXCEPT ![s] = last]
      BY <1>0, <2>1, <3>1 DEF DataOK
    <3>2. CASE \E now \in 0..MICROS : clock' = [clock EXCEPT ![s] = Mint(last, now)]
      BY <1>0, <2>1, <3>2, MintFacts, SMT DEF DataOK
    <3>3. QED
      BY <1>5, <3>1, <3>2 DEF Apply
  <2>3. next' \in [Requests -> Commits]
    <3>1. [rev |-> clock'[s], since |-> from[r].rev, by |-> r, holds |-> from[r].holds \cup {r}] \in Commits
      BY <2>1, <2>2 DEF Commits
    <3>2. next \in [Requests -> Commits]
      BY <1>0 DEF DataOK
    <3>3. QED
      BY <1>5, <3>1, <3>2 DEF Apply
  <2>4. QED
    BY <1>5, <1>0, <2>2, <2>3 DEF Apply, DataOK
<1>6. ASSUME NEW r \in Requests, Land(r) PROVE DataOK'
  BY <1>0, <1>6 DEF Land, DataOK
<1>7. ASSUME NEW r \in Requests, CommitFails(r) PROVE DataOK'
  <2>1. faults' \in 0..MaxFaults
    BY <1>7, <1>0, NumbersAssumption, SMT DEF CommitFails, DataOK
  <2>2. QED
    BY <1>7, <1>0, <2>1 DEF CommitFails, DataOK
<1>8. ASSUME NEW r \in Requests, StartLog(r) PROVE DataOK'
  BY <1>0, <1>8 DEF StartLog, DataOK
<1>9. ASSUME NEW r \in Requests, AppendLog(r) PROVE DataOK'
  <2>1. Entry(r) \in Entries
    BY <1>0 DEF Entry, Entries, DataOK, Commits
  <2>2. log' \in Seq(Entries)
    <3>1. log \in Seq(Entries)
      BY <1>0 DEF DataOK
    <3>2. CASE log' = Append(log, Entry(r))
      BY <2>1, <3>1, <3>2, AppendType
    <3>3. CASE UNCHANGED log
      BY <3>1, <3>3
    <3>4. QED
      BY <1>9, <3>2, <3>3 DEF AppendLog
  <2>3. faults' \in 0..MaxFaults
    BY <1>9, <1>0, NumbersAssumption, SMT DEF AppendLog, DataOK
  <2>4. QED
    BY <1>9, <1>0, <2>2, <2>3 DEF AppendLog, DataOK
<1>10. ASSUME NEW r \in Requests, UpdateRoot(r) PROVE DataOK'
  <2>1. faults' \in 0..MaxFaults
    BY <1>10, <1>0, NumbersAssumption, SMT DEF UpdateRoot, DataOK
  <2>2. QED
    BY <1>10, <1>0, <2>1 DEF UpdateRoot, DataOK
<1>11. ASSUME NEW r \in Requests, HangUp(r) PROVE DataOK'
  BY <1>0, <1>11 DEF HangUp, DataOK
<1>12. ASSUME NEW s \in Servers, RecordKey(s) PROVE DataOK'
  <2>1. clock' \in [Servers -> Stamps]
    BY <1>12, <1>0, MintFacts, SMT DEF RecordKey, DataOK
  <2>2. QED
    BY <1>12, <1>0, <2>1 DEF RecordKey, DataOK
<1>13. ASSUME NEW s \in Servers, Crash(s) PROVE DataOK'
  <2>1. crashes' \in 0..MaxCrashes /\ 0 \in Stamps
    BY <1>13, <1>0, NumbersAssumption, SMT DEF Crash, DataOK, Stamps
  <2>2. QED
    BY <1>13, <1>0, <2>1 DEF Crash, DataOK
<1>14. CASE UNCHANGED vars
  BY <1>0, <1>14 DEF vars, DataOK
<1>15. QED
  BY <1>1, <1>2, <1>3, <1>4, <1>5, <1>6, <1>7, <1>8, <1>9, <1>10, <1>11, <1>12, <1>13, <1>14, SMT
  DEF Next, Step

LEMMA TypeStep == TypeOK /\ TriesInv /\ [Next]_vars => TypeOK'
BY ControlStep, DataStep DEF TypeOK, DataOK

-----------------------------------------------------------------------------
(* The rest of the invariant, step by step. *)

LEMMA TurnStep == TypeOK /\ TurnInv /\ [Next]_vars => TurnInv'
<1> SUFFICES ASSUME TypeOK, TurnInv, [Next]_vars PROVE TurnInv'
  OBVIOUS
<1>0. /\ pc \in [Requests -> Futures]
      /\ task \in [Requests -> Tasks]
      /\ turn \in [Servers -> Requests \cup {None}]
      /\ ServerOf \in [Requests -> Servers]
  BY ControlTypes, ServersAssumption
<1>1. ASSUME NEW r \in Requests, Begin(r) PROVE TurnInv'
  BY <1>0, <1>1 DEF Begin, TurnInv, CommitSteps, Landed
<1>2. ASSUME NEW r \in Requests, Take(r) PROVE TurnInv'
  BY <1>0, <1>2, NoneAssumption DEF Take, TurnInv, CommitSteps, Landed, TurnFree
<1>3. ASSUME NEW r \in Requests, Worked(r) PROVE TurnInv'
  BY <1>0, <1>3, SMT DEF Worked, TurnInv, CommitSteps, Landed, Free, Refused
<1>4. ASSUME NEW r \in Requests, Landing(r) PROVE TurnInv'
  BY <1>0, <1>4, SMT DEF Landing, TurnInv, CommitSteps, Landed, Free
<1>5. ASSUME NEW r \in Requests, StartLog(r) PROVE TurnInv'
  BY <1>0, <1>5 DEF StartLog, TurnInv, CommitSteps, Landed
<1>6. ASSUME NEW r \in Requests, AppendLog(r) PROVE TurnInv'
  BY <1>0, <1>6, SMT DEF AppendLog, TurnInv, CommitSteps, Landed
<1>7. ASSUME NEW r \in Requests, UpdateRoot(r) PROVE TurnInv'
  BY <1>0, <1>7, SMT DEF UpdateRoot, TurnInv, CommitSteps, Landed, Free
<1>8. ASSUME NEW r \in Requests, HangUp(r) PROVE TurnInv'
  BY <1>0, <1>8, SMT DEF HangUp, TurnInv, CommitSteps, Landed, LetGoByLeaving, Free
<1>9. ASSUME NEW s \in Servers, RecordKey(s) PROVE TurnInv'
  BY <1>0, <1>9 DEF RecordKey, TurnInv, CommitSteps, Landed
<1>10. ASSUME NEW s \in Servers, Crash(s) PROVE TurnInv'
  BY <1>0, <1>10 DEF Crash, TurnInv, CommitSteps, Landed, Answers, Refused
<1>11. CASE UNCHANGED vars
  BY <1>0, <1>11 DEF vars, TurnInv, CommitSteps, Landed
<1>12. QED
  BY <1>1, <1>2, <1>3, <1>4, <1>5, <1>6, <1>7, <1>8, <1>9, <1>10, <1>11, Shapes

LEMMA TriesStep == TypeOK /\ TurnInv /\ TriesInv /\ [Next]_vars => TriesInv'
<1> SUFFICES ASSUME TypeOK, TurnInv, TriesInv, [Next]_vars PROVE TriesInv'
  OBVIOUS
<1>0. /\ pc \in [Requests -> Futures]
      /\ task \in [Requests -> Tasks]
      /\ tries \in [Requests -> 0..ATTEMPTS]
  BY ControlTypes
<1>1. ASSUME NEW r \in Requests, Begin(r) PROVE TriesInv'
  BY <1>0, <1>1 DEF Begin, TriesInv
<1>2. ASSUME NEW r \in Requests, Take(r) PROVE TriesInv'
  BY <1>0, <1>2, NumbersAssumption, SMT DEF Take, TriesInv
<1>3. ASSUME NEW r \in Requests, ReadRoot(r) PROVE TriesInv'
  BY <1>0, <1>3 DEF ReadRoot, TriesInv, TurnInv, CommitSteps
<1>4. ASSUME NEW r \in Requests, LoadAndPlan(r) PROVE TriesInv'
  BY <1>0, <1>4 DEF LoadAndPlan, TriesInv, Finish
<1>5. ASSUME NEW r \in Requests, Apply(r) PROVE TriesInv'
  BY <1>0, <1>5 DEF Apply, TriesInv, Finish
<1>6. ASSUME NEW r \in Requests, Land(r) PROVE TriesInv'
  BY <1>0, <1>6, SMT DEF Land, TriesInv, Finish, TurnInv, CommitSteps
<1>7. ASSUME NEW r \in Requests, CommitFails(r) PROVE TriesInv'
  BY <1>0, <1>7 DEF CommitFails, TriesInv, Finish
<1>8. ASSUME NEW r \in Requests, StartLog(r) PROVE TriesInv'
  BY <1>0, <1>8 DEF StartLog, TriesInv
<1>9. ASSUME NEW r \in Requests, AppendLog(r) PROVE TriesInv'
  BY <1>0, <1>9 DEF AppendLog, TriesInv
<1>10. ASSUME NEW r \in Requests, UpdateRoot(r) PROVE TriesInv'
  BY <1>0, <1>10 DEF UpdateRoot, TriesInv
<1>11. ASSUME NEW r \in Requests, HangUp(r) PROVE TriesInv'
  BY <1>0, <1>11 DEF HangUp, TriesInv
<1>12. ASSUME NEW s \in Servers, RecordKey(s) PROVE TriesInv'
  BY <1>0, <1>12 DEF RecordKey, TriesInv
<1>13. ASSUME NEW s \in Servers, Crash(s) PROVE TriesInv'
  BY <1>0, <1>13 DEF Crash, TriesInv
<1>14. CASE UNCHANGED vars
  BY <1>0, <1>14 DEF vars, TriesInv
<1>15. QED
  BY <1>1, <1>2, <1>3, <1>4, <1>5, <1>6, <1>7, <1>8, <1>9, <1>10, <1>11, <1>12, <1>13, <1>14, SMT
  DEF Next, Step

LEMMA BuiltStep == TypeOK /\ BuiltInv /\ [Next]_vars => BuiltInv'
<1> SUFFICES ASSUME TypeOK, BuiltInv, [Next]_vars PROVE BuiltInv'
  OBVIOUS
<1>0. /\ task \in [Requests -> Tasks]
      /\ from \in [Requests -> Commits]
      /\ next \in [Requests -> Commits]
  BY DEF TypeOK
<1>1. ASSUME NEW r \in Requests, Begin(r) PROVE BuiltInv'
  BY <1>0, <1>1 DEF Begin, BuiltInv
<1>2. ASSUME NEW r \in Requests, Take(r) PROVE BuiltInv'
  BY <1>0, <1>2 DEF Take, BuiltInv
<1>3. ASSUME NEW r \in Requests, ReadRoot(r) PROVE BuiltInv'
  BY <1>0, <1>3 DEF ReadRoot, BuiltInv
<1>4. ASSUME NEW r \in Requests, LoadAndPlan(r) PROVE BuiltInv'
  BY <1>0, <1>4, SMTT(30) DEF LoadAndPlan, BuiltInv, Finish
<1>5. ASSUME NEW r \in Requests, Apply(r) PROVE BuiltInv'
  <2> DEFINE s == ServerOf[r]
             last == Larger(clock[s], from[r].rev)
  <2>1. CASE task' = [task EXCEPT ![r] = "none"] /\ UNCHANGED next
    BY <1>0, <1>5, <2>1 DEF Apply, BuiltInv
  <2>2. CASE /\ last < MICROS - 1
             /\ \E now \in 0..MICROS : clock' = [clock EXCEPT ![s] = Mint(last, now)]
             /\ next' = [next EXCEPT ![r] = [rev |-> clock'[s], since |-> from[r].rev, by |-> r,
                                             holds |-> from[r].holds \cup {r}]]
             /\ task' = [task EXCEPT ![r] = "landing"]
    <3>1. s \in Servers /\ clock \in [Servers -> Stamps]
      BY ServersAssumption DEF TypeOK
    <3>2. from[r].rev \in Stamps /\ last \in Stamps /\ last >= from[r].rev
      BY <1>0, <3>1, LargerFacts DEF Commits
    <3>3. PICK now \in 0..MICROS : clock' = [clock EXCEPT ![s] = Mint(last, now)]
      BY <2>2
    <3>4. Mint(last, now) \in Stamps /\ Mint(last, now) > last
      BY <2>2, <3>2, MintFacts
    <3>5. clock'[s] > from[r].rev
      BY <3>1, <3>2, <3>3, <3>4, SMT DEF Stamps
    <3>6. UNCHANGED from
      BY <1>5, SMTT(30) DEF Apply
    <3>7. QED
      BY <1>0, <2>2, <3>5, <3>6 DEF BuiltInv
  <2>3. QED
    BY <1>5, <2>1, <2>2 DEF Apply, Finish
<1>6. ASSUME NEW r \in Requests, Land(r) PROVE BuiltInv'
  BY <1>0, <1>6 DEF Land, BuiltInv, Finish
<1>7. ASSUME NEW r \in Requests, CommitFails(r) PROVE BuiltInv'
  BY <1>0, <1>7 DEF CommitFails, BuiltInv, Finish
<1>8. ASSUME NEW r \in Requests, StartLog(r) PROVE BuiltInv'
  BY <1>0, <1>8 DEF StartLog, BuiltInv
<1>9. ASSUME NEW r \in Requests, AppendLog(r) PROVE BuiltInv'
  BY <1>0, <1>9, SMT DEF AppendLog, BuiltInv
<1>10. ASSUME NEW r \in Requests, UpdateRoot(r) PROVE BuiltInv'
  BY <1>0, <1>10 DEF UpdateRoot, BuiltInv
<1>11. ASSUME NEW r \in Requests, HangUp(r) PROVE BuiltInv'
  BY <1>0, <1>11 DEF HangUp, BuiltInv
<1>12. ASSUME NEW s \in Servers, RecordKey(s) PROVE BuiltInv'
  BY <1>0, <1>12 DEF RecordKey, BuiltInv
<1>13. ASSUME NEW s \in Servers, Crash(s) PROVE BuiltInv'
  BY <1>0, <1>13 DEF Crash, BuiltInv
<1>14. CASE UNCHANGED vars
  BY <1>0, <1>14 DEF vars, BuiltInv
<1>15. QED
  BY <1>1, <1>2, <1>3, <1>4, <1>5, <1>6, <1>7, <1>8, <1>9, <1>10, <1>11, <1>12, <1>13, <1>14, SMT
  DEF Next, Step

LEMMA HoldsStep == TypeOK /\ TurnInv /\ BuiltInv /\ HoldsInv /\ [Next]_vars => HoldsInv'
<1> SUFFICES ASSUME TypeOK, TurnInv, BuiltInv, HoldsInv, [Next]_vars PROVE HoldsInv'
  OBVIOUS
<1>0. pc \in [Requests -> Futures] /\ task \in [Requests -> Tasks]
  BY ControlTypes
<1>a. \A q \in Requests : task[q] \in CommitSteps => pc[q] \in {"committing", "gone"}
  BY DEF TurnInv
<1>b. \A q \in Requests : task[q] \in {"mirroring", "logging"} => pc[q] \in Landed \cup {"gone"}
  BY DEF TurnInv, Landed
<1>1. ASSUME NEW r \in Requests, Begin(r) PROVE HoldsInv'
  BY <1>0, <1>1 DEF Begin, HoldsInv, CommitSteps, Landed, Refused
<1>2. ASSUME NEW r \in Requests, Take(r) PROVE HoldsInv'
  BY <1>0, <1>2 DEF Take, HoldsInv, CommitSteps, Landed, Refused
<1>3. ASSUME NEW r \in Requests, Worked(r) PROVE HoldsInv'
  BY <1>0, <1>3, <1>a DEF Worked, HoldsInv, CommitSteps, Landed, Refused
<1>4. ASSUME NEW r \in Requests, Landing(r) PROVE HoldsInv'
  BY <1>0, <1>4, <1>a, SMT DEF Landing, HoldsInv, CommitSteps, Landed, Refused, BuiltInv
<1>5. ASSUME NEW r \in Requests, StartLog(r) PROVE HoldsInv'
  BY <1>0, <1>5 DEF StartLog, HoldsInv, CommitSteps, Landed, Refused
<1>6. ASSUME NEW r \in Requests, AppendLog(r) PROVE HoldsInv'
  BY <1>0, <1>6, <1>b, SMT DEF AppendLog, HoldsInv, CommitSteps, Landed, Refused
<1>7. ASSUME NEW r \in Requests, UpdateRoot(r) PROVE HoldsInv'
  BY <1>0, <1>7, <1>b, SMT DEF UpdateRoot, HoldsInv, CommitSteps, Landed, Refused
<1>8. ASSUME NEW r \in Requests, HangUp(r) PROVE HoldsInv'
  BY <1>0, <1>8 DEF HangUp, HoldsInv, CommitSteps, Landed, Refused
<1>9. ASSUME NEW s \in Servers, RecordKey(s) PROVE HoldsInv'
  BY <1>0, <1>9 DEF RecordKey, HoldsInv, CommitSteps, Landed, Refused
<1>10. ASSUME NEW s \in Servers, Crash(s) PROVE HoldsInv'
  BY <1>0, <1>10 DEF Crash, HoldsInv, CommitSteps, Landed, Refused, Answers
<1>11. CASE UNCHANGED vars
  BY <1>0, <1>11 DEF vars, HoldsInv, CommitSteps, Landed, Refused
<1>12. QED
  BY <1>1, <1>2, <1>3, <1>4, <1>5, <1>6, <1>7, <1>8, <1>9, <1>10, <1>11, Shapes

LEMMA InvInit == Init => Inv
<1> SUFFICES ASSUME Init PROVE Inv
  OBVIOUS
<1>1. TypeOK
  BY TypeInit
<1>2. TurnInv /\ TriesInv /\ BuiltInv /\ HoldsInv
  BY DEF Init, TurnInv, TriesInv, BuiltInv, HoldsInv, CommitSteps, Landed, Refused, Genesis
<1>3. QED
  BY <1>1, <1>2 DEF Inv

LEMMA InvStep == Inv /\ [Next]_vars => Inv'
BY TypeStep, TurnStep, TriesStep, BuiltStep, HoldsStep DEF Inv

\* All of the invariant that needs nothing of the processes or the callers.
THEOREM Invariance == Spec => []Inv
BY InvInit, InvStep, PTL DEF Spec

-----------------------------------------------------------------------------
(* What holds for any number of processes, and callers that come and go. *)

\* The state keeps its shape: no revision leaves the field a timestamp has, and
\* no call reads the root more than ATTEMPTS times.
THEOREM TypeCorrect == Spec => []TypeOK
BY Invariance, PTL DEF Inv

\* A caller that hangs up never lets a second commit_writes in beside its own.
THEOREM TurnsAreTaken == Spec => []CommitsTakeTurns
<1>1. Inv => CommitsTakeTurns
  BY SMT DEF Inv, TurnInv, CommitsTakeTurns
<1>2. QED
  BY <1>1, Invariance, PTL

\* No write that was answered for is ever lost to another, and none that was
\* refused is there, whoever else has the files open.
THEOREM AnswersStayTrue == Spec => []AnswersAreTrue
<1>1. Inv => AnswersAreTrue
  BY DEF Inv, HoldsInv, AnswersAreTrue
<1>2. QED
  BY <1>1, Invariance, PTL

\* A step that moves the root is a commit that landed.
LEMMA RootStep == Inv /\ [Next]_vars => [root'.since = root.rev /\ root'.rev > root.rev]_root
<1> SUFFICES ASSUME Inv, [Next]_vars
             PROVE  UNCHANGED root \/ (root'.since = root.rev /\ root'.rev > root.rev)
  OBVIOUS
<1>1. ASSUME NEW r \in Requests, Landing(r) PROVE root'.since = root.rev /\ root'.rev > root.rev
  BY <1>1 DEF Inv, BuiltInv, Landing
<1>2. \A r \in Requests : Begin(r) \/ Take(r) \/ StartLog(r) => UNCHANGED root
  BY DEF Begin, Take, StartLog
<1>3. \A r \in Requests : Worked(r) \/ AppendLog(r) \/ UpdateRoot(r) \/ HangUp(r) => UNCHANGED root
  <2>1. \A r \in Requests : Worked(r) => UNCHANGED root
    BY DEF Worked
  <2>2. \A r \in Requests : AppendLog(r) => UNCHANGED root
    BY DEF AppendLog
  <2>3. \A r \in Requests : UpdateRoot(r) \/ HangUp(r) => UNCHANGED root
    BY DEF UpdateRoot, HangUp
  <2>4. QED
    BY <2>1, <2>2, <2>3
<1>4. ASSUME NEW s \in Servers, RecordKey(s) \/ Crash(s) PROVE UNCHANGED root
  BY <1>4 DEF RecordKey, Crash
<1>5. CASE UNCHANGED vars
  BY <1>5 DEF vars
<1>6. QED
  BY <1>1, <1>2, <1>3, <1>4, <1>5, Shapes

\* Revisions follow one another without a fork and without ever sorting back,
\* whatever the system clocks say.
THEOREM RootAlwaysMovesOn == Spec => RootMovesOn
BY Invariance, RootStep, PTL DEF Spec, RootMovesOn

-----------------------------------------------------------------------------
(* What one process adds. *)

LEMMA SoloStep ==
  ASSUME OneServer, Inv, SoloInv, [Next]_vars
  PROVE  SoloInv'
<1>a. \A r, q \in Requests : task[r] \in CommitSteps /\ task[q] \in CommitSteps => r = q
  BY ServersAssumption, SMT DEF OneServer, Inv, TurnInv
<1>0. /\ pc \in [Requests -> Futures]
      /\ task \in [Requests -> Tasks]
      /\ from \in [Requests -> Commits]
      /\ tries \in [Requests -> 0..ATTEMPTS]
  BY DEF Inv, TypeOK
<1>1. ASSUME NEW r \in Requests, Begin(r) PROVE SoloInv'
  BY <1>0, <1>1 DEF Begin, SoloInv
<1>2. ASSUME NEW r \in Requests, Take(r) PROVE SoloInv'
  BY <1>0, <1>2 DEF Take, SoloInv, Inv, TriesInv
<1>3. ASSUME NEW r \in Requests, ReadRoot(r) PROVE SoloInv'
  BY <1>0, <1>3, SMT DEF ReadRoot, SoloInv
<1>4. ASSUME NEW r \in Requests, LoadAndPlan(r) PROVE SoloInv'
  BY <1>0, <1>4, SMTT(30) DEF LoadAndPlan, SoloInv, Finish
<1>5. ASSUME NEW r \in Requests, Apply(r) PROVE SoloInv'
  BY <1>0, <1>5, SMTT(30) DEF Apply, SoloInv, Finish
<1>6. ASSUME NEW r \in Requests, Land(r) PROVE SoloInv'
  BY <1>0, <1>6, <1>a, SMT DEF Land, SoloInv, Finish, RootUnmoved, CommitSteps
<1>7. ASSUME NEW r \in Requests, CommitFails(r) PROVE SoloInv'
  BY <1>0, <1>7 DEF CommitFails, SoloInv, Finish
<1>8. ASSUME NEW r \in Requests, StartLog(r) PROVE SoloInv'
  BY <1>0, <1>8 DEF StartLog, SoloInv
<1>9. ASSUME NEW r \in Requests, AppendLog(r) PROVE SoloInv'
  BY <1>0, <1>9, SMT DEF AppendLog, SoloInv
<1>10. ASSUME NEW r \in Requests, UpdateRoot(r) PROVE SoloInv'
  BY <1>0, <1>10 DEF UpdateRoot, SoloInv
<1>11. ASSUME NEW r \in Requests, HangUp(r) PROVE SoloInv'
  BY <1>0, <1>11 DEF HangUp, SoloInv
<1>12. ASSUME NEW s \in Servers, RecordKey(s) PROVE SoloInv'
  BY <1>0, <1>12 DEF RecordKey, SoloInv
<1>13. ASSUME NEW s \in Servers, Crash(s) PROVE SoloInv'
  BY <1>0, <1>13 DEF Crash, SoloInv, Answers
<1>14. CASE UNCHANGED vars
  BY <1>0, <1>14 DEF vars, SoloInv
<1>15. QED
  BY <1>1, <1>2, <1>3, <1>4, <1>5, <1>6, <1>7, <1>8, <1>9, <1>10, <1>11, <1>12, <1>13, <1>14, SMT
  DEF Next, Step

\* One server never finds the root moved under a write, hang-ups included.
THEOREM NeverStartsOver == Spec => []OneServerNeverStartsOver
<1>1. CASE OneServer
  <2>1. Init => SoloInv
    BY SMT DEF Init, SoloInv
  <2>2. Inv /\ SoloInv /\ [Next]_vars => SoloInv'
    BY <1>1, SoloStep
  <2>3. SoloInv => OneServerNeverStartsOver
    BY DEF SoloInv, OneServerNeverStartsOver
  <2>4. QED
    BY <2>1, <2>2, <2>3, Invariance, PTL DEF Spec
<1>2. CASE ~OneServer
  <2>1. OneServerNeverStartsOver
    BY <1>2 DEF OneServerNeverStartsOver
  <2>2. QED
    BY <2>1, PTL
<1>3. QED
  BY <1>1, <1>2

-----------------------------------------------------------------------------
(* What one process and callers that stay add. *)

LEMMA LogStep ==
  ASSUME OneServer, Leavers = {}, Inv, LogInv, [Next]_vars
  PROVE  LogInv'
<1> DEFINE Quiet ==
      /\ UNCHANGED <<log, root>>
      /\ \A q \in Requests :
           /\ pc'[q] = "gone" => task'[q] = "none"
           /\ pc'[q] \in {"landed", "logging"} =>
                pc[q] \in {"landed", "logging"} /\ next'[q] = next[q]
<1>a. \A r, q \in Requests :
        (task[r] \in CommitSteps \/ pc[r] \in Landed) /\ (task[q] \in CommitSteps \/ pc[q] \in Landed)
          => r = q
  BY ServersAssumption, SMT DEF OneServer, Inv, TurnInv
<1>b. pc \in [Requests -> Futures] /\ task \in [Requests -> Tasks] /\ next \in [Requests -> Commits]
  BY DEF Inv, TypeOK
<1>c. Quiet => LogInv'
  BY DEF LogInv, LogInOrder
<1>d. \A q \in Requests :
        /\ pc[q] = "gone" => task[q] = "none"
        /\ task[q] = "logging" => pc[q] = "logging"
        /\ task[q] \in CommitSteps => pc[q] = "committing"
  BY DEF Inv, TurnInv, LogInv, CommitSteps
<1>e. root.rev \in Int /\ \A i \in 1..Len(log) : log[i].rev \in Int /\ log[i].rev <= root.rev
  <2>1. log \in Seq(Entries) /\ root \in Commits
    BY DEF Inv, TypeOK
  <2>2. \A i \in 1..Len(log) : log[i] \in Entries
    BY <2>1, ElementType
  <2>3. \A i \in 1..Len(log) : log[i].rev <= root.rev
    BY DEF LogInv
  <2>4. QED
    BY <2>1, <2>2, <2>3, SMTT(30) DEF Entries, Commits, Stamps
<1> HIDE DEF Quiet
<1>1. ASSUME NEW r \in Requests, Begin(r) PROVE Quiet
  BY <1>1, <1>b, <1>d DEF Quiet, Begin
<1>2. ASSUME NEW r \in Requests, Take(r) PROVE Quiet
  BY <1>2, <1>b, <1>d DEF Quiet, Take
<1>3. ASSUME NEW r \in Requests, Worked(r) PROVE Quiet
  <2>1. pc[r] = "committing"
    BY <1>3, <1>d DEF Worked
  <2>2. \A q \in Requests \ {r} : pc'[q] = pc[q] /\ task'[q] = task[q] /\ next'[q] = next[q]
    BY <1>3, <1>b DEF Worked
  <2>3. pc'[r] \notin {"landed", "logging", "gone"}
    BY <1>3, <1>b, <2>1 DEF Worked, Refused
  <2>4. UNCHANGED <<log, root>>
    BY <1>3 DEF Worked
  <2>5. QED
    BY <1>d, <2>2, <2>3, <2>4 DEF Quiet
<1>4. ASSUME NEW r \in Requests, Landing(r) PROVE LogInv'
  <2>1. root'.rev \in Int /\ root'.rev > root.rev
    <3>1. root' = next[r] /\ next[r] \in Commits
      BY <1>4, <1>b DEF Landing
    <3>2. root'.rev > root.rev
      BY <1>4 DEF Landing, Inv, BuiltInv
    <3>3. QED
      BY <3>1, <3>2, SMT DEF Commits, Stamps
  <2>2. \A i \in 1..Len(log) : log[i].rev < root'.rev /\ log[i].rev <= root'.rev
    BY <1>e, <2>1, SMT
  <2>3. UNCHANGED <<log, next>>
    BY <1>4 DEF Landing
  <2>4. \A q \in Requests \ {r} : pc[q] \notin {"landed", "logging"}
    BY <1>4, <1>a DEF Landing, CommitSteps, Landed
  <2>5. \A q \in Requests :
          /\ pc'[q] = "gone" => task'[q] = "none"
          /\ pc'[q] \in {"landed", "logging"} => q = r
    BY <1>4, <1>b, <1>d, <2>4 DEF Landing
  <2>6. next'[r] = root'
    BY <1>4, <2>3 DEF Landing
  <2>7. QED
    BY <2>2, <2>3, <2>5, <2>6 DEF LogInv, LogInOrder
<1>5. ASSUME NEW r \in Requests, StartLog(r) PROVE Quiet
  BY <1>5, <1>b, <1>d DEF Quiet, StartLog
<1>6. ASSUME NEW r \in Requests, AppendLog(r) PROVE LogInv'
  <2>1. next[r] = root /\ pc[r] = "logging" /\ \A i \in 1..Len(log) : log[i].rev < root.rev
    BY <1>6, <1>d DEF AppendLog, LogInv
  <2>2. /\ pc' = [pc EXCEPT ![r] = "mirroring"]
        /\ task' = [task EXCEPT ![r] = "mirroring"]
        /\ next' = next /\ root' = root
    BY <1>6, <2>1 DEF AppendLog
  <2>3. \A q \in Requests \ {r} : pc[q] \notin {"landed", "logging"}
    BY <1>a, <2>1 DEF Landed
  <2>4. \A q \in Requests :
          /\ pc'[q] = "gone" => task'[q] = "none"
          /\ pc'[q] \notin {"landed", "logging"}
    BY <1>b, <1>d, <2>2, <2>3
  <2>5. CASE UNCHANGED log
    BY <2>2, <2>4, <2>5 DEF LogInv, LogInOrder
  <2>6. CASE log' = Append(log, Entry(r))
    <3>1. Entry(r) \in Entries /\ Entry(r).rev = root.rev /\ log \in Seq(Entries)
      BY <1>b, <2>1 DEF Entry, Entries, Commits, Inv, TypeOK
    <3>2. /\ Len(log) \in Nat
          /\ Len(log') = Len(log) + 1
          /\ \A i \in 1..Len(log) : log'[i] = log[i]
          /\ log'[Len(log) + 1].rev = root.rev
      BY <2>6, <3>1, AppendType, SMT
    <3>3. \A i \in 1..Len(log') : i \in 1..Len(log) \/ i = Len(log) + 1
      BY <3>2, SMT
    <3>4. \A i \in 1..Len(log') : log'[i].rev <= root.rev
      BY <1>e, <3>2, <3>3, SMT
    <3>5. \A i, j \in 1..Len(log') : i < j => log'[i].rev < log'[j].rev
      <4> SUFFICES ASSUME NEW i \in 1..Len(log'), NEW j \in 1..Len(log'), i < j
                   PROVE  log'[i].rev < log'[j].rev
        OBVIOUS
      <4>1. i \in 1..Len(log)
        BY <3>2, SMT
      <4>2. CASE j \in 1..Len(log)
        BY <3>2, <4>1, <4>2 DEF LogInv, LogInOrder
      <4>3. CASE j = Len(log) + 1
        BY <2>1, <3>2, <4>1, <4>3
      <4>4. QED
        BY <3>3, <4>2, <4>3
    <3>6. QED
      BY <2>2, <2>4, <3>4, <3>5, SMTT(30) DEF LogInv, LogInOrder
  <2>7. QED
    BY <1>6, <2>5, <2>6 DEF AppendLog
<1>7. ASSUME NEW r \in Requests, UpdateRoot(r) PROVE Quiet
  BY <1>7, <1>b, <1>d DEF Quiet, UpdateRoot
<1>8. \A r \in Requests : ~HangUp(r)
  BY DEF HangUp
<1>9. ASSUME NEW s \in Servers, RecordKey(s) PROVE Quiet
  <2>1. UNCHANGED <<root, log, pc, task, next>>
    BY <1>9 DEF RecordKey
  <2>2. QED
    BY <2>1, <1>d DEF Quiet
<1>10. ASSUME NEW s \in Servers, Crash(s) PROVE Quiet
  <2>1. \A q \in Requests : task'[q] = "none" /\ pc'[q] \notin {"landed", "logging"}
    BY <1>10, ServersAssumption DEF Crash, OneServer, Answers, Refused
  <2>2. QED
    BY <1>10, <2>1 DEF Crash, Quiet
<1>11. ASSUME UNCHANGED vars PROVE Quiet
  BY <1>11, <1>d DEF Quiet, vars
<1>12. QED
  BY <1>c, <1>1, <1>2, <1>3, <1>4, <1>5, <1>6, <1>7, <1>8, <1>9, <1>10, <1>11, Shapes, SMTT(30)

\* A consumer is handed one repository's revisions in the order they were
\* written, as long as one process writes and its callers stay.
THEOREM LogStaysInOrder ==
  ASSUME OneServer, Leavers = {}
  PROVE  Spec => []LogInOrder
<1>1. Init => LogInv
  BY SMT DEF Init, LogInv, LogInOrder
<1>2. Inv /\ LogInv /\ [Next]_vars => LogInv'
  BY LogStep
<1>3. LogInv => LogInOrder
  BY DEF LogInv
<1>4. QED
  BY <1>1, <1>2, <1>3, Invariance, PTL DEF Spec

\* One server whose callers stay makes one revision at a time and has each in
\* the log, or gives it up, before the next: RepoWrites implements RevisionLog.
THEOREM WritesAreSerial ==
  ASSUME OneServer, Leavers = {}
  PROVE  Spec => OneRevisionAtATime
<1>1. Init => Serial!Init
  BY DEF Init, Serial!Init, Genesis, Pending, Unlogged
<1>2. Init => LogInv
  BY SMT DEF Init, LogInv, LogInOrder
<1>3. Inv /\ LogInv /\ [Next]_vars => LogInv'
  BY LogStep
<1>4. ASSUME Inv, LogInv, LogInv', [Next]_vars
      PROVE  [Serial!Next]_<<root, Pending, log>>
  <2> DEFINE Stutter == UNCHANGED <<root, Pending, log>>
  <2>1. /\ Pending = IF Unlogged = {} THEN None ELSE root
        /\ Pending' = IF Unlogged' = {} THEN None ELSE root'
    BY <1>4 DEF LogInv, Pending, Unlogged
  <2>2. /\ pc \in [Requests -> Futures] /\ task \in [Requests -> Tasks]
        /\ next \in [Requests -> Commits] /\ root \in Commits /\ None \notin Commits
    BY <1>4, NoneAssumption DEF Inv, TypeOK
  <2>3. \A q \in Requests : pc[q] = "gone" => task[q] = "none"
    BY <1>4 DEF LogInv
  <2>4. ASSUME UNCHANGED <<root, log>>, (Unlogged' = {}) <=> (Unlogged = {}) PROVE Stutter
    BY <2>1, <2>4
  <2>a. /\ \A q \in Requests : task[q] \in CommitSteps => pc[q] = "committing"
        /\ \A q \in Requests : task[q] = "logging" => pc[q] = "logging"
        /\ \A q \in Requests : task[q] = "mirroring" => pc[q] = "mirroring"
    BY <1>4, <2>3 DEF Inv, TurnInv, CommitSteps
  <2>b. \A r, q \in Requests :
          (task[r] \in CommitSteps \/ pc[r] \in Landed) /\ (task[q] \in CommitSteps \/ pc[q] \in Landed)
            => r = q
    BY <1>4, ServersAssumption, SMT DEF OneServer, Inv, TurnInv
  <2>5. ASSUME UNCHANGED <<root, log>>, Unlogged # {}, Unlogged' = {} PROVE Serial!Next
    BY <2>1, <2>2, <2>5 DEF Serial!Next, Serial!Lose
  <2>6. ASSUME NEW r \in Requests, Landing(r) PROVE Serial!Next
    <3>1. pc[r] = "committing" /\ r \notin root.holds
      BY <1>4, <2>6, <2>a DEF Inv, HoldsInv, Landing, CommitSteps
    <3>2. Unlogged = {}
      BY <2>6, <2>b, <3>1 DEF Unlogged, Landing, CommitSteps, Landed
    <3>3. r \in Unlogged'
      BY <2>2, <2>6, <3>1 DEF Unlogged, Landing
    <3>4. next[r] \in Commits /\ root' = next[r]
      BY <2>2, <2>6 DEF Landing
    <3>5. /\ root'.since = root.rev /\ root'.rev > root.rev
          /\ root'.by = r /\ root'.holds = root.holds \cup {r}
      BY <1>4, <2>6 DEF Inv, BuiltInv, Landing
    <3>6. root'.rev \in (root.rev + 1)..(MICROS - 1)
      BY <2>2, <3>4, <3>5, NumbersAssumption, SMTT(30) DEF Commits, Stamps
    <3>7. root' = [rev |-> root'.rev, since |-> root.rev, by |-> r, holds |-> root.holds \cup {r}]
      BY <3>4, <3>5, CommitShape
    <3>8. Pending = None /\ Pending' = root' /\ UNCHANGED log
      BY <2>1, <2>6, <3>2, <3>3 DEF Landing
    <3>9. Serial!Commit(r)
      BY <3>1, <3>6, <3>7, <3>8 DEF Serial!Commit
    <3>10. QED
      BY <3>9 DEF Serial!Next
  <2>7. ASSUME NEW r \in Requests, AppendLog(r) PROVE Serial!Next
    <3>1. pc[r] = "logging"
      BY <2>7, <2>a DEF AppendLog
    <3>2. Unlogged = {r}
      BY <2>b, <3>1 DEF Unlogged, Landed
    <3>3. pc' = [pc EXCEPT ![r] = "mirroring"] /\ root' = root /\ next[r] = root
      BY <1>4, <2>7, <3>1 DEF AppendLog, LogInv
    <3>4. Unlogged' = {}
      BY <2>2, <3>2, <3>3 DEF Unlogged
    <3>5. CASE log' = Append(log, Entry(r))
      <4>1. Pending = root /\ Pending' = None
        BY <2>1, <3>2, <3>4
      <4>2. QED
        BY <2>2, <3>3, <3>5, <4>1 DEF Serial!Next, Serial!Publish, Entry
    <3>6. CASE UNCHANGED log
      BY <2>5, <3>2, <3>3, <3>4, <3>6
    <3>7. QED
      BY <2>7, <3>5, <3>6 DEF AppendLog
  <2>8. ASSUME NEW s \in Servers, Crash(s) PROVE Stutter \/ Serial!Next
    <3>1. Unlogged' = {}
      BY <2>8, ServersAssumption, SMTT(30) DEF Crash, Unlogged, OneServer, Answers, Refused
    <3>2. UNCHANGED <<root, log>>
      BY <2>8 DEF Crash
    <3>3. QED
      BY <2>4, <2>5, <3>1, <3>2
  <2>9. ASSUME NEW r \in Requests, Worked(r) PROVE Stutter
    <3>1. \A q \in Requests \ {r} : pc'[q] = pc[q]
      BY <2>2, <2>9 DEF Worked
    <3>2. pc[r] = "committing" /\ pc'[r] \notin {"landed", "logging"}
      BY <2>2, <2>9, <2>a DEF Worked, Refused
    <3>3. Unlogged' = Unlogged
      BY <3>1, <3>2 DEF Unlogged
    <3>4. QED
      BY <2>4, <2>9, <3>3 DEF Worked
  <2>10. ASSUME NEW r \in Requests, Begin(r) \/ Take(r) \/ StartLog(r) \/ UpdateRoot(r)
         PROVE  Stutter
    <3>1. UNCHANGED <<root, log>>
      BY <2>10 DEF Begin, Take, StartLog, UpdateRoot
    <3>2. CASE Begin(r)
      BY <2>2, <2>4, <3>1, <3>2 DEF Begin, Unlogged
    <3>3. CASE Take(r)
      BY <2>2, <2>4, <3>1, <3>3 DEF Take, Unlogged
    <3>4. CASE StartLog(r)
      BY <2>2, <2>4, <3>1, <3>4 DEF StartLog, Unlogged
    <3>5. CASE UpdateRoot(r)
      BY <2>2, <2>4, <2>a, <3>1, <3>5 DEF UpdateRoot, Unlogged
    <3>6. QED
      BY <2>10, <3>2, <3>3, <3>4, <3>5, SMTT(30)
  <2>11. ASSUME NEW s \in Servers, RecordKey(s) PROVE Stutter
    BY <2>4, <2>11 DEF RecordKey, Unlogged
  <2>12. ASSUME UNCHANGED vars PROVE Stutter
    BY <2>4, <2>12 DEF vars, Unlogged
  <2>13. \A r \in Requests : ~HangUp(r)
    BY DEF HangUp
  <2> HIDE DEF Stutter
  <2>14. Stutter \/ Serial!Next
    BY <1>4, <2>6, <2>7, <2>8, <2>9, <2>10, <2>11, <2>12, <2>13, Shapes
  <2>15. QED
    BY <2>14 DEF Stutter
<1>5. QED
  BY <1>1, <1>2, <1>3, <1>4, Invariance, PTL DEF Spec, OneRevisionAtATime, Serial!Spec

-----------------------------------------------------------------------------
(* The copy of the root. *)

\* The copy is behind a commit that its call has not yet copied.
MirrorInv ==
  /\ mirror.rev <= root.rev
  /\ \A r \in Requests : pc[r] \in Landed => next[r] = root /\ mirror.rev < root.rev

\* With one process and callers that stay, whoever copies the root is the one
\* who made it, and it is newer than the copy.
LEMMA MirrorStep ==
  ASSUME OneServer, Leavers = {}, Inv, LogInv, MirrorInv, [Next]_vars
  PROVE  MirrorInv' /\ (UNCHANGED mirror \/ mirror'.rev > mirror.rev)
<1> DEFINE Quiet ==
      /\ UNCHANGED <<mirror, root>>
      /\ \A q \in Requests : pc'[q] \in Landed => pc[q] \in Landed /\ next'[q] = next[q]
<1> DEFINE Goal == MirrorInv' /\ (UNCHANGED mirror \/ mirror'.rev > mirror.rev)
<1>a. \A r, q \in Requests :
        (task[r] \in CommitSteps \/ pc[r] \in Landed) /\ (task[q] \in CommitSteps \/ pc[q] \in Landed)
          => r = q
  BY ServersAssumption, SMT DEF OneServer, Inv, TurnInv
<1>b. /\ pc \in [Requests -> Futures] /\ task \in [Requests -> Tasks]
      /\ next \in [Requests -> Commits] /\ root \in Commits /\ mirror \in Commits
  BY DEF Inv, TypeOK
<1>c. Quiet => Goal
  BY DEF MirrorInv
<1>d. \A q \in Requests :
        /\ task[q] = "mirroring" => pc[q] = "mirroring"
        /\ task[q] = "logging" => pc[q] = "logging"
        /\ task[q] \in CommitSteps => pc[q] = "committing"
  BY DEF Inv, TurnInv, LogInv, CommitSteps
<1>e. \A o \in Answers \cup {"idle", "waiting", "committing", "gone"} : o \notin Landed
  BY SMT DEF Answers, Refused, Landed
<1> HIDE DEF Quiet
<1>1. ASSUME NEW r \in Requests, Begin(r) PROVE Quiet
  BY <1>1, <1>b, <1>e DEF Quiet, Begin
<1>2. ASSUME NEW r \in Requests, Take(r) PROVE Quiet
  BY <1>2, <1>b, <1>e DEF Quiet, Take
<1>3. ASSUME NEW r \in Requests, Worked(r) PROVE Quiet
  <2>1. pc[r] = "committing" /\ UNCHANGED <<mirror, root>>
    BY <1>3, <1>d DEF Worked
  <2>2. \A q \in Requests \ {r} : pc'[q] = pc[q] /\ next'[q] = next[q]
    BY <1>3, <1>b DEF Worked
  <2>3. pc'[r] \notin Landed
    BY <1>3, <1>b, <1>e, <2>1 DEF Worked, Answers
  <2>4. QED
    BY <2>1, <2>2, <2>3 DEF Quiet
<1>4. ASSUME NEW r \in Requests, Landing(r) PROVE Goal
  <2>1. root' = next[r] /\ next[r] \in Commits /\ UNCHANGED <<mirror, next>>
    BY <1>4, <1>b DEF Landing
  <2>2. next[r].rev > root.rev
    BY <1>4 DEF Landing, Inv, BuiltInv
  <2>3. mirror.rev < root'.rev /\ mirror.rev <= root'.rev
    BY <1>b, <2>1, <2>2, SMT DEF MirrorInv, Commits, Stamps
  <2>4. \A q \in Requests : pc'[q] \in Landed => q = r
    BY <1>4, <1>a, <1>b, <1>d, <1>e DEF Landing, CommitSteps
  <2>5. QED
    BY <2>1, <2>3, <2>4 DEF MirrorInv
<1>5. ASSUME NEW r \in Requests, StartLog(r) PROVE Quiet
  BY <1>5, <1>b DEF Quiet, StartLog, Landed
<1>6. ASSUME NEW r \in Requests, AppendLog(r) PROVE Quiet
  BY <1>6, <1>b, <1>d DEF Quiet, AppendLog, Landed
<1>7. ASSUME NEW r \in Requests, UpdateRoot(r) PROVE Goal
  <2>1. next[r] = root /\ pc[r] = "mirroring" /\ mirror.rev < root.rev /\ pc[r] \in Landed
    BY <1>7, <1>d DEF UpdateRoot, MirrorInv, Landed
  <2>2. pc' = [pc EXCEPT ![r] = "answered"] /\ UNCHANGED <<root, next>>
    BY <1>7, <2>1 DEF UpdateRoot
  <2>3. mirror' = root \/ UNCHANGED mirror
    BY <1>7, <2>1 DEF UpdateRoot
  <2>4. \A q \in Requests : pc'[q] \notin Landed
    BY <1>a, <1>b, <1>e, <2>1, <2>2 DEF Answers
  <2>5. mirror'.rev <= root'.rev
    BY <1>b, <2>2, <2>3, SMT DEF MirrorInv, Commits, Stamps
  <2>6. QED
    BY <2>1, <2>3, <2>4, <2>5 DEF MirrorInv
<1>8. \A r \in Requests : ~HangUp(r)
  BY DEF HangUp
<1>9. ASSUME NEW s \in Servers, RecordKey(s) PROVE Quiet
  BY <1>9 DEF RecordKey, Quiet
<1>10. ASSUME NEW s \in Servers, Crash(s) PROVE Quiet
  <2>1. \A q \in Requests : pc'[q] \notin Landed
    BY <1>10, <1>e, ServersAssumption DEF Crash, OneServer
  <2>2. QED
    BY <1>10, <2>1 DEF Crash, Quiet
<1>11. ASSUME UNCHANGED vars PROVE Quiet
  BY <1>11 DEF Quiet, vars
<1> HIDE DEF Goal
<1>12. QED
  <2>1. Goal
    BY <1>c, <1>1, <1>2, <1>3, <1>4, <1>5, <1>6, <1>7, <1>8, <1>9, <1>10, <1>11, Shapes, SMTT(30)
  <2>2. QED
    BY <2>1 DEF Goal

\* update_root never takes the copy back to an older revision, as long as one
\* process writes and its callers stay: it writes whatever it is given, so this
\* rests on the turn being held until it has.
THEOREM MirrorMovesOn ==
  ASSUME OneServer, Leavers = {}
  PROVE  Spec => MirrorNeverRetreats
<1>1. Init => LogInv /\ MirrorInv
  BY SMT DEF Init, LogInv, LogInOrder, MirrorInv, Genesis, Landed
<1>2. Inv /\ LogInv /\ [Next]_vars => LogInv'
  BY LogStep
<1>3. Inv /\ LogInv /\ MirrorInv /\ [Next]_vars => MirrorInv' /\ [mirror'.rev > mirror.rev]_mirror
  BY MirrorStep
<1>4. QED
  BY <1>1, <1>2, <1>3, Invariance, PTL DEF Spec, MirrorNeverRetreats

=============================================================================
