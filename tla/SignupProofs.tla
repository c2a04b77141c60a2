---------------------------- MODULE SignupProofs ----------------------------
(***************************************************************************)
(* Signups, for any number of them, of names, codes and batches of codes,  *)
(* any of which may be hung up on, and any number of faults and crashes.   *)
(***************************************************************************)
EXTENDS Signup, FiniteSetTheorems, TLAPS

\* Leaves are left to Zenon; the ones with arithmetic in them say SMT.
USE Zenon

LEMMA Joined ==
  ASSUME NEW T, NEW s \in Seq(T), NEW t \in Seq(T)
  PROVE  s \o t \in Seq(T) /\ Len(s \o t) = Len(s) + Len(t)
BY SMT

-----------------------------------------------------------------------------
(* One signup. *)

\* What its future awaits.  A task outlives its future only where the caller
\* left, and the log is told only of an account that stands.
FutureInv(c) ==
  /\ pc[c] \in {"idle", "turned", "hashing", "created"} \cup Sending => task[c] = "none"
  /\ pc[c] = "starting" => task[c] \in {"reserve", "repo"}
  /\ pc[c] = "creating" => task[c] = "rows"
  /\ pc[c] = "releasing" => task[c] = "release"
  /\ pc[c] = "logging" => task[c] = "log"
  /\ task[c] = "log" => pc[c] \in {"logging", "over"} /\ undo[c] = "nothing" /\ said[c] = "ok" /\ c \in rows
  /\ pc[c] \in Undoing \cup {"over"} /\ c \notin left => task[c] = "none"

\* What the guard owes.
GuardInv(c) ==
  /\ pc[c] \in {"idle", "turned", "logging", "created"} => undo[c] = "nothing"
  /\ pc[c] \in Settling \cup Undoing => undo[c] = "discard"
  /\ pc[c] \in Sending => undo[c] = "keep"
  /\ pc[c] = "releasing" => undo[c] # "nothing"
  /\ pc[c] = "over" /\ c \notin left => undo[c] # "nothing"

\* What is written here.
WrittenInv(c) ==
  /\ pc[c] \in {"idle", "turned"} => c \notin reserved \cup files \cup rows
  /\ pc[c] \in {"hashing", "creating"} => c \in files
  /\ pc[c] \in Sending \cup {"releasing", "logging", "created"} => c \in files \cap rows
  /\ c \notin left \cup marred =>
       /\ pc[c] \in {"undoKey", "undoDir"} => c \notin rows
       /\ pc[c] \in {"undoDir", "logging"} \cup Ends => c \notin reserved
       /\ pc[c] = "over" /\ undo[c] = "discard" => c \notin files \cup rows

\* What send settled on against what the directory holds.  A tombstone is only
\* sent for an identifier nobody could tell about.
ToldInv(c) ==
  /\ pc[c] \in {"idle", "turned", "first"} \cup Settling =>
       holds[c] = "nothing" /\ said[c] = "nothing" /\ \A w \in {"operation", "tombstone"} : <<c, w>> \notin wire
  /\ said[c] = "ok" => holds[c] = "held" /\ pc[c] \in {"releasing", "logging", "created", "over"} \cup Undoing
  /\ <<c, "tombstone">> \in wire => said[c] = "uncertain" /\ pc[c] \in {"releasing", "over"} \cup Undoing
  /\ pc[c] \in {"retiring", "reading"} => said[c] = "uncertain"
  /\ pc[c] \in {"logging", "created"} => said[c] = "ok"
  /\ \A w \in {"operation", "tombstone"} : <<c, w>> \in wire => c \in Late

\* An operation that did not get out, or that a read back did not find, is not
\* at the directory: a signup is only undone where it is not.
ClearInv(c) ==
  c \notin Late =>
  /\ pc[c] \in {"asking", "again"} /\ ~sent[c] => holds[c] # "held"
  /\ pc[c] = "askingAgain" /\ ~sent[c] /\ said[c] # "uncertain" => holds[c] # "held"
  /\ pc[c] = "releasing" /\ undo[c] = "discard" /\ said[c] # "ok" => holds[c] # "held"
  /\ c \notin Leavers =>
       /\ pc[c] \in Undoing => holds[c] # "held"
       /\ holds[c] = "held" => c \in rows

CallInv(c) == FutureInv(c) /\ GuardInv(c) /\ WrittenInv(c) /\ ToldInv(c) /\ ClearInv(c)

\* Nothing of a signup's changed.
Same(d) ==
  /\ pc'[d] = pc[d] /\ task'[d] = task[d] /\ undo'[d] = undo[d]
  /\ holds'[d] = holds[d] /\ sent'[d] = sent[d] /\ said'[d] = said[d]
  /\ (d \in left') = (d \in left) /\ (d \in marred') = (d \in marred)
  /\ (d \in reserved') = (d \in reserved) /\ (d \in files') = (d \in files) /\ (d \in rows') = (d \in rows)
  /\ \A w \in {"operation", "tombstone"} : (<<d, w>> \in wire') = (<<d, w>> \in wire)

LEMMA SameStays ==
  ASSUME NEW d \in Calls, CallInv(d), Same(d)
  PROVE  CallInv(d)'
<1>1. FutureInv(d)' /\ GuardInv(d)'
  BY SMT DEF CallInv, Same, FutureInv, GuardInv, Sending, Settling, Undoing
<1>2. WrittenInv(d)'
  BY DEF CallInv, Same, WrittenInv, Sending, Ends
<1>3. ToldInv(d)'
  BY DEF CallInv, Same, ToldInv, Settling, Undoing
<1>4. ClearInv(d)'
  BY DEF CallInv, Same, ClearInv, Undoing
<1> QED
  BY <1>1, <1>2, <1>3, <1>4 DEF CallInv

\* The types, but for the log's and the codes'.
Typed ==
  /\ pc \in [Calls -> Places]
  /\ task \in [Calls -> {"none", "reserve", "repo", "rows", "release", "log"}]
  /\ undo \in [Calls -> {"nothing", "discard", "keep"}]
  /\ left \in SUBSET Calls /\ reserved \in SUBSET Calls /\ files \in SUBSET Calls
  /\ rows \in SUBSET Calls /\ marred \in SUBSET Calls
  /\ holds \in [Calls -> {"nothing", "held", "retired"}]
  /\ wire \in SUBSET (Calls \X {"operation", "tombstone"})
  /\ sent \in [Calls -> BOOLEAN]
  /\ said \in [Calls -> Said]
  /\ faults \in 0..MaxFaults /\ crashes \in 0..MaxCrashes

\* An account the log may tell of.
Standing(c) == c \in rows /\ said[c] = "ok" /\ pc[c] \in {"created", "over"}

\* The step is this signup's alone, and does not take back an account.
Alone(c) == Typed' /\ (\A d \in Calls \ {c} : Same(d)) /\ CallInv(c)' /\ (Standing(c) => Standing(c)')

\* Before the directory hears of it.
LEMMA WritingIsAlone ==
  ASSUME Typed, NEW c \in Calls, CallInv(c)
  PROVE  Ask(c) \/ Reserve(c) \/ StartRepo(c) \/ Hash(c) \/ CreateRows(c)
         => Alone(c)
<1> USE DEF Sending, Settling, Undoing, Ends, local, remote, bounds
<1>0. /\ DOMAIN pc = Calls /\ DOMAIN task = Calls /\ DOMAIN undo = Calls
      /\ DOMAIN holds = Calls /\ DOMAIN sent = Calls /\ DOMAIN said = Calls
  BY DEF Typed
<1>1. ASSUME Ask(c) PROVE Alone(c)
  <2>1. Typed'
    BY <1>1, BoundsAssumption, SMT DEF Ask, Typed, Places, Said
  <2>2. \A d \in Calls \ {c} : Same(d)
    BY <1>0, <1>1, SMT DEF Ask, Same
  <2>3. FutureInv(c)' /\ GuardInv(c)'
    BY <1>0, <1>1, SMT DEF Ask, CallInv, FutureInv, GuardInv
  <2>4. WrittenInv(c)'
    BY <1>0, <1>1, SMT DEF Ask, CallInv, WrittenInv
  <2>5. ToldInv(c)'
    BY <1>0, <1>1, SMT DEF Ask, CallInv, ToldInv
  <2>6. ClearInv(c)'
    BY <1>0, <1>1, SMT DEF Ask, CallInv, ClearInv
  <2>7. Standing(c) => Standing(c)'
    BY <1>1 DEF Ask, Standing
  <2> QED
    BY <2>1, <2>2, <2>3, <2>4, <2>5, <2>6, <2>7 DEF Alone, CallInv
<1>2. ASSUME Reserve(c) PROVE Alone(c)
  <2>1. Typed'
    BY <1>2, BoundsAssumption, SMT DEF Reserve, Fails, Typed, Places, Said
  <2>2. \A d \in Calls \ {c} : Same(d)
    BY <1>0, <1>2, SMT DEF Reserve, Fails, Same
  <2>3. FutureInv(c)' /\ GuardInv(c)'
    BY <1>0, <1>2, SMT DEF Reserve, Fails, CallInv, FutureInv, GuardInv
  <2>4. WrittenInv(c)'
    BY <1>0, <1>2, SMT DEF Reserve, Fails, CallInv, FutureInv, WrittenInv
  <2>5. ToldInv(c)'
    BY <1>0, <1>2, SMT DEF Reserve, Fails, CallInv, ToldInv
  <2>6. ClearInv(c)'
    BY <1>0, <1>2 DEF Reserve, Fails, CallInv, FutureInv, GuardInv, ToldInv, ClearInv
  <2>7. Standing(c) => Standing(c)'
    BY <1>2 DEF Reserve, Fails, Standing
  <2> QED
    BY <2>1, <2>2, <2>3, <2>4, <2>5, <2>6, <2>7 DEF Alone, CallInv
<1>3. ASSUME StartRepo(c) PROVE Alone(c)
  <2>1. Typed'
    BY <1>3, BoundsAssumption, SMT DEF StartRepo, Fails, Typed, Places, Said
  <2>2. \A d \in Calls \ {c} : Same(d)
    BY <1>0, <1>3, SMT DEF StartRepo, Fails, Same
  <2>3. FutureInv(c)' /\ GuardInv(c)'
    BY <1>0, <1>3, SMT DEF StartRepo, Fails, CallInv, FutureInv, GuardInv
  <2>4. WrittenInv(c)'
    BY <1>0, <1>3, SMT DEF StartRepo, Fails, CallInv, FutureInv, WrittenInv
  <2>5. ToldInv(c)'
    BY <1>0, <1>3, SMT DEF StartRepo, Fails, CallInv, ToldInv
  <2>6. ClearInv(c)'
    BY <1>0, <1>3 DEF StartRepo, Fails, CallInv, FutureInv, GuardInv, ToldInv, ClearInv
  <2>7. Standing(c) => Standing(c)'
    BY <1>3 DEF StartRepo, Fails, Standing
  <2> QED
    BY <2>1, <2>2, <2>3, <2>4, <2>5, <2>6, <2>7 DEF Alone, CallInv
<1>4. ASSUME Hash(c) PROVE Alone(c)
  <2>1. Typed'
    BY <1>4, BoundsAssumption, SMT DEF Hash, Typed, Places, Said
  <2>2. \A d \in Calls \ {c} : Same(d)
    BY <1>0, <1>4, SMT DEF Hash, Same
  <2>3. FutureInv(c)' /\ GuardInv(c)'
    BY <1>0, <1>4, SMT DEF Hash, CallInv, FutureInv, GuardInv
  <2>4. WrittenInv(c)'
    BY <1>0, <1>4, SMT DEF Hash, CallInv, WrittenInv
  <2>5. ToldInv(c)'
    BY <1>0, <1>4, SMT DEF Hash, CallInv, ToldInv
  <2>6. ClearInv(c)'
    BY <1>0, <1>4, SMT DEF Hash, CallInv, ClearInv
  <2>7. Standing(c) => Standing(c)'
    BY <1>4 DEF Hash, Standing
  <2> QED
    BY <2>1, <2>2, <2>3, <2>4, <2>5, <2>6, <2>7 DEF Alone, CallInv
<1>5. ASSUME CreateRows(c) PROVE Alone(c)
  <2>1. Typed'
    BY <1>5, BoundsAssumption, SMT DEF CreateRows, Fails, Typed, Places, Said
  <2>2. \A d \in Calls \ {c} : Same(d)
    BY <1>0, <1>5, SMT DEF CreateRows, Fails, Same
  <2>3. FutureInv(c)' /\ GuardInv(c)'
    BY <1>0, <1>5, SMT DEF CreateRows, Fails, CallInv, FutureInv, GuardInv
  <2>4. WrittenInv(c)'
    BY <1>0, <1>5, SMT DEF CreateRows, Fails, CallInv, FutureInv, WrittenInv
  <2>5. ToldInv(c)'
    BY <1>0, <1>5, SMT DEF CreateRows, Fails, CallInv, ToldInv
  <2>6. ClearInv(c)'
    BY <1>0, <1>5, SMT DEF CreateRows, Fails, CallInv, GuardInv, ToldInv, ClearInv
  <2>7. Standing(c) => Standing(c)'
    BY <1>5 DEF CreateRows, Fails, Standing
  <2> QED
    BY <2>1, <2>2, <2>3, <2>4, <2>5, <2>6, <2>7 DEF Alone, CallInv
<1> QED
  BY <1>1, <1>2, <1>3, <1>4, <1>5

\* With the directory.
LEMMA SendingIsAlone ==
  ASSUME Typed, NEW c \in Calls, CallInv(c)
  PROVE  First(c) \/ Asking(c) \/ Again(c) \/ AskingAgain(c) \/ Retiring(c) \/ Reading(c)
         => Alone(c)
<1> USE DEF Sending, Settling, Undoing, Ends, local, remote, bounds
<1>0. /\ DOMAIN pc = Calls /\ DOMAIN task = Calls /\ DOMAIN undo = Calls
      /\ DOMAIN holds = Calls /\ DOMAIN sent = Calls /\ DOMAIN said = Calls
  BY DEF Typed
<1>1. ASSUME First(c) PROVE Alone(c)
  <2>1. PICK answer \in Said \ {"nothing"} :
          /\ Post(c, answer)
          /\ sent' = [sent EXCEPT ![c] = answer = "uncertain"]
          /\ IF answer \in {"ok", "refused"}
             THEN Answered(c, answer)
             ELSE pc' = [pc EXCEPT ![c] = "asking"] /\ UNCHANGED <<task, undo, said>>
    BY <1>1 DEF First
  <2>2. pc[c] = "first" /\ UNCHANGED <<left, local, bounds>>
    BY <1>1 DEF First
  <2>3. sent'[c] = (answer = "uncertain") /\ sent' \in [Calls -> BOOLEAN] /\ \A d \in Calls \ {c} : sent'[d] = sent[d]
    BY <2>1, SMT DEF Typed
  <2>4. Typed'
    BY <2>1, <2>2, <2>3, SMT DEF Post, Answered, Settle, Typed, Places, Said
  <2>5. \A d \in Calls \ {c} : Same(d)
    BY <1>0, <2>1, <2>2, <2>3, SMT DEF Post, Answered, Settle, Same
  <2>6. FutureInv(c)' /\ GuardInv(c)'
    BY <1>0, <2>1, <2>2, SMT DEF Post, Answered, Settle, CallInv, FutureInv, GuardInv
  <2>7. WrittenInv(c)'
    BY <1>0, <2>1, <2>2, SMT DEF Post, Answered, Settle, CallInv, WrittenInv
  <2>8. ToldInv(c)'
    BY <1>0, <2>1, <2>2, SMT DEF Post, Answered, Settle, CallInv, ToldInv
  <2>9. ClearInv(c)'
    <3>1. answer \in {"unreachable", "refused"} => holds'[c] # "held"
      BY <2>1, <2>2 DEF Post, CallInv, ToldInv
    <3>2. \/ pc'[c] = "asking" /\ answer \in {"unreachable", "uncertain"}
          \/ pc'[c] = "releasing" /\ answer \in {"ok", "refused"} /\ said'[c] = answer
      BY <2>1, <2>2, SMT DEF Answered, Settle, Typed, Said
    <3>3. c \in rows'
      BY <2>2 DEF CallInv, WrittenInv
    <3>4. pc'[c] = "asking" /\ ~sent'[c] => holds'[c] # "held"
      BY <2>3, <3>1, <3>2
    <3> QED
      BY <3>1, <3>2, <3>3, <3>4 DEF ClearInv
  <2> QED
    BY <2>2, <2>4, <2>5, <2>6, <2>7, <2>8, <2>9 DEF Alone, CallInv, Standing
<1>2. ASSUME Asking(c) PROVE Alone(c)
  <2>1. Typed'
    BY <1>2, BoundsAssumption, SMT DEF Asking, Reads, Answered, Settle, Typed, Places, Said
  <2>2. \A d \in Calls \ {c} : Same(d)
    BY <1>0, <1>2, SMT DEF Asking, Reads, Answered, Settle, Same
  <2>3. FutureInv(c)' /\ GuardInv(c)'
    BY <1>0, <1>2, SMT DEF Asking, Reads, Answered, Settle, CallInv, FutureInv, GuardInv
  <2>4. WrittenInv(c)'
    BY <1>0, <1>2, SMT DEF Asking, Reads, Answered, Settle, CallInv, WrittenInv
  <2>5. ToldInv(c)'
    BY <1>0, <1>2, SMT DEF Asking, Reads, Answered, Settle, CallInv, ToldInv
  <2>6. ClearInv(c)'
    BY <1>0, <1>2, SMT DEF Asking, Reads, Answered, Settle, CallInv, ClearInv
  <2>7. Standing(c) => Standing(c)'
    BY <1>2 DEF Asking, Reads, Answered, Settle, Standing
  <2> QED
    BY <2>1, <2>2, <2>3, <2>4, <2>5, <2>6, <2>7 DEF Alone, CallInv
<1>3. ASSUME Again(c) PROVE Alone(c)
  <2>1. Typed'
    BY <1>3, BoundsAssumption, SMT DEF Again, Post, Answered, Settle, Typed, Places, Said
  <2>2. \A d \in Calls \ {c} : Same(d)
    BY <1>0, <1>3, SMT DEF Again, Post, Answered, Settle, Same
  <2>3. FutureInv(c)' /\ GuardInv(c)'
    BY <1>0, <1>3, SMT DEF Again, Post, Answered, Settle, CallInv, FutureInv, GuardInv
  <2>4. WrittenInv(c)'
    BY <1>0, <1>3, SMT DEF Again, Post, Answered, Settle, CallInv, WrittenInv
  <2>5. ToldInv(c)'
    BY <1>0, <1>3, SMT DEF Again, Post, Answered, Settle, CallInv, ToldInv
  <2>6. ClearInv(c)'
    BY <1>0, <1>3, SMT DEF Again, Post, Answered, Settle, CallInv, FutureInv, GuardInv, WrittenInv, ToldInv, ClearInv
  <2>7. Standing(c) => Standing(c)'
    BY <1>3 DEF Again, Post, Answered, Settle, Standing
  <2> QED
    BY <2>1, <2>2, <2>3, <2>4, <2>5, <2>6, <2>7 DEF Alone, CallInv
<1>4. ASSUME AskingAgain(c) PROVE Alone(c)
  <2>1. Typed'
    BY <1>4, BoundsAssumption, SMT DEF AskingAgain, Reads, Confirmed, Answered, Settle, Typed, Places, Said
  <2>2. \A d \in Calls \ {c} : Same(d)
    BY <1>0, <1>4, SMT DEF AskingAgain, Reads, Confirmed, Answered, Settle, Same
  <2>3. FutureInv(c)' /\ GuardInv(c)'
    BY <1>0, <1>4, SMT DEF AskingAgain, Reads, Confirmed, Answered, Settle, CallInv, FutureInv, GuardInv
  <2>4. WrittenInv(c)'
    BY <1>0, <1>4, SMT DEF AskingAgain, Reads, Confirmed, Answered, Settle, CallInv, WrittenInv
  <2>5. ToldInv(c)'
    BY <1>0, <1>4, SMT DEF AskingAgain, Reads, Confirmed, Answered, Settle, CallInv, ToldInv
  <2>6. ClearInv(c)'
    BY <1>0, <1>4, SMT DEF AskingAgain, Reads, Confirmed, Answered, Settle, CallInv, ClearInv
  <2>7. Standing(c) => Standing(c)'
    BY <1>4 DEF AskingAgain, Reads, Confirmed, Answered, Settle, Standing
  <2> QED
    BY <2>1, <2>2, <2>3, <2>4, <2>5, <2>6, <2>7 DEF Alone, CallInv
<1>5. ASSUME Retiring(c) PROVE Alone(c)
  <2>1. Typed'
    BY <1>5, BoundsAssumption, SMT DEF Retiring, PostTombstone, Settle, Typed, Places, Said
  <2>2. \A d \in Calls \ {c} : Same(d)
    BY <1>0, <1>5, SMT DEF Retiring, PostTombstone, Settle, Same
  <2>3. FutureInv(c)' /\ GuardInv(c)'
    BY <1>0, <1>5, SMT DEF Retiring, PostTombstone, Settle, CallInv, FutureInv, GuardInv
  <2>4. WrittenInv(c)'
    BY <1>0, <1>5, SMT DEF Retiring, PostTombstone, Settle, CallInv, WrittenInv
  <2>5. ToldInv(c)'
    BY <1>0, <1>5, SMT DEF Retiring, PostTombstone, Settle, CallInv, ToldInv
  <2>6. ClearInv(c)'
    BY <1>0, <1>5, SMT DEF Retiring, PostTombstone, Settle, CallInv, ClearInv
  <2>7. Standing(c) => Standing(c)'
    BY <1>5 DEF Retiring, PostTombstone, Settle, Standing
  <2> QED
    BY <2>1, <2>2, <2>3, <2>4, <2>5, <2>6, <2>7 DEF Alone, CallInv
<1>6. ASSUME Reading(c) PROVE Alone(c)
  <2>1. Typed'
    BY <1>6, BoundsAssumption, SMT DEF Reading, Reads, Settle, Typed, Places, Said
  <2>2. \A d \in Calls \ {c} : Same(d)
    BY <1>0, <1>6, SMT DEF Reading, Reads, Settle, Same
  <2>3. FutureInv(c)' /\ GuardInv(c)'
    BY <1>0, <1>6, SMT DEF Reading, Reads, Settle, CallInv, FutureInv, GuardInv
  <2>4. WrittenInv(c)'
    BY <1>0, <1>6, SMT DEF Reading, Reads, Settle, CallInv, WrittenInv
  <2>5. ToldInv(c)'
    BY <1>0, <1>6, SMT DEF Reading, Reads, Settle, CallInv, ToldInv
  <2>6. ClearInv(c)'
    BY <1>0, <1>6, SMT DEF Reading, Reads, Settle, CallInv, ClearInv
  <2>7. Standing(c) => Standing(c)'
    BY <1>6 DEF Reading, Reads, Settle, Standing
  <2> QED
    BY <2>1, <2>2, <2>3, <2>4, <2>5, <2>6, <2>7 DEF Alone, CallInv
<1> QED
  BY <1>1, <1>2, <1>3, <1>4, <1>5, <1>6

\* What arrives late, and the way out.
LEMMA LeavingIsAlone ==
  ASSUME Typed, NEW c \in Calls, CallInv(c)
  PROVE  \/ Release(c) \/ Log(c) \/ UndoRows(c) \/ UndoKey(c) \/ UndoDir(c) \/ HangUp(c)
         \/ \E what \in {"operation", "tombstone"} : Arrive(c, what)
         => Alone(c)
<1> USE DEF Sending, Settling, Undoing, Ends, local, remote, bounds
<1>0. /\ DOMAIN pc = Calls /\ DOMAIN task = Calls /\ DOMAIN undo = Calls
      /\ DOMAIN holds = Calls /\ DOMAIN sent = Calls /\ DOMAIN said = Calls
  BY DEF Typed
<1>1. ASSUME Release(c) PROVE Alone(c)
  <2>1. Typed'
    BY <1>1, BoundsAssumption, SMT DEF Release, Released, Dropped, Typed, Places, Said
  <2>2. \A d \in Calls \ {c} : Same(d)
    BY <1>0, <1>1, SMT DEF Release, Released, Dropped, Same
  <2>3. FutureInv(c)' /\ GuardInv(c)'
    BY <1>0, <1>1, SMTT(30) DEF Release, Released, Dropped, CallInv, FutureInv, GuardInv, WrittenInv, ToldInv, ClearInv
  <2>4. WrittenInv(c)'
    BY <1>0, <1>1, SMT DEF Release, Released, Dropped, CallInv, WrittenInv
  <2>5. ToldInv(c)'
    BY <1>0, <1>1, SMT DEF Release, Released, Dropped, CallInv, ToldInv
  <2>6. ClearInv(c)'
    BY <1>0, <1>1, SMT DEF Release, Released, Dropped, CallInv, ClearInv
  <2>7. Standing(c) => Standing(c)'
    BY <1>1 DEF Release, Released, Dropped, Standing
  <2> QED
    BY <2>1, <2>2, <2>3, <2>4, <2>5, <2>6, <2>7 DEF Alone, CallInv
<1>2. ASSUME Log(c) PROVE Alone(c)
  <2>1. Typed'
    BY <1>2, BoundsAssumption, SMT DEF Log, Logs, extend, Typed, Places, Said
  <2>2. \A d \in Calls \ {c} : Same(d)
    BY <1>0, <1>2 DEF Log, Logs, extend, Same
  <2>3. FutureInv(c)' /\ GuardInv(c)'
    BY <1>0, <1>2 DEF Log, Logs, extend, CallInv, FutureInv, GuardInv
  <2>4. WrittenInv(c)'
    BY <1>0, <1>2 DEF Log, Logs, extend, CallInv, WrittenInv
  <2>5. ToldInv(c)'
    BY <1>0, <1>2 DEF Log, Logs, extend, CallInv, ToldInv
  <2>6. ClearInv(c)'
    BY <1>0, <1>2 DEF Log, Logs, extend, CallInv, ClearInv
  <2>7. Standing(c) => Standing(c)'
    BY <1>2 DEF Log, Logs, extend, Standing
  <2> QED
    BY <2>1, <2>2, <2>3, <2>4, <2>5, <2>6, <2>7 DEF Alone, CallInv
<1>3. ASSUME UndoRows(c) PROVE Alone(c)
  <2>1. Typed'
    BY <1>3, BoundsAssumption, SMT DEF UndoRows, Undoes, Works, FailsFor, Typed, Places, Said
  <2>2. \A d \in Calls \ {c} : Same(d)
    BY <1>0, <1>3, SMT DEF UndoRows, Undoes, Works, FailsFor, Same
  <2>3. FutureInv(c)' /\ GuardInv(c)'
    BY <1>0, <1>3 DEF UndoRows, Undoes, Works, FailsFor, CallInv, FutureInv, GuardInv
  <2>4. WrittenInv(c)'
    BY <1>0, <1>3 DEF UndoRows, Undoes, Works, FailsFor, CallInv, WrittenInv
  <2>5. ToldInv(c)'
    BY <1>0, <1>3 DEF UndoRows, Undoes, Works, FailsFor, CallInv, ToldInv
  <2>6. ClearInv(c)'
    BY <1>0, <1>3 DEF UndoRows, Undoes, Works, FailsFor, CallInv, ClearInv
  <2>7. Standing(c) => Standing(c)'
    BY <1>3 DEF UndoRows, Undoes, Works, FailsFor, Standing
  <2> QED
    BY <2>1, <2>2, <2>3, <2>4, <2>5, <2>6, <2>7 DEF Alone, CallInv
<1>4. ASSUME UndoKey(c) PROVE Alone(c)
  <2>1. Typed'
    BY <1>4, BoundsAssumption, SMTT(30) DEF UndoKey, Undoes, Works, FailsFor, Typed, Places, Said
  <2>2. \A d \in Calls \ {c} : Same(d)
    BY <1>0, <1>4, SMT DEF UndoKey, Undoes, Works, FailsFor, Same
  <2>3. FutureInv(c)' /\ GuardInv(c)'
    BY <1>0, <1>4 DEF UndoKey, Undoes, Works, FailsFor, CallInv, FutureInv, GuardInv
  <2>4. WrittenInv(c)'
    BY <1>0, <1>4 DEF UndoKey, Undoes, Works, FailsFor, CallInv, WrittenInv
  <2>5. ToldInv(c)'
    BY <1>0, <1>4 DEF UndoKey, Undoes, Works, FailsFor, CallInv, ToldInv
  <2>6. ClearInv(c)'
    BY <1>0, <1>4 DEF UndoKey, Undoes, Works, FailsFor, CallInv, ClearInv
  <2>7. Standing(c) => Standing(c)'
    BY <1>4 DEF UndoKey, Undoes, Works, FailsFor, Standing
  <2> QED
    BY <2>1, <2>2, <2>3, <2>4, <2>5, <2>6, <2>7 DEF Alone, CallInv
<1>5. ASSUME UndoDir(c) PROVE Alone(c)
  <2>1. Typed'
    BY <1>5, BoundsAssumption, SMTT(30) DEF UndoDir, Undoes, Works, FailsFor, Typed, Places, Said
  <2>2. \A d \in Calls \ {c} : Same(d)
    BY <1>0, <1>5, SMT DEF UndoDir, Undoes, Works, FailsFor, Same
  <2>3. FutureInv(c)' /\ GuardInv(c)'
    BY <1>0, <1>5 DEF UndoDir, Undoes, Works, FailsFor, CallInv, FutureInv, GuardInv
  <2>4. WrittenInv(c)'
    BY <1>0, <1>5 DEF UndoDir, Undoes, Works, FailsFor, CallInv, WrittenInv
  <2>5. ToldInv(c)'
    BY <1>0, <1>5 DEF UndoDir, Undoes, Works, FailsFor, CallInv, ToldInv
  <2>6. ClearInv(c)'
    BY <1>0, <1>5 DEF UndoDir, Undoes, Works, FailsFor, CallInv, ClearInv
  <2>7. Standing(c) => Standing(c)'
    BY <1>5 DEF UndoDir, Undoes, Works, FailsFor, Standing
  <2> QED
    BY <2>1, <2>2, <2>3, <2>4, <2>5, <2>6, <2>7 DEF Alone, CallInv
<1>6. ASSUME HangUp(c) PROVE Alone(c)
  <2>1. Typed'
    BY <1>6, BoundsAssumption DEF HangUp, Dropped, Typed, Places, Said
  <2>2. \A d \in Calls \ {c} : Same(d)
    BY <1>0, <1>6, SMT DEF HangUp, Dropped, Same
  <2>3. FutureInv(c)' /\ GuardInv(c)'
    BY <1>0, <1>6 DEF HangUp, Dropped, CallInv, FutureInv, GuardInv
  <2>4. WrittenInv(c)'
    BY <1>0, <1>6 DEF HangUp, Dropped, CallInv, WrittenInv
  <2>5. ToldInv(c)'
    BY <1>0, <1>6 DEF HangUp, Dropped, CallInv, ToldInv
  <2>6. ClearInv(c)'
    BY <1>0, <1>6 DEF HangUp, Dropped, CallInv, ClearInv
  <2>7. Standing(c) => Standing(c)'
    BY <1>6 DEF HangUp, Dropped, Standing
  <2> QED
    BY <2>1, <2>2, <2>3, <2>4, <2>5, <2>6, <2>7 DEF Alone, CallInv
<1>7. ASSUME \E what \in {"operation", "tombstone"} : Arrive(c, what) PROVE Alone(c)
  <2>1. Typed'
    BY <1>7, BoundsAssumption, SMTT(30) DEF Arrive, Typed, Places, Said
  <2>2. \A d \in Calls \ {c} : Same(d)
    BY <1>0, <1>7, SMT DEF Arrive, Same
  <2>3. FutureInv(c)' /\ GuardInv(c)'
    BY <1>0, <1>7, SMT DEF Arrive, CallInv, FutureInv, GuardInv
  <2>4. WrittenInv(c)'
    BY <1>0, <1>7 DEF Arrive, CallInv, WrittenInv
  <2>5. ToldInv(c)'
    BY <1>0, <1>7 DEF Arrive, CallInv, ToldInv
  <2>6. ClearInv(c)'
    BY <1>0, <1>7 DEF Arrive, CallInv, FutureInv, GuardInv, ToldInv, ClearInv
  <2>7. Standing(c) => Standing(c)'
    BY <1>7 DEF Arrive, Standing
  <2> QED
    BY <2>1, <2>2, <2>3, <2>4, <2>5, <2>6, <2>7 DEF Alone, CallInv
<1> QED
  BY <1>1, <1>2, <1>3, <1>4, <1>5, <1>6, <1>7

LEMMA OneStays ==
  ASSUME \A d \in Calls : CallInv(d), NEW c \in Calls, Alone(c)
  PROVE  \A d \in Calls : CallInv(d)' /\ (Standing(d) => Standing(d)')
<1> SUFFICES ASSUME NEW d \in Calls \ {c} PROVE CallInv(d)' /\ (Standing(d) => Standing(d)')
  BY DEF Alone
<1>1. Same(d)
  BY DEF Alone
<1> QED
  BY <1>1, SameStays DEF Same, Standing

\* The process dies: what the future was at is as it was, and nobody goes on.
LEMMA CrashStays ==
  ASSUME Typed, \A d \in Calls : CallInv(d), Crash
  PROVE  Typed' /\ \A d \in Calls : CallInv(d)' /\ (Standing(d) => Standing(d)')
<1> USE DEF Crash, local, remote, Typed, Ends, Places, Sending, Settling, Undoing
<1>1. Typed'
  BY BoundsAssumption, SMT
<1> SUFFICES ASSUME NEW d \in Calls PROVE CallInv(d)' /\ (Standing(d) => Standing(d)')
  BY <1>1
<1>2. FutureInv(d)' /\ GuardInv(d)'
  BY DEF CallInv, FutureInv, GuardInv
<1>3. WrittenInv(d)'
  BY DEF CallInv, WrittenInv
<1>4. ToldInv(d)' /\ ClearInv(d)'
  BY DEF CallInv, ToldInv, ClearInv
<1> QED
  BY <1>2, <1>3, <1>4 DEF CallInv, Standing

-----------------------------------------------------------------------------
(* The log. *)

\* Every entry is of an account that stands, and a commit follows the two that
\* tell of its account.
LogInv ==
  /\ log \in Seq(Calls \X {"identity", "account", "append", "sync"})
  /\ \A i \in DOMAIN log :
       /\ Standing(log[i][1])
       /\ log[i][2] = "append" =>
            i > 2 /\ log[i - 1] = <<log[i][1], "account">> /\ log[i - 2] = <<log[i][1], "identity">>

LEMMA LogStays ==
  ASSUME LogInv, UNCHANGED log, \A d \in Calls : Standing(d) => Standing(d)'
  PROVE  LogInv'
<1>1. \A i \in DOMAIN log : log[i][1] \in Calls
  BY SMT DEF LogInv
<1> QED
  BY <1>1 DEF LogInv

\* Sequencer::extend adds the four entries at once.
LEMMA LogGrows ==
  ASSUME LogInv, NEW c \in Calls, extend(account_created(c)), Standing(c)',
         \A d \in Calls : Standing(d) => Standing(d)'
  PROVE  LogInv'
<1> DEFINE T == Calls \X {"identity", "account", "append", "sync"}
           new == account_created(c)
           n == Len(log)
<1>1. new \in Seq(T) /\ Len(new) = 4
  BY SMT DEF account_created
<1>2. log \in Seq(T) /\ n \in Nat /\ DOMAIN log = 1..n
  BY SMT DEF LogInv
<1> HIDE DEF new
<1>3. log' = log \o new /\ log' \in Seq(T) /\ Len(log') = n + 4
  <2>1. log' = log \o new
    BY DEF extend, new
  <2> HIDE DEF T
  <2>2. log \o new \in Seq(T) /\ Len(log \o new) = Len(log) + Len(new)
    BY <1>1, <1>2, Joined
  <2> QED
    BY <1>1, <2>1, <2>2
<1>4. /\ DOMAIN log' = 1..(n + 4)
      /\ \A i \in 1..n : log'[i] = log[i]
      /\ \A i \in 1..4 : log'[n + i] = new[i]
  BY <1>1, <1>2, <1>3, SMT
<1>5. /\ log'[n + 1] = <<c, "identity">> /\ log'[n + 2] = <<c, "account">>
      /\ log'[n + 3] = <<c, "append">> /\ log'[n + 4] = <<c, "sync">>
  <2>1. new[1] = <<c, "identity">> /\ new[2] = <<c, "account">> /\ new[3] = <<c, "append">> /\ new[4] = <<c, "sync">>
    BY DEF account_created, new
  <2> QED
    BY <1>4, <2>1, SMT
<1>6. ASSUME NEW i \in DOMAIN log' PROVE
      \E d \in Calls : /\ Standing(d)' /\ log'[i][1] = d
                       /\ log'[i][2] = "append" =>
                            i > 2 /\ log'[i - 1] = <<d, "account">> /\ log'[i - 2] = <<d, "identity">>
  <2>1. CASE i \in 1..n
    <3>1. PICK d \in Calls : d = log[i][1]
      BY <1>2, <2>1, SMT
    <3>2. log'[i] = log[i] /\ Standing(d)
      BY <1>2, <1>4, <2>1, <3>1 DEF LogInv
    <3>3. log[i][2] = "append" =>
            i > 2 /\ log[i - 1] = <<d, "account">> /\ log[i - 2] = <<d, "identity">>
      BY <1>2, <2>1, <3>1 DEF LogInv
    <3>4. i > 2 => i - 1 \in 1..n /\ i - 2 \in 1..n
      BY <1>2, <2>1, SMT
    <3> QED
      BY <1>4, <3>1, <3>2, <3>3, <3>4
  <2>2. CASE i \in {n + 1, n + 2, n + 3, n + 4}
    <3>1. log'[i][1] = c
      BY <1>5, <2>2, SMT
    <3>2. log'[i][2] = "append" => i = n + 3
      BY <1>5, <2>2, SMT
    <3>3. i = n + 3 => i > 2 /\ i - 1 = n + 2 /\ i - 2 = n + 1
      BY <1>2, SMT
    <3> QED
      BY <1>5, <3>1, <3>2, <3>3
  <2>3. i \in 1..n \/ i \in {n + 1, n + 2, n + 3, n + 4}
    BY <1>2, <1>4, SMT
  <2> QED
    BY <2>1, <2>2, <2>3
<1> QED
  BY <1>3, <1>6 DEF LogInv

SignupInv == Typed /\ (\A c \in Calls : CallInv(c)) /\ LogInv

LEMMA SignupInit == Init => SignupInv
<1> SUFFICES ASSUME Init PROVE SignupInv
  OBVIOUS
<1> USE DEF Init
<1>1. Typed
  BY BoundsAssumption, SMT DEF Typed, Places, Said
<1>2. ASSUME NEW c \in Calls PROVE CallInv(c)
  BY DEF CallInv, FutureInv, GuardInv, WrittenInv, ToldInv, ClearInv, Sending, Settling, Undoing, Ends
<1>3. LogInv
  BY SMT DEF LogInv
<1> QED
  BY <1>1, <1>2, <1>3 DEF SignupInv

LEMMA LogStep ==
  ASSUME SignupInv, NEW c \in Calls, Log(c)
  PROVE  SignupInv'
<1>1. Alone(c)
  BY LeavingIsAlone DEF SignupInv
<1>2. Typed' /\ \A d \in Calls : CallInv(d)' /\ (Standing(d) => Standing(d)')
  BY <1>1, OneStays DEF SignupInv, Alone
<1>3. Standing(c)'
  <2>1. pc[c] \in {"logging", "over"} /\ said[c] = "ok" /\ c \in rows /\ pc \in [Calls -> Places]
    BY DEF SignupInv, CallInv, FutureInv, Log, Logs, Typed
  <2> QED
    BY <2>1 DEF Log, remote, Standing
<1>4. LogInv'
  <2>1. CASE UNCHANGED log
    BY <1>2, <2>1, LogStays DEF SignupInv
  <2>2. CASE extend(account_created(c))
    BY <1>2, <1>3, <2>2, LogGrows DEF SignupInv
  <2> QED
    BY <2>1, <2>2 DEF Log
<1> QED
  BY <1>2, <1>4 DEF SignupInv

LEMMA SignupStep == SignupInv /\ [Next]_vars => SignupInv'
<1> SUFFICES ASSUME SignupInv, [Next]_vars PROVE SignupInv'
  OBVIOUS
<1>1. ASSUME NEW c \in Calls, Alone(c), UNCHANGED log PROVE SignupInv'
  BY <1>1, OneStays, LogStays DEF SignupInv, Alone
<1>2. ASSUME NEW c \in Calls, Ask(c) \/ Reserve(c) \/ StartRepo(c) \/ Hash(c) \/ CreateRows(c) PROVE SignupInv'
  <2>1. UNCHANGED log
    BY <1>2 DEF Ask, Reserve, StartRepo, Hash, CreateRows, local
  <2> QED
    BY <1>1, <1>2, <2>1, WritingIsAlone DEF SignupInv
<1>3. ASSUME NEW c \in Calls,
             First(c) \/ Asking(c) \/ Again(c) \/ AskingAgain(c) \/ Retiring(c) \/ Reading(c)
      PROVE  SignupInv'
  <2>1. UNCHANGED log
    BY <1>3 DEF First, Asking, Again, AskingAgain, Retiring, Reading, local
  <2> QED
    BY <1>1, <1>3, <2>1, SendingIsAlone DEF SignupInv
<1>4. ASSUME NEW c \in Calls,
             \/ Release(c) \/ UndoRows(c) \/ UndoKey(c) \/ UndoDir(c) \/ HangUp(c)
             \/ \E what \in {"operation", "tombstone"} : Arrive(c, what)
      PROVE  SignupInv'
  <2>1. UNCHANGED log
    BY <1>4 DEF Release, UndoRows, UndoKey, UndoDir, Undoes, HangUp, Arrive, local
  <2> QED
    BY <1>1, <1>4, <2>1, LeavingIsAlone DEF SignupInv
<1>5. CASE Crash
  <2>1. UNCHANGED log
    BY <1>5 DEF Crash, local
  <2> QED
    BY <1>5, <2>1, CrashStays, LogStays DEF SignupInv
<1>6. ASSUME UNCHANGED <<pc, task, undo, left, local, remote, marred, crashes>>, faults' \in 0..MaxFaults
      PROVE  SignupInv'
  <2>1. Typed' /\ UNCHANGED log
    BY <1>6 DEF SignupInv, Typed, local, remote
  <2>2. \A c \in Calls : Same(c)
    BY <1>6 DEF Same, local, remote
  <2>3. \A c \in Calls : Standing(c) => Standing(c)'
    BY <1>6 DEF Standing, local, remote
  <2> QED
    BY <2>1, <2>2, <2>3, SameStays, LogStays DEF SignupInv
<1>7. CASE mint_invites
  <2>1. faults' \in 0..MaxFaults
    BY <1>7, BoundsAssumption, SMT DEF mint_invites, create_invite_codes, create_invites, SignupInv, Typed
  <2> QED
    BY <1>6, <1>7, <2>1 DEF mint_invites
<1>8. CASE UNCHANGED vars
  BY <1>6, <1>8 DEF vars, local, remote, SignupInv, Typed
<1>9. ASSUME NEW c \in Calls, Log(c) PROVE SignupInv'
  BY <1>9, LogStep
<1> QED
  BY <1>2, <1>3, <1>4, <1>5, <1>7, <1>8, <1>9 DEF Next, Step

-----------------------------------------------------------------------------
(* What a reader is promised. *)

\* A refused signup has left nothing, and every way out that returns spends the
\* reservation: for any number of signups, faults and crashes.
THEOREM RefusalsLeaveNothing == Spec => []RefusedLeavesNothing
<1>1. SignupInv => RefusedLeavesNothing
  BY DEF SignupInv, CallInv, WrittenInv, RefusedLeavesNothing, Ends
<1> QED
  BY <1>1, SignupInit, SignupStep, PTL DEF Spec

\* Whoever is told they have an account has one, the log tells of no other and
\* tells of it in order, and an identifier the directory holds has its account,
\* unless its caller left or its operation was late: whatever the directory
\* answers or fails to.
THEOREM DirectoryAndRowsAgree == Spec => []DirectoryAgrees
<1>1. SignupInv => DirectoryAgrees
  <2> SUFFICES ASSUME SignupInv PROVE DirectoryAgrees
    OBVIOUS
  <2>1. \A c \in Calls : pc[c] = "created" => c \in rows /\ c \in files /\ holds[c] = "held"
    BY DEF SignupInv, CallInv, WrittenInv, ToldInv
  <2>2. \A c \in Calls : Standing(c) => holds[c] = "held" /\ c \in rows
    BY DEF SignupInv, CallInv, ToldInv, Standing
  <2>3. \A i \in DOMAIN log : log[i][1] \in rows /\ holds[log[i][1]] = "held"
    BY <2>2, SMT DEF SignupInv, LogInv
  <2>4. ASSUME NEW i \in DOMAIN log, log[i][2] = "append" PROVE
          {"identity", "account"} \subseteq {log[j][2] : j \in {j \in 1..(i - 1) : log[j][1] = log[i][1]}}
    <3>1. i \in Nat /\ i > 2 /\ log[i - 1] = <<log[i][1], "account">> /\ log[i - 2] = <<log[i][1], "identity">>
      BY <2>4, SMT DEF SignupInv, LogInv
    <3>2. i - 1 \in 1..(i - 1) /\ i - 2 \in 1..(i - 1)
      BY <3>1, SMT
    <3>3. /\ log[i - 1][1] = log[i][1] /\ log[i - 1][2] = "account"
          /\ log[i - 2][1] = log[i][1] /\ log[i - 2][2] = "identity"
      BY <3>1, SMT
    <3> QED
      BY <3>2, <3>3
  <2>5. \A c \in Calls \ (Leavers \cup Late) : holds[c] = "held" => c \in rows
    BY DEF SignupInv, CallInv, ClearInv
  <2> QED
    BY <2>1, <2>3, <2>4, <2>5 DEF DirectoryAgrees
<1> QED
  BY <1>1, SignupInit, SignupStep, PTL DEF Spec

-----------------------------------------------------------------------------
(* The codes. *)

\* The call writes an account's codes as long as some are to be written, and
\* is answered once none are.
MintInv ==
  /\ order \in Orders
  /\ invites \subseteq Codes
  /\ mint \in {"idle", "writing", "refused", "failed", "answered"}
  /\ mint = "idle" => invites = {}
  /\ mint = "writing" => Waiting # {}
  /\ mint = "answered" => Codes \subseteq invites

LEMMA MintStep ==
  ASSUME MintInv, [Next]_vars
  PROVE  MintInv' /\ invites \subseteq invites'
<1>0. order' = order /\ Codes' = Codes
  BY DEF Next, asked, vars, Codes
<1>1. CASE UNCHANGED minted
  BY <1>0, <1>1 DEF MintInv, minted, Waiting, Codes
<1>2. CASE Crash
  BY <1>0, <1>2 DEF MintInv, Crash, Waiting, Codes
<1>3. /\ order # <<>> /\ Len(order) \in Nat /\ DOMAIN order = 1..Len(order)
      /\ \A i, j \in DOMAIN order : order[i] # {} /\ (i # j => order[i] \cap order[j] = {})
  BY OrdersAssumption DEF MintInv
<1>4. CASE create_invite_codes
  <2>1. 1 \in DOMAIN order
    <3>1. DOMAIN order = 1..Len(order)
      BY <1>3
    <3>2. CASE Len(order) = 0
      <4>1. order = <<>>
        BY <1>3, <3>2, SMT
      <4> QED
        BY <1>3, <4>1
    <3> QED
      BY <1>3, <3>2, SMT
  <2>2. invites' = invites /\ invites = {}
    BY <1>4 DEF create_invite_codes, MintInv
  <2>3. 1 \in Waiting'
    BY <1>0, <1>3, <2>1, <2>2, SMT DEF Waiting
  <2> QED
    BY <1>0, <1>4, <2>2, <2>3 DEF create_invite_codes, MintInv
<1>5. CASE create_invites
  <2>1. mint = "writing" /\ Waiting # {} /\ Waiting \subseteq DOMAIN order
    BY <1>5 DEF create_invites, MintInv, Waiting
  <2>2. CASE mint' = "failed" /\ UNCHANGED invites
    BY <1>0, <2>2 DEF MintInv, Codes
  <2>3. ASSUME NEW m \in Waiting, invites' = invites \cup order[m],
               mint' = IF Cardinality(Waiting) = 1 THEN "answered" ELSE "writing"
        PROVE  MintInv' /\ invites \subseteq invites'
    <3>1. invites' \subseteq Codes
      BY <2>1, <2>3 DEF MintInv, Codes
    <3>2. CASE Cardinality(Waiting) = 1
      <4>1. IsFiniteSet(Waiting)
        <5>1. IsFiniteSet(1..Len(order))
          BY <1>3, FS_Interval, SMT
        <5> QED
          BY <1>3, <2>1, <5>1, FS_Subset
      <4>2. Waiting = {m}
        BY <2>1, <3>2, <4>1, FS_Singleton, SMT
      <4>3. \A i \in DOMAIN order : order[i] \subseteq invites'
        BY <2>3, <4>2 DEF Waiting
      <4>4. Codes \subseteq invites'
        BY <4>3 DEF Codes
      <4> QED
        BY <1>0, <2>3, <3>1, <3>2, <4>4 DEF MintInv
    <3>3. CASE Cardinality(Waiting) # 1
      <4>1. PICK i \in Waiting : i # m
        <5>1. Waiting # {m}
          BY <3>3, FS_Singleton
        <5> QED
          BY <2>1, <5>1
      <4>2. i \in DOMAIN order /\ ~(order[i] \subseteq invites) /\ order[i] \cap order[m] = {}
        BY <1>3, <2>1, <4>1 DEF Waiting
      <4>3. i \in Waiting'
        BY <1>0, <2>3, <4>2 DEF Waiting
      <4> QED
        BY <1>0, <2>3, <3>1, <3>3, <4>3 DEF MintInv
    <3> QED
      BY <3>2, <3>3
  <2> QED
    BY <1>5, <2>2, <2>3 DEF create_invites
<1> QED
  BY <1>1, <1>2, <1>4, <1>5 DEF Next, mint_invites, vars, minted

\* Codes are spent as often as they may be, and names are one account's.
SpentInv ==
  /\ rows \in SUBSET Calls
  /\ \A c \in rows : wants[c].code \in invites
  /\ \A c \in Calls : Spent(wants[c].code) <= Uses
  /\ \A c, d \in rows : wants[c].name = wants[d].name => c = d

\* The rows only change by a transaction that looks again, or shrink.
LEMMA RowsStep ==
  ASSUME Typed, [Next]_vars
  PROVE  \/ \E c \in Calls : Creatable(c) /\ rows' = rows \cup {c}
         \/ rows' \subseteq rows
<1>1. ASSUME NEW c \in Calls, Step(c), rows' # rows
      PROVE  (Creatable(c) /\ rows' = rows \cup {c}) \/ rows' \subseteq rows
  <2>1. CASE CreateRows(c)
    BY <1>1, <2>1 DEF CreateRows
  <2>2. CASE UndoRows(c)
    BY <1>1, <2>2 DEF UndoRows
  <2>3. CASE Reserve(c) \/ StartRepo(c) \/ Hash(c)
    BY <1>1, <2>3 DEF Reserve, StartRepo, Hash, local
  <2>4. CASE First(c) \/ Asking(c) \/ Again(c) \/ AskingAgain(c) \/ Retiring(c) \/ Reading(c)
    BY <1>1, <2>4 DEF First, Asking, Again, AskingAgain, Retiring, Reading, local
  <2>5. CASE Release(c) \/ Log(c) \/ UndoKey(c) \/ UndoDir(c)
    BY <1>1, <2>5 DEF Release, Log, UndoKey, UndoDir
  <2> QED
    BY <1>1, <2>1, <2>2, <2>3, <2>4, <2>5 DEF Step
<1>2. ASSUME NEW c \in Calls,
             Ask(c) \/ HangUp(c) \/ (\E what \in {"operation", "tombstone"} : Arrive(c, what)) \/ Crash \/ mint_invites
      PROVE  rows' = rows
  BY <1>2 DEF Ask, HangUp, Arrive, Crash, mint_invites, local
<1>3. CASE Crash \/ mint_invites \/ UNCHANGED vars
  BY <1>3 DEF Crash, mint_invites, local, vars
<1> QED
  BY <1>1, <1>2, <1>3 DEF Next

LEMMA SpentStep ==
  ASSUME SpentInv, Typed, Typed', MintInv, [Next]_vars
  PROVE  SpentInv'
<1>0. wants' = wants /\ invites \subseteq invites' /\ rows' \in SUBSET Calls
  BY MintStep DEF Next, asked, vars, Typed
<1>1. \A S \in SUBSET Calls : IsFiniteSet(S)
  BY CallsAssumption, FS_Subset
<1>2. CASE rows' \subseteq rows
  <2>1. ASSUME NEW c \in Calls PROVE Cardinality({d \in rows' : wants[d].code = wants[c].code}) <= Uses
    <3> DEFINE A == {d \in rows : wants[d].code = wants[c].code}
               B == {d \in rows' : wants[d].code = wants[c].code}
    <3>1. IsFiniteSet(A) /\ B \in SUBSET A
      BY <1>1, <1>2 DEF SpentInv
    <3>2. Cardinality(B) <= Cardinality(A) /\ IsFiniteSet(B)
      BY <3>1, FS_Subset
    <3>3. Cardinality(A) \in Nat /\ Cardinality(B) \in Nat
      BY <3>1, <3>2, FS_CardinalityType
    <3>4. Cardinality(A) <= Uses
      BY DEF SpentInv, Spent
    <3> QED
      BY <3>2, <3>3, <3>4, BoundsAssumption, SMT
  <2> QED
    BY <1>0, <1>2, <2>1 DEF SpentInv, Spent
<1>3. ASSUME NEW e \in Calls, Creatable(e), rows' = rows \cup {e} PROVE SpentInv'
  <2>1. ASSUME NEW c \in Calls PROVE Cardinality({d \in rows' : wants[d].code = wants[c].code}) <= Uses
    <3> DEFINE A == {d \in rows : wants[d].code = wants[c].code}
               B == {d \in rows' : wants[d].code = wants[c].code}
    <3>1. IsFiniteSet(A) /\ Cardinality(A) \in Nat
      BY <1>1, FS_CardinalityType DEF SpentInv
    <3>2. Cardinality(A) <= Uses
      BY DEF SpentInv, Spent
    <3>3. CASE wants[e].code # wants[c].code
      <4>1. B = A
        BY <1>3, <3>3
      <4> QED
        BY <3>2, <4>1
    <3>4. CASE wants[e].code = wants[c].code
      <4>1. B = A \cup {e}
        BY <1>3, <3>4
      <4>2. Cardinality(A) < Uses
        BY <1>3, <3>4 DEF Creatable, CodeLeft, Spent
      <4> HIDE DEF A, B
      <4>3. Cardinality(B) <= Cardinality(A) + 1 /\ Cardinality(B) \in Nat
        BY <3>1, <4>1, FS_AddElement, SMT
      <4> QED
        BY <3>1, <4>2, <4>3, BoundsAssumption, SMT DEF B
    <3> QED
      BY <3>3, <3>4
  <2>2. \A c \in rows' : wants[c].code \in invites'
    BY <1>0, <1>3 DEF SpentInv, Creatable, CodeLeft
  <2>3. \A c, d \in rows' : wants[c].name = wants[d].name => c = d
    BY <1>3 DEF SpentInv, Creatable, NameFree
  <2> QED
    BY <1>0, <2>1, <2>2, <2>3 DEF SpentInv, Spent
<1> QED
  BY <1>2, <1>3, RowsStep

\* Two signups that both saw a code's last use, or a name, free do not both get
\* it, and every code an administrator was answered with is there: for any
\* number of signups, uses and codes.
THEOREM CodesAreSpentOnce == Spec => []SpentOnce
<1>1. Init => MintInv /\ SpentInv
  <2> SUFFICES ASSUME Init PROVE MintInv /\ SpentInv
    OBVIOUS
  <2>1. MintInv
    BY DEF Init, MintInv
  <2>2. \A c \in Calls : Spent(wants[c].code) = 0
    BY FS_EmptySet DEF Init, Spent
  <2> QED
    BY <2>1, <2>2, BoundsAssumption, SMT DEF Init, SpentInv
<1>2. SignupInv /\ MintInv /\ SpentInv => SpentOnce
  <2> SUFFICES ASSUME SignupInv, MintInv, SpentInv PROVE SpentOnce
    OBVIOUS
  <2>1. TypeOK
    BY DEF SignupInv, Typed, LogInv, MintInv, TypeOK
  <2> QED
    BY <2>1 DEF MintInv, SpentInv, SpentOnce
<1>3. SignupInv /\ MintInv /\ SpentInv /\ [Next]_vars => MintInv' /\ SpentInv'
  BY SignupStep, MintStep, SpentStep DEF SignupInv
<1> QED
  BY <1>1, <1>2, <1>3, SignupInit, SignupStep, PTL DEF Spec

=============================================================================
