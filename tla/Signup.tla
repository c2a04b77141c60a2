------------------------------- MODULE Signup -------------------------------
(***************************************************************************)
(* Creating accounts: Manager::create (src/account.rs) with the files and  *)
(* rows it writes, the directory it registers the identifier at and the    *)
(* retries and read backs around that (src/plc.rs), the rollback its guard *)
(* owes, and callers that hang up on the way.  An administrator's call     *)
(* writes the invite codes they spend (mint_invites, src/server/admin.rs). *)
(*                                                                         *)
(* As in RepoWrites a call is a future, pc[c], and the blocking task it    *)
(* last started, task[c], which dropping the future does not stop.  The    *)
(* guard's rollback runs in the thread that drops it, beside such a task.  *)
(***************************************************************************)
EXTENDS Integers, Sequences, FiniteSets

CONSTANTS Calls,       \* signups, each of an identifier of its own
          Wants,       \* what they may ask for: a handle and email, and an invite to spend
          Uses,        \* how often an invite can be spent
          Orders,      \* the codes a call may be for: a set for each account it names
          INVITES,     \* the most codes one call writes
          Leavers,     \* signups whose caller may hang up
          Late,        \* signups whose operations may reach the directory after their answer was given up on
          MaxFaults,   \* bound: storage calls that fail
          MaxCrashes   \* bound: times the process dies

ASSUME CallsAssumption ==
  /\ \A w \in Wants : DOMAIN w = Calls
  /\ Leavers \subseteq Calls /\ Late \subseteq Calls
  /\ IsFiniteSet(Calls)
\* The codes of a call are random, and the accounts it names get as many each.
ASSUME OrdersAssumption ==
  \A o \in Orders : o # <<>> /\ Len(o) \in Nat /\ DOMAIN o = 1..Len(o) /\ \A i, j \in DOMAIN o :
    /\ o[i] # {} /\ IsFiniteSet(o[i]) /\ Cardinality(o[i]) = Cardinality(o[j])
    /\ i # j => o[i] \cap o[j] = {}
ASSUME BoundsAssumption == Uses \in Nat /\ MaxFaults \in Nat /\ MaxCrashes \in Nat
ASSUME InvitesAssumption == INVITES \in Nat

VARIABLES wants,     \* what each signup asks for
          order,     \* the codes the administrator asks for
          invites,   \* the codes of the account database
          mint,      \* how far the administrator's call is
          pc,        \* where each signup's future is
          task,      \* the blocking task it started
          undo,      \* what the guard owes if the future is dropped
          left,      \* signups whose caller hung up
          reserved,  \* signups whose key is among the reservations
          files,     \* signups with a directory: key, operation and first commit
          rows,      \* signups with rows in the account database
          holds,     \* what the directory holds under each identifier
          wire,      \* operations still on their way to the directory
          sent,      \* whether the first attempt got onto a connection
          said,      \* what plc::send has settled on so far
          log,       \* the entries of the log: a signup and what is told of it
          marred,    \* signups a storage call failed for while being undone or released
          faults,    \* storage calls that failed so far
          crashes    \* times the process died so far

vars == <<wants, order, invites, mint, pc, task, undo, left, reserved, files, rows, holds, wire, sent, said, log, marred,
          faults, crashes>>

local == <<reserved, files, rows, log>>
remote == <<holds, wire, sent, said>>
asked == <<wants, order>>
minted == <<invites, mint>>
bounds == <<marred, faults, crashes>>

Settling == {"starting", "hashing", "creating"}
Sending == {"first", "asking", "again", "askingAgain", "retiring", "reading"}
Undoing == {"undoRows", "undoKey", "undoDir"}
Places == {"idle", "turned", "releasing", "logging", "created", "over"}
          \cup Settling \cup Sending \cup Undoing
Ends == {"turned", "created", "over"}
Said == {"nothing", "ok", "refused", "unreachable", "uncertain"}

Init ==
  /\ wants \in Wants
  /\ order \in Orders
  /\ invites = {}
  /\ mint = "idle"
  /\ pc = [c \in Calls |-> "idle"]
  /\ task = [c \in Calls |-> "none"]
  /\ undo = [c \in Calls |-> "nothing"]
  /\ left = {}
  /\ reserved = {}
  /\ files = {}
  /\ rows = {}
  /\ holds = [c \in Calls |-> "nothing"]
  /\ wire = {}
  /\ sent = [c \in Calls |-> FALSE]
  /\ said = [c \in Calls |-> "nothing"]
  /\ log = <<>>
  /\ marred = {}
  /\ faults = 0
  /\ crashes = 0

-----------------------------------------------------------------------------
(* What is written here before the directory hears of it. *)

Spent(code) == Cardinality({c \in rows : wants[c].code = code})

\* accounts::available, for the code a signup brings.
CodeLeft(c) == wants[c].code \in invites /\ Spent(wants[c].code) < Uses

\* Handles and emails are unique by an index.
NameFree(c) == \A d \in rows : wants[d].name # wants[c].name

\* Manager::available.
available(c) == CodeLeft(c) /\ NameFree(c)

\* The checks before anything is written, the last of which reads the account
\* database; what passes arms the guard and starts writing.
Ask(c) ==
  /\ pc[c] = "idle"
  /\ \/ /\ pc' = [pc EXCEPT ![c] = "turned"]
        /\ UNCHANGED <<task, undo>>
     \/ /\ available(c)
        /\ pc' = [pc EXCEPT ![c] = "starting"]
        /\ task' = [task EXCEPT ![c] = "reserve"]
        /\ undo' = [undo EXCEPT ![c] = "discard"]
  /\ UNCHANGED <<left, local, remote, bounds>>

\* Where the future goes when a task it awaits gives it an error.
Fails(c, place) ==
  /\ task' = [task EXCEPT ![c] = "none"]
  /\ pc' = IF pc[c] = place THEN [pc EXCEPT ![c] = "undoRows"] ELSE pc

\* start_repo puts the key among the reservations first.
Reserve(c) ==
  /\ task[c] = "reserve"
  /\ \/ /\ reserved' = reserved \cup {c}
        /\ task' = [task EXCEPT ![c] = "repo"]
        /\ UNCHANGED <<pc, faults>>
     \/ /\ faults < MaxFaults
        /\ faults' = faults + 1
        /\ Fails(c, "starting")
        /\ UNCHANGED reserved
  /\ UNCHANGED <<undo, left, files, rows, remote, log, marred, crashes>>

\* The rest of start_repo: the account's directory, key, operation and first
\* commit.  A failure part way leaves some of it there.
StartRepo(c) ==
  /\ task[c] = "repo"
  /\ \/ /\ files' = files \cup {c}
        /\ task' = [task EXCEPT ![c] = "none"]
        /\ pc' = IF pc[c] = "starting" THEN [pc EXCEPT ![c] = "hashing"] ELSE pc
        /\ UNCHANGED faults
     \/ /\ faults < MaxFaults
        /\ faults' = faults + 1
        /\ files' \in {files, files \cup {c}}
        /\ Fails(c, "starting")
  /\ UNCHANGED <<undo, left, reserved, rows, remote, log, marred, crashes>>

\* The password is hashed and the rows are asked for.
Hash(c) ==
  /\ pc[c] = "hashing"
  /\ pc' = [pc EXCEPT ![c] = "creating"]
  /\ task' = [task EXCEPT ![c] = "rows"]
  /\ UNCHANGED <<undo, left, local, remote, bounds>>

\* Mutant: the code is taken on the word of the check before.
CodeAlreadySeen(c) == NameFree(c)

\* What the transaction in Accounts::create looks at again.
Creatable(c) == CodeLeft(c) /\ NameFree(c)

\* Accounts::create, one transaction.  Once it answers the guard stops undoing.
CreateRows(c) ==
  /\ task[c] = "rows"
  /\ \/ /\ Creatable(c)
        /\ rows' = rows \cup {c}
        /\ task' = [task EXCEPT ![c] = "none"]
        /\ IF pc[c] = "creating"
           THEN pc' = [pc EXCEPT ![c] = "first"] /\ undo' = [undo EXCEPT ![c] = "keep"]
           ELSE UNCHANGED <<pc, undo>>
        /\ UNCHANGED faults
     \/ /\ ~Creatable(c)
        /\ Fails(c, "creating")
        /\ UNCHANGED <<rows, undo, faults>>
     \/ /\ faults < MaxFaults
        /\ faults' = faults + 1
        /\ Fails(c, "creating")
        /\ UNCHANGED <<rows, undo>>
  /\ UNCHANGED <<left, reserved, files, remote, log, marred, crashes>>

-----------------------------------------------------------------------------
(* The directory, which is not part of this server: what an exchange with it *)
(* may do there and what may come back.                                      *)

\* An operation is posted.  No connection, no effect; an answer is true; and
\* with no answer it arrived, never will, or has yet to.
Post(c, answer) ==
  \/ answer = "unreachable" /\ UNCHANGED <<holds, wire>>
  \/ answer = "refused" /\ UNCHANGED <<holds, wire>>
  \/ /\ answer \in {"ok", "uncertain"}
     /\ holds[c] # "retired"
     /\ holds' = [holds EXCEPT ![c] = "held"]
     /\ UNCHANGED wire
  \/ answer = "uncertain" /\ UNCHANGED <<holds, wire>>
  \/ /\ answer = "uncertain" /\ c \in Late
     /\ wire' = wire \cup {<<c, "operation">>}
     /\ UNCHANGED holds

\* A tombstone follows the operation or is refused.
PostTombstone(c, answer) ==
  \/ answer \in {"unreachable", "refused", "uncertain"} /\ UNCHANGED <<holds, wire>>
  \/ /\ answer \in {"ok", "uncertain"}
     /\ holds[c] = "held"
     /\ holds' = [holds EXCEPT ![c] = "retired"]
     /\ UNCHANGED wire
  \/ /\ answer = "uncertain" /\ c \in Late
     /\ wire' = wire \cup {<<c, "tombstone">>}
     /\ UNCHANGED holds

\* What is on its way arrives, and is taken where it follows.
Arrive(c, what) ==
  /\ <<c, what>> \in wire
  /\ wire' = wire \ {<<c, what>>}
  /\ holds' = [holds EXCEPT ![c] = IF what = "operation" /\ @ = "nothing" THEN "held"
                                   ELSE IF what = "tombstone" /\ @ = "held" THEN "retired" ELSE @]
  /\ UNCHANGED <<pc, task, undo, left, local, sent, said, bounds>>

\* What Client::holds may report.
Reads(c) == IF holds[c] = "held" THEN {"yes", "unknown"} ELSE {"no", "unknown"}

-----------------------------------------------------------------------------
(* plc::send, confirm and retire. *)

\* Mutant: an error leaves the rows to whoever finds them.
AlwaysStands(c) == "over"

\* A guard dropped by a future that is over.
Dropped(c) == IF undo[c] = "discard" THEN "undoRows" ELSE "over"

\* The call has its answer, the guard knows what it owes, and the reservation
\* is about to be released.
Settle(c, owes) ==
  /\ undo' = [undo EXCEPT ![c] = owes]
  /\ pc' = [pc EXCEPT ![c] = "releasing"]
  /\ task' = [task EXCEPT ![c] = "release"]

\* What create makes of what send returned.
Answered(c, answer) ==
  /\ said' = [said EXCEPT ![c] = answer]
  /\ IF answer = "uncertain"
     THEN pc' = [pc EXCEPT ![c] = "retiring"] /\ UNCHANGED <<task, undo>>
     ELSE Settle(c, "discard")

First(c) ==
  /\ pc[c] = "first"
  /\ \E answer \in Said \ {"nothing"} :
       /\ Post(c, answer)
       /\ sent' = [sent EXCEPT ![c] = answer = "uncertain"]
       /\ IF answer \in {"ok", "refused"}
          THEN Answered(c, answer)
          ELSE pc' = [pc EXCEPT ![c] = "asking"] /\ UNCHANGED <<task, undo, said>>
  /\ UNCHANGED <<left, local, bounds>>

Asking(c) ==
  /\ pc[c] = "asking"
  /\ \E read \in Reads(c) :
       IF read = "yes"
       THEN Answered(c, "ok")
       ELSE pc' = [pc EXCEPT ![c] = "again"] /\ UNCHANGED <<task, undo, said>>
  /\ UNCHANGED <<left, local, holds, wire, sent, bounds>>

Again(c) ==
  /\ pc[c] = "again"
  /\ \E answer \in Said \ {"nothing"} :
       /\ Post(c, answer)
       /\ IF answer = "ok"
          THEN Answered(c, "ok")
          ELSE /\ said' = [said EXCEPT ![c] = answer]
               /\ pc' = [pc EXCEPT ![c] = "askingAgain"]
               /\ UNCHANGED <<task, undo>>
  /\ UNCHANGED <<left, local, sent, bounds>>

\* Mutant: a second attempt that never connected settles the first as well.
ForgetsTheFirst(c, read) ==
  IF read = "yes" THEN "ok"
  ELSE IF read = "no" \/ said[c] # "uncertain" THEN said[c] ELSE "uncertain"

\* What the last read back settles: nothing, if nobody answered and either
\* attempt may have got out.
Confirmed(c, read) ==
  IF read = "yes" THEN "ok"
  ELSE IF read = "no" \/ (~sent[c] /\ said[c] # "uncertain") THEN said[c] ELSE "uncertain"

\* Mutant: it asks until somebody answers.
AskingForever(c) ==
  /\ pc[c] = "askingAgain"
  /\ \E read \in Reads(c) :
       IF read = "unknown"
       THEN pc' = [pc EXCEPT ![c] = "asking"] /\ UNCHANGED <<task, undo, said>>
       ELSE Answered(c, Confirmed(c, read))
  /\ UNCHANGED <<left, local, holds, wire, sent, bounds>>

AskingAgain(c) ==
  /\ pc[c] = "askingAgain"
  /\ \E read \in Reads(c) : Answered(c, Confirmed(c, read))
  /\ UNCHANGED <<left, local, holds, wire, sent, bounds>>

\* The identifier is retired, which settles nothing unless it was taken.
Retiring(c) ==
  /\ pc[c] = "retiring"
  /\ \E answer \in Said \ {"nothing"} :
       /\ PostTombstone(c, answer)
       /\ IF answer = "ok"
          THEN pc' = [pc EXCEPT ![c] = "reading"] /\ UNCHANGED <<task, undo>>
          ELSE Settle(c, "keep")
  /\ UNCHANGED <<left, local, sent, said, bounds>>

Reading(c) ==
  /\ pc[c] = "reading"
  /\ \E read \in Reads(c) : Settle(c, IF read = "no" THEN "discard" ELSE "keep")
  /\ UNCHANGED <<left, local, remote, bounds>>

-----------------------------------------------------------------------------
(* The way out. *)

\* The reservations without this signup's.
Released(c) == reserved \ {c}

\* The reservation goes, whatever the directory said.  A future still there
\* stands the guard down and logs the account, or returns the error.
Release(c) ==
  /\ task[c] = "release"
  /\ \/ reserved' = Released(c) /\ UNCHANGED <<marred, faults>>
     \/ /\ faults < MaxFaults
        /\ faults' = faults + 1
        /\ marred' = marred \cup {c}
        /\ UNCHANGED reserved
  /\ IF pc[c] = "releasing" /\ said[c] = "ok"
     THEN /\ undo' = [undo EXCEPT ![c] = "nothing"]
          /\ pc' = [pc EXCEPT ![c] = "logging"]
          /\ task' = [task EXCEPT ![c] = "log"]
     ELSE /\ pc' = IF pc[c] = "releasing" THEN [pc EXCEPT ![c] = Dropped(c)] ELSE pc
          /\ task' = [task EXCEPT ![c] = "none"]
          /\ UNCHANGED undo
  /\ UNCHANGED <<left, files, rows, remote, log, crashes>>

\* The log is asked for its entries.
Logs(c) == task[c] = "log"

\* event::account_created.
account_created(c) == <<<<c, "identity">>, <<c, "account">>, <<c, "append">>, <<c, "sync">>>>

\* Sequencer::extend, one transaction.
extend(entries) == log' = log \o entries

\* The account's entries, all of them or none.
Log(c) ==
  /\ Logs(c)
  /\ \/ extend(account_created(c)) /\ UNCHANGED faults
     \/ faults < MaxFaults /\ faults' = faults + 1 /\ UNCHANGED log
  /\ task' = [task EXCEPT ![c] = "none"]
  /\ pc' = IF pc[c] = "logging" THEN [pc EXCEPT ![c] = "created"] ELSE pc
  /\ UNCHANGED <<undo, left, reserved, files, rows, remote, marred, crashes>>

\* One part of discard, which goes on to the next whether or not it worked.
Undoes(c, place, then) ==
  /\ pc[c] = place
  /\ pc' = [pc EXCEPT ![c] = then]
  /\ UNCHANGED <<task, undo, left, remote, log, crashes>>

\* Whether this call to storage works.
Works == UNCHANGED <<marred, faults>>
FailsFor(c) == faults < MaxFaults /\ faults' = faults + 1 /\ marred' = marred \cup {c}

UndoRows(c) ==
  /\ Undoes(c, "undoRows", "undoKey")
  /\ \/ rows' = rows \ {c} /\ Works
     \/ UNCHANGED rows /\ FailsFor(c)
  /\ UNCHANGED <<reserved, files>>

UndoKey(c) ==
  /\ Undoes(c, "undoKey", "undoDir")
  /\ \/ reserved' = reserved \ {c} /\ Works
     \/ UNCHANGED reserved /\ FailsFor(c)
  /\ UNCHANGED <<files, rows>>

UndoDir(c) ==
  /\ Undoes(c, "undoDir", "over")
  /\ \/ files' = files \ {c} /\ Works
     \/ UNCHANGED files /\ FailsFor(c)
  /\ UNCHANGED <<reserved, rows>>

\* The caller goes, the future is dropped where it waits and the guard with it.
HangUp(c) ==
  /\ c \in Leavers
  /\ pc[c] \in Settling \cup Sending \cup {"releasing", "logging"}
  /\ pc' = [pc EXCEPT ![c] = Dropped(c)]
  /\ left' = left \cup {c}
  /\ UNCHANGED <<task, undo, local, remote, bounds>>

-----------------------------------------------------------------------------
(* The codes. *)

\* create_invite_codes, and create_invite_code for one: the codes are drawn
\* before any is written, and too many of them are refused.
create_invite_codes ==
  /\ mint = "idle"
  /\ mint' = IF Len(order) * Cardinality(order[1]) > INVITES THEN "refused" ELSE "writing"
  /\ UNCHANGED <<invites, faults>>

\* All the codes of the call.
Codes == UNION {order[i] : i \in DOMAIN order}

\* The accounts whose codes are still to be written.
Waiting == {i \in DOMAIN order : ~(order[i] \subseteq invites)}

\* Accounts::create_invites: an account's codes, one transaction of its own.
\* A failure ends the call, and leaves the codes written before it.
create_invites ==
  /\ mint = "writing"
  /\ \/ /\ \E i \in Waiting : (\A j \in Waiting : i <= j) /\ invites' = invites \cup order[i]
        /\ mint' = IF Cardinality(Waiting) = 1 THEN "answered" ELSE "writing"
        /\ UNCHANGED faults
     \/ /\ faults < MaxFaults
        /\ faults' = faults + 1
        /\ mint' = "failed"
        /\ UNCHANGED invites

mint_invites ==
  /\ create_invite_codes \/ create_invites
  /\ UNCHANGED <<pc, task, undo, left, local, remote, marred, crashes>>

\* The process dies with every signup in it, and nothing is undone.
Crash ==
  /\ crashes < MaxCrashes
  /\ crashes' = crashes + 1
  /\ left' = left \cup {c \in Calls : pc[c] \notin Ends \cup {"idle"} \/ task[c] # "none"}
  /\ pc' = [c \in Calls |-> IF pc[c] \in Ends \cup {"idle"} THEN pc[c] ELSE "over"]
  /\ task' = [c \in Calls |-> "none"]
  /\ mint' = IF mint = "writing" THEN "failed" ELSE mint
  /\ UNCHANGED <<invites, undo, local, remote, marred, faults>>

Step(c) ==
  \/ Reserve(c) \/ StartRepo(c) \/ Hash(c) \/ CreateRows(c)
  \/ First(c) \/ Asking(c) \/ Again(c) \/ AskingAgain(c) \/ Retiring(c) \/ Reading(c)
  \/ Release(c) \/ Log(c) \/ UndoRows(c) \/ UndoKey(c) \/ UndoDir(c)

Next ==
  /\ \/ /\ \/ \E c \in Calls : Ask(c) \/ Step(c) \/ HangUp(c)
           \/ \E c \in Calls, what \in {"operation", "tombstone"} : Arrive(c, what)
        /\ UNCHANGED minted
     \/ mint_invites
     \/ Crash
  /\ UNCHANGED asked

Spec == Init /\ [][Next]_vars

\* The runtime polls futures and runs tasks, and every exchange with the
\* directory has a deadline; nothing makes a caller come or go.
FairSpec == Spec /\ \A c \in Calls : WF_vars(Step(c) /\ UNCHANGED <<asked, minted>>)

-----------------------------------------------------------------------------
(* Properties. *)

TypeOK ==
  /\ pc \in [Calls -> Places]
  /\ task \in [Calls -> {"none", "reserve", "repo", "rows", "release", "log"}]
  /\ undo \in [Calls -> {"nothing", "discard", "keep"}]
  /\ left \in SUBSET Calls
  /\ reserved \in SUBSET Calls
  /\ files \in SUBSET Calls
  /\ rows \in SUBSET Calls
  /\ holds \in [Calls -> {"nothing", "held", "retired"}]
  /\ wire \in SUBSET (Calls \X {"operation", "tombstone"})
  /\ sent \in [Calls -> BOOLEAN]
  /\ said \in [Calls -> Said]
  /\ log \in Seq(Calls \X {"identity", "account", "append", "sync"})
  /\ invites \subseteq Codes
  /\ mint \in {"idle", "writing", "refused", "failed", "answered"}
  /\ marred \in SUBSET Calls
  /\ faults \in 0..MaxFaults
  /\ crashes \in 0..MaxCrashes

\* Two signups never spend the last use of one code between them, nor end up
\* with one handle or email, although both saw it free before either wrote
\* (Accounts::create, accounts.rs 237-238).  A code that was spent is one of the
\* table's, and every code an administrator was answered with is there to spend.
SpentOnce ==
  /\ TypeOK
  /\ \A c \in rows : wants[c].code \in invites
  /\ mint = "answered" => Codes \subseteq invites
  /\ \A c \in Calls : Spent(wants[c].code) <= Uses
  /\ \A c, d \in rows : wants[c].name = wants[d].name => c = d

\* A signup that was refused has left nothing: no rows, no files and no key,
\* so the name is free again (docs/architecture.md 43-44).  And its reservation
\* is spent on every way out that returns, the one that keeps an account nobody
\* got an answer for included (create, account.rs 479-481).
RefusedLeavesNothing ==
  \A c \in Calls \ (left \cup marred) :
    /\ pc[c] = "over" /\ undo[c] = "discard" => c \notin rows \cup files \cup reserved
    /\ pc[c] \in Ends => c \notin reserved

\* The account database, the log, the caller and the directory agree.  Whoever
\* is told they have an account has its rows, its files and its identifier,
\* whichever attempt or read back said so; the log tells the network of no
\* account the directory has not taken (docs/architecture.md 34-35), nor of a
\* commit before the account it belongs to (event.rs 120-124); and an
\* identifier that is held has its account (50-52), for signups whose caller
\* stays and whose exchanges with the directory are over when they are given up
\* on, through faults and crashes and whatever the other signups meet.
DirectoryAgrees ==
  /\ \A c \in Calls : pc[c] = "created" => c \in rows /\ c \in files /\ holds[c] = "held"
  /\ \A i \in DOMAIN log : log[i][1] \in rows /\ holds[log[i][1]] = "held"
  /\ \A i \in DOMAIN log : log[i][2] = "append" =>
       {"identity", "account"} \subseteq {log[j][2] : j \in {j \in 1..(i - 1) : log[j][1] = log[i][1]}}
  /\ \A c \in Calls \ (Leavers \cup Late) : holds[c] = "held" => c \in rows

\* Every signup that starts comes to an end, the guard's work included.
EverySignupEnds == \A c \in Calls : pc[c] = "starting" ~> pc[c] \in Ends /\ task[c] = "none"

=============================================================================
