# A TLA+ model of manapds

manapds is an atproto personal data server: it hosts accounts, each with a
signed repository of records, and tells the network about them. This directory
holds TLA+ models of the parts of it where something can go wrong between two
steps, the TLC configurations that check them on small instances, and proofs,
checked by TLAPS, of what should hold on any instance.

## The system

| part | source | state it keeps | what makes it hard |
| --- | --- | --- | --- |
| repository writes | `src/account.rs` (`write`, `commit_writes`), `src/repo.rs`, `src/store/actor.rs` (`commit`), `src/store/sequencer.rs` | the root of each repository, the per-account turn, the log, a copy of the root | callers hang up while blocking tasks go on; a second server on the same files; a crash between the commit and its log entry |
| planning a write | `src/server/repo.rs`, `src/account.rs` (`plan`, `superseded`), `src/account/backlink.rs` | the index of records and their links | a batch whose writes depend on one another; records that replace others |
| the tree | `src/repo/mst.rs` | a search tree laid out by the hash of its keys | its shape is a function of what it holds; what an edit drops |
| blobs | `src/account.rs` (`upload_blob`, `cleared`, `sweep_blobs`, `reconcile`), `src/store/actor.rs` (`claim`, `index`), `src/store/blobs.rs` | rows naming blobs, files under an upload name, files under the served name | rows and files are two stores and no transaction spans them |
| signup and invites | `src/account.rs` (`create`, `settle`, `Undo`, `create_invites`), `src/plc.rs`, `src/store/keys.rs`, `src/store/accounts.rs` | account rows, the actor directory, reserved keys, codes and their uses, what the directory holds | a directory that answers late or not at all; a caller that hangs up halfway; the undo; two signups for the last use |
| sessions and tokens | `src/account.rs` (`login`, `rotate`, `revoke_*`), `src/store/accounts.rs`, `src/xrpc/auth.rs`, `src/server/session.rs`, `src/server/app_password.rs` | refresh tokens and their successors, app passwords; a token keeps none | retries of an exchange, revoking beside one, a password checked and then used, two expiries for one session |
| rate limits | `src/xrpc/limit.rs` | counters per key and window | a full table, a window that ends, a clock read before the lock is had, counters at their limit |
| downloads | `src/account.rs` (`export`), `src/store/actor.rs` (`blocks_since`), `src/server/sync.rs` | a turn, a channel, one snapshot | a reader that stalls or goes away; a thread that cannot be cancelled |
| listings | `src/server/repo.rs`, `src/server/blob.rs`, `src/server/sync.rs` and the queries under them | a cursor the client holds | rows that come and go between two pages, stamps that tie |
| start and stop | `src/main.rs`, `src/store.rs` (`Running`), `src/store/db.rs` | the marker file, the ledger of migrations | an unclean stop, a second server, two versions on one database |
| HTTP, parsing, formats | `src/server/`, `src/xrpc/`, `src/syntax/`, `src/repo/car.rs`, ... | none | conversions |

How they meet: a write takes the account's turn, works out a revision of the
tree, lands it in one transaction of the account's own database (blocks, index
of records, claims of blobs, root), appends to the log all accounts share, and
copies the root to the account database. An upload puts a file and a row that a
later write claims. A signup writes a first revision, a key and rows, and
registers the identifier with a directory outside the server. Every call comes
in through the budgets.

Two facts of the runtime shape the models. A handler is a future, and a client
that hangs up drops it at whatever await it is on; a blocking task it started
goes on to its end. And more than one process may have the same files open,
with only SQLite's transactions between them.

## Modules

| module | models | state and actions |
| --- | --- | --- |
| `RepoWrites` | `Manager::write`, `commit_writes`, `Repo::apply`, `Actor::commit`, `log_commit`, `update_root`, the clock of revisions | `pc` is the future of each call and `task` the blocking task it started; `Take`, `ReadRoot`, `LoadAndPlan`, `Apply`, `Land`, `StartLog`, `AppendLog`, `UpdateRoot` are the steps in order, `HangUp`, `CommitFails`, `Crash` what interrupts them |
| `RevisionLog` | what a write promises | a root, the revision not yet published, a log: one revision at a time is committed, then published or lost with the process |
| `RepoWritesProofs` | theorems about `RepoWrites` | |
| `Blobs` | the tables `blob` and `record_blob`, the two directories of files | writes (`Link`, `Commit`, `Rollback`, `Unlink`, `Recheck`, `Delete`, `Drop`), uploads and the sweep behind them, the reconcile after an unclean stop; `get` is what getBlob answers |
| `BlobsProofs` | theorems about `Blobs` | |
| `Signup` | `Manager::create`, `plc::Client::send`, the guard `Undo`, the invite codes an administrator writes | the same split into future and task; the directory is a set of operations held and on their way; `mint_invites` writes one account's codes in a transaction of its own |
| `SignupProofs` | theorems about `Signup` | |
| `Sessions` | `refresh_token` and `app_password` under sign-in, `rotate`, sign-out | a refresh is the statements `rotate` makes, one step each, inside the mutex of its own server |
| `Access` | `src/xrpc/auth.rs` and the methods that hand tokens out, over `Sessions` | a token is what it claims; the extractors (`Access`, `Full`, `Refresh`, `Closing`) are predicates of what a request offers, and a method takes its step in `Sessions` when its extractor lets it |
| `SessionsProofs` | theorems about `Sessions` and `Access` | |
| `SearchTree` | `src/repo/mst.rs`, `Repo::apply`, the blocks `landing` stores and forgets, the blocks of a proof | the tree's operations are operators over nodes; `Apply` is one revision |
| `Planning` | createRecord, putRecord, deleteRecord, applyWrites, the plan and the backlinks, over `SearchTree` | `Request` is a whole request: what it asks, the plan, the revision, the links, the log entry and the answer |
| `Limits` | `Limiter::consume`, the middleware `global`, `writing` | reading the clock and counting are two steps; a request runs through its list of budgets |
| `LimitsProofs` | theorems about `Limits` | |
| `Rows` | ORDER BY and LIMIT | what every page of a download or a listing ends with |
| `Downloads` | `Manager::export`, `Actor::blocks_since`, the stream of getRepo | the turns, the thread and its transaction, the channel, the patience; beside `Commit` |
| `Listings` | listRecords, listBlobs, listMissingBlobs, listRepos | each page is one query, sorted and cut, and the cursor made of its last row; writes land between pages |
| `ListingsProofs`, `DownloadsProofs` | theorems about `Listings` and `Downloads`, on the same lemmas about `Rows` | |
| `Startup` | `serve`, `reconcile`, `Running`, migrations | a process opens its databases, binds, looks for the marker, takes it, walks, stops; any step may fail or be its last |
| `StartupProofs` | theorems about `Startup` | |

`Planning` extends `SearchTree` and `Access` extends `Sessions`: each pair is one
specification, the second with the first's steps inside its own. `MCReads` puts
`Downloads` and `Listings` beside each other. The plan a write carries is
`LoadAndPlan` in `RepoWrites`, which knows of it only whether the root it was
made for is still the root; what the walk of `Startup` does to one account's
files is the reconcile of `Blobs`.

`MC*` modules give the constants values for TLC. Operators whose comment begins
with "Mutant" are plausible mistakes in the definition after them; substituting
one shows that a property notices.

Data is kept to what properties tell apart. A commit is its revision, its
parent, its author and the calls whose writes it holds. A block is named by
what it holds. A blob is a model value. Budgets, windows, grace periods and
lifetimes are small numbers with the order of the real ones.

## Runs

| run | instance | shows |
| --- | --- | --- |
| `writes_server` | one process, three writes, a storage fault, a crash, callers that stay | the log is in order, no write finds the root moved, the copy of the root never goes back, and `RepoWrites` implements `RevisionLog` |
| `writes_two_servers` | two processes, three writes, one caller that may leave, a timestamp field of three values | commits of one process take turns; an answered write is there and a refused one is not; a root is only replaced by one built on it; every call is answered |
| `writes_log_order_hang_up` | one process, two writes, one leaver | `LogInOrder` is violated: see below |
| `blobs_server` | two uploads of the same bytes, three writes of up to two records, every caller may leave, one rollback | a record's blob is served while no caller has left, and the only step that ever takes a file in use is the delete of a write whose caller left |
| `blobs_reconcile` | uploads, two writes, a window that passes, a crash and the walk after it | an upload keeps its file and row for its window, and the walk sets about no file in use |
| `signup` | two signups after one name or one use of a code, one of which may be left or have late operations; a fault, a crash; codes written at once, in two shares, or refused as too many | names and codes are spent once; what is answered or logged is registered and stored; a refused signup leaves nothing; every signup ends |
| `sessions` | a token once exchanged, two more exchanges and a sign-in over two servers, a sign-out, an app password written or taken away, a clock past the grace period and every lifetime | one token has one successor, which is there; nothing lengthens a token, widens what it reaches or brings back the session of a removed app password; whoever holds a session can end it; `rotate`'s loop ends |
| `planning` | every request of the four methods, batches of two among them, without end, on five keys in three shapes of tree | the tree is the one its records determine, unless a batch emptied it on the way; what is stored is what the root reaches, and proofs and lookups agree with it; a record held to one replaces the others; the log and the answer say what was done |
| `tree_emptied` | the same | `TreeIsItsRecords` is violated: see below |
| `limits` | two requests at a time of each kind, clock to 3, tables of two keys | no key is granted more than twice its budget in a window's length less the longest wait for the lock; tables stay bounded; a served call was counted by all its budgets; a refusal says when to return |
| `reads` | two downloads after one turn, two revisions, a read that fails, readers that stall or leave; and each listing walked with one row to a page and two changes under it | a download is one revision's blocks in order, turns come back though nobody has to read, and a walk lists in order, once, and misses nothing that was there from its first page to its last |
| `startup` | two servers of different versions and the command, three starts, a fault, a kill at any step, two databases, two accounts | a table has been through each migration once and in order; a file an unclean stop left is remembered until a walk came to it; a walk comes to every account |

Why the bounds are enough to mean something. Three writes are the fewest with
one that lands, one that waits for it and one that comes between; two attempts
let one retry fail. The timestamp field is small so that its top is reached. In
`Blobs` one content and two uploads of it are the case that crosses, and a
second record lets a batch move a blob between two. In `Sessions` the grace
period, the lifetime and the clock are such that a token can be exchanged,
retried, and expire, and a second is two ticks so that a row and its token run
out apart. The three shapes in `planning` have keys on one layer, on
neighbouring ones and with a layer skipped, the highest first, last and in the
middle. In `limits` windows of 2 and 3 pass within the clock, a request may hold
a time one unit old, and counts saturate at 3. In `reads` a page is one row, so
every cursor is used, and the clock ticks twice to a millisecond so that stamps
tie. In `startup` three starts are a crash, the start that walks after it, and a
second server beside that.

Random behaviours of larger instances (four or five calls, two crashes, two
sign-outs, three versions, clocks two or three times as long) met no violation
either. They are not exhaustive and are no run of this directory.

Deadlock is checked where the system cannot stop, and not where the calls of an
instance come to an end.

## Fairness

Liveness is checked with weak fairness of the steps of a call and of the tasks
it started, and of nothing else: the runtime polls every future that can go on
and runs every blocking task to its end. Nothing makes a caller hang up, a
storage call fail, a reader read or a process die. `EveryCallAnswered` needs no
more than that because the turn is handed on when it is let go of and a commit
gives up after `ATTEMPTS`. `EverySignupEnds` holds with a directory that never
answers, since each exchange has a time limit in `src/plc.rs`.
`EveryRefreshEnds` is about the loop in `rotate`, between two servers.
`EveryDownloadGetsATurn` asks fairness of the semaphore, which is first come
first served, and of the thread with its patience; none of the reader.
`EveryAccountIsWalked` asks it of the walk of a process that is up.

## What is proved

Every safety property a passing run checks has a theorem, but for the four of
`planning`. A theorem is for every value of the constants under the assumptions
the modules name, which TLC evaluates on every run. They ask for little: `None`
is none of the values it stands beside, bounds and sizes are numbers, sets that
are counted or sorted are finite. Those that say something of the code are given
with the theorem that needs them. Hardly any of the properties is inductive;
what had to be added to each is where the argument is.

### `RepoWritesProofs`

For any number of processes and calls, any timestamp field and any bounds:

- `TypeCorrect`, `TurnsAreTaken`, `AnswersStayTrue`: type correctness, commits
  of one process take turns, an answered write stays in the repository and a
  refused one never gets there;
- `RootAlwaysMovesOn`: the root is only ever replaced by a later revision built
  on it, as an action property;
- `NeverStartsOver`: with one process no write finds the root moved;
- `LogStaysInOrder`, `MirrorMovesOn` and `WritesAreSerial`: with one process and
  callers that stay, the log is in order, the copy of the root never goes back,
  and `RepoWrites` implements `RevisionLog`. The run `writes_log_order_hang_up`
  is why callers have to stay.

That an answered write stays depends on a commit about to land holding what its
root held (`BuiltInv`), on calls that have landed being in the root
(`HoldsInv`), and on who may be inside a commit at all (`TurnInv`, the
correspondence between a future, its task and the turn); `TriesInv` carries the
count of attempts. Their conjunction with the type invariant is `Inv`. `SoloInv`
adds, for one process, that the root read is still the root, and `LogInv`, for
callers that stay, that what is not yet logged is later than all that is.
`update_root` writes whatever it is given, so that it never goes back rests on
the turn: `MirrorInv` says that what is about to be copied is later than the
copy. The steps of a commit are first reduced to three shapes (working, landing,
ending), so that each invariant is shown against a handful of cases and not
every action.

### `BlobsProofs`

For any blobs, uploads, records and writes, in batches of one record or two
(which is what `Blobs` has for a batch), and any number of windows, rollbacks
and crashes:

- `ClaimsHold`: every claim is a record's, every record's blob is claimed, and
  it is served until a caller leaves while its write clears or a walk begins;
- `UploadsWait`: an upload waiting for its record has its file;
- `FreshUploadsStay`: no sweep takes the row of an upload inside its window;
- `StraysAloneAreTaken`: the walk after an unclean stop sets about no file a
  record is served from;
- `ServedFilesStay`: the only steps that ever take such a file are the delete of
  a write whose caller left, and of a walk that looked before the claim.

First, what one item of a batch makes of the tables (`Sound`), and from it what
the transaction would leave (`Landing`, `WorkInv`); then what is about to be
deleted: it is nobody's (`SpentInv` for uploads and sweeps, `DoubtInv` for a
write in its turn), files are as old as the rows that name them (`AgesInv`,
`FilesInv`), and what a walk read no row of and is now claimed was uploaded or
claimed inside the window (`WalkInv`), which is why its cutoff is enough.

### `SignupProofs`

For any number of signups, names, codes, faults and crashes, and whatever the
directory answers or fails to:

- `RefusalsLeaveNothing`: a refused signup has left no row, file or key,
  and every way out that returns spends its reservation, unless its caller left
  or a store failed as it was undone;
- `DirectoryAndRowsAgree`: whoever is told they have an account has one, the log
  tells of no other and in order, and an identifier the directory holds has its
  account, unless its caller left or its operation was late;
- `CodesAreSpentOnce`: two signups that both saw a name or a code's last use free
  do not both get it, and every code an administrator was answered with is there.

`CallInv` is one signup's: what its future awaits, what its guard owes, what is
written, what `send` settled on against what the directory holds, and that an
operation that is undone is not at the directory (`ClearInv`, the heart of it:
it is what the two read backs are for). Nothing two signups share matters to it
but the log, so each step is shown to be one signup's alone. `SpentInv` then
counts, over `MintInv`, the progress of an administrator's call.

### `SessionsProofs`

For any number of servers, calls, ids, sign-outs and app passwords and any grace
period shorter than a lifetime:

- `SuccessorIsOne`: exchanges of one token arrive at one successor, and its row
  is there unless it was signed out of. The exception is a token whose own row
  went and came back (`back`), and rows come back only after a sign-out;
- `ExchangeNeverLengthens`: no step moves a row's expiry up;
- `AccessImplementsSessions`: the methods of `Access` take no step `Sessions`
  does not, so both hold under them;
- `PasswordAloneIsFull`: no chain of exchanges makes a full session of an app
  password's;
- `RevokedIsOver`: what a removed app password opened is let in for no longer
  than an access token lasts, unless a call was halfway;
- `SessionsCanBeClosed`: the holder of a refresh token can end the session while
  its row stands, and exchange the token until the row's last second.

The invariant, `SessionsInv`, says what a call knows between reading a row and
writing it: until one exchange the row is as it was read, after it shorter and
with the successor named (`Kept`). That a successor outlives the row that names
it (`Chain`) needs more than it looks: an exchange cuts the successor too, so the
call must have read the clock no earlier than whoever cut the row before
(`Before`). With that, rows that run out or lose their app password go from the
old end of a chain, and only a sign-out leaves a gap an exchange can fill.
`AccessInv` puts beside it what every token handed out has in the rows: a refresh
token runs out no sooner than its row, an access token of a removed app password
by itself.

### `LimitsProofs`

For any budgets, windows and threads, and any order of clocks and locks:

- `KeysAreAlwaysLetGo`: a table holds at most `KEYS` keys, none of which was over
  at its last sweep;
- `WindowsAreWaitedOut`: a window that is not over stays, keeps its end and gives
  no points back;
- `TwoBudgetsAtMost`: a key is granted at most two budgets in any stretch as long
  as a window less `MaxStall`;
- `EveryCallHasPaid`: a request is served once every budget it falls under has
  counted it; one the shared budget refused was counted by no other.

They rest on `StallAssumption`: a thread waits for the lock for less
than a window. Without it a late clock may open a window that is over when it is
written; `LimitsInv` carries how old a thread's clock may be. The stretch of
`TwoBudgetsAtMost` is shorter than a window because a request may open one with
a clock `MaxStall` old: over a whole window's length three budgets can be
granted, as the attempt to prove it found. `watched` and `granted` are history
variables that pick any key and any stretch; `GrantsInv` tells a window opened
before the stretch from the last one in it, and allows one budget from each.
`PaidInv` is that the budgets asked and the ones to ask are the request's, in
order.

### `StartupProofs`

For any processes, versions, databases, accounts, faults and crashes:

- `MarkerIsKept`: while one server at a time has the directory, a file nothing
  holds is one the marker tells of, or one a walk came to or was stopped short of;
- `MigrationsRunOnce`: two processes on one file run each migration once and in
  order, and one that is past opening a database finds all it knows there.

`MarkerInv` adds that while no two servers have shared the directory at most one
is bound, that it holds the marker once it is up, and that what it need not walk
is accounted for, so the marker that goes as it stops takes nothing with it.
`MigrationsInv` is that tables and ledger agree on a prefix of the migrations
(`Straight`) and how far along it each process can tell it is.

### `ListingsProofs`

For any finite collections, keys, blobs and accounts and any size of a page:

- `ListingsAreInOrder`: the pages of a walk name nothing twice and keep the
  listing's order, whatever is written between them;
- `ListingsMissNothing`: a client that stops at a short page has been shown
  every row that was there all along.

The lemmas about `Rows` come first, and `DownloadsProofs` uses them too: a finite
set under a strict total order has one sequence in that order, with every row in
it once (`Ordered`), and a page cut from it is all of it or leaves out nothing
before its own end (`PageOf`). Then, for each of the five listings, that its
order is such an order, and that a query that goes on from a cursor finds
exactly what comes after the row the cursor stands for, though that row may be
gone (`Edge`, `Upcoming`). `WalkInv` is that what has been there all along is
either shown or comes after the edge. For listRepos this needs `TablesInv`: the
times in the table are ones `stamp` wrote, so a cursor in milliseconds loses
nothing of them.

### `DownloadsProofs`

For any number of readers and turns, any blocks and revisions, and any size of a
page:

- `TurnsComeBack`: every turn is free or held by a thread at work, and the queue
  is as long as those who wait are many, through every hang-up, fault and lapse;
- `DownloadsAreOneRevision`: what a reader was sent is the pages of one
  revision's file, in order and from the first, with a failure nowhere but at the
  end; and a stream that just ends, to a reader that kept up, is the whole file.

`LineInv` strengthens the first: the queue has each who waits once, so that
whoever leaves it leaves one place. The second rests on `Stream`, of each
download: with n pieces sent, the mark the next page begins past is the last row
of the nth page (`Reading`), the piece in hand is the next one, and it is the
last just when it is not full (`Handing`); so a thread that stops has sent all
(`Complete`). The page past a mark is the file's next because the order is
total on (revision, block) and the snapshot does not move. A repository that is
exported has a first revision, so `MaxRev` is at least 1.

### Only model-checked

- Liveness: `EveryCallAnswered`, `EverySignupEnds`, `EveryRefreshEnds`,
  `EveryDownloadGetsATurn`, `EveryAccountIsWalked`. Fairness and `ENABLED` are
  out of the prover's reach.
- `StoreIsTheTree`, `TreeIsItsRecordsUnlessEmptied`, `OneRecordPerSubject` and
  `EntryAndAnswerAreTrue`, of `Planning` over `SearchTree`. The tree's operations
  are recursive operators, and what one computes for every input takes an
  induction over trees, which the installed provers cannot make.

## Where the code and its documentation part

Two runs show a sentence of the repository that the code does not keep.

- `writes_log_order_hang_up`: the turn is meant to be held until the log has the
  commit (src/account.rs:708-710). After the commit task returns, its guard
  belongs to the request, and a caller that leaves during the append lets the
  next write log first.
- `tree_emptied`: a batch that empties a tree of some height and then creates a
  key of a lower layer leaves a taller tree than the same records built afresh
  (src/repo/mst.rs:3-6). A createRecord that supersedes the only record there is
  is such a batch.

Others are set apart by name in a property that passes, which shows that nothing
but the case named breaks it.

- A caller that leaves while its write clears the disk gives the turn up between
  the check and the delete, and the next write's record may lose its file
  (docs/architecture.md:193-196): `OnlyLeaversCross`.
- A signup's guard is armed to delete from the directory's yes until the
  reservation is released; a caller that leaves there has an account taken out
  that the network can resolve, and so does an operation that reaches the
  directory after both read backs (docs/architecture.md:48-52):
  `DirectoryAgrees` is about callers that stay and operations that are not late.
  Rows dropped at the wrong moment are written after their rollback
  (docs/architecture.md:38-39); `SpentOnce` shows it costs nobody a name or a code.
- A token within its grace period brings the session it was exchanged for back
  after a sign-out, and that session may then be exchanged for a second
  successor (src/account.rs:1345-1346): `back`, in `OneSuccessor` and
  `HoldersCanClose`.
- An app password taken away between the check and the session it opens leaves
  that session (src/account.rs:1506-1507), and one taken away while an answer is
  on its way an access token: `crossed` and `late`, in `RevokedRunsOut`.
- A reader dropped for leaving a piece to sit sees the stream just end, as
  tests/account/export.rs expects: `SentIsOneRevision` is about the others.
- Two servers on one directory lose the marker, as docs/architecture.md:188-191
  says, and a clean stop takes it with the walk unfinished: `shared` and `spared`,
  in `MarkerRemembers`.

Smaller ones, met on the way: a root replaced by another process between being
read and being loaded fails the write where docs/architecture.md:144 starts it
over; the reconcile reads a file's age and deletes it in two steps (170-171); a
write refused by its own budget carries headers of the shared one.

## What is not modelled

Computation without state: encodings, syntax of identifiers, signatures,
hashing, configuration, routing. Much of the implementation is this; a
model of it would be the code again, since no property here tells two of its
results apart. The bytes of a CAR file and of a log entry are left out for the
same reason; blocks, pieces and entries are what they hold.

What nothing calls yet: reading the log back, the cache of DID documents,
takedown and quarantine of blobs, `revoke_sessions`.

One query and nothing carried over: listAppPasswords, describeRepo, getBlocks,
and the documents the server answers about itself.

Assumed: SQLite's transactions are atomic and isolated and survive a crash of
the process; a file rename, link or removal is atomic; hashes do not collide; a
request is not held up for a whole rate window between reading the clock and
taking the lock (`MaxStall`).
