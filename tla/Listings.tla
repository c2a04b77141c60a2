------------------------------ MODULE Listings ------------------------------
(***************************************************************************)
(* Listings read a page at a time while the tables change under them:      *)
(* listRecords (either way), listBlobs, listMissingBlobs and listRepos     *)
(* (src/server/repo.rs, blob.rs, sync.rs), over the queries of             *)
(* src/store/actor.rs and src/store/accounts.rs.                           *)
(*                                                                         *)
(* Each page is one query and nothing is kept between two of them but the  *)
(* cursor the client was handed, so writes land between pages.  A table is *)
(* a set of rows.  A key, a CID and a DID are numbers in the order their   *)
(* text sorts.                                                             *)
(***************************************************************************)
EXTENDS Rows

CONSTANTS Collections,  \* collections, as numbers
          Wanted,       \* the one asked for
          Rkeys,        \* record keys, as numbers
          Naming,       \* bound: the keys whose records may name blobs
          Del,          \* sorts above every key
          Blobs,        \* blobs, as numbers
          Dids,         \* accounts, as numbers
          Limit,        \* rows to a page
          Fine,         \* ticks of the clock to a millisecond
          MaxWrites,    \* bound: changes made to the tables
          MaxClock      \* bound: how far the clock runs

ASSUME ListingsAssumption ==
  /\ Collections \subseteq Nat /\ Wanted \in Collections
  /\ Blobs \subseteq Nat /\ Dids \subseteq Nat
  /\ IsFiniteSet(Collections) /\ IsFiniteSet(Blobs) /\ IsFiniteSet(Dids)
  /\ Naming \subseteq Rkeys /\ Rkeys \subseteq 1..(Del - 1) /\ Del \in Nat
  /\ Limit \in Nat \ {0} /\ Fine \in Nat \ {0} /\ MaxWrites \in Nat /\ MaxClock \in Nat

VARIABLES kind,         \* which listing is walked
          record,       \* the record table: an address and its revision
          record_blob,  \* which record names which blob
          blob,         \* the blobs uploaded
          actor,        \* the accounts held, and when each was made
          joining,      \* signups that have read the clock, and when
          clock,        \* the time, in ticks
          writes,       \* changes made so far
          newer,        \* the revision listBlobs was asked to start after, 0 for none
          cursor,       \* what the client was handed, empty at the start
          listed,       \* what it has been shown
          finished,     \* whether it was told there is no more
          steady,       \* what has been there since the walk began
          ever          \* what has been there at any time since

tables == <<record, record_blob, blob, actor, joining, clock>>
asked == <<kind, newer>>
walk == <<cursor, listed, finished>>
walkVars == <<tables, asked, walk, writes, steady, ever>>

\* uri and prefix: an address ends in the key.
Prefix(c) == c * (Del + 1)
Uri(c, k) == Prefix(c) + k
KeyOf(uri) == uri % (Del + 1)
CollectionOf(uri) == uri \div (Del + 1)

\* The records a listing can tell apart: a collection and its neighbours, or
\* the ones that name blobs.
Uris(what) ==
  CASE what \in {"newest", "oldest"} -> {Uri(c, k) : c \in Collections, k \in Rkeys}
    [] what \in {"blobs", "missing"} -> {Uri(Wanted, k) : k \in Naming}
    [] OTHER -> {}

\* What a listing is a listing of.
Contents(what, rev, rec, named, held, actors) ==
  CASE what \in {"newest", "oldest"} -> {r.uri : r \in {r \in rec : CollectionOf(r.uri) = Wanted}}
    [] what = "blobs" -> {n.blob : n \in {n \in named : \E r \in rec : r.uri = n.uri /\ r.rev > rev}}
    [] what = "missing" -> {n.blob : n \in named} \ held
    [] what = "repos" -> actors

\* An account database and an account's own, in any state a walk can meet.  A
\* record that names a blob nobody uploaded comes with a database another
\* server wrote.
WalkInit ==
  /\ kind \in {"newest", "oldest", "blobs", "missing", "repos"}
  /\ newer \in IF kind = "blobs" THEN {0, 1} ELSE {0}
  /\ record \in {{[uri |-> u, rev |-> 1] : u \in us} : us \in SUBSET Uris(kind)}
  /\ record_blob \in IF kind \in {"blobs", "missing"}
                     THEN SUBSET {[uri |-> r.uri, blob |-> b] : r \in record, b \in Blobs}
                     ELSE {{}}
  /\ blob \in IF kind = "missing" THEN SUBSET Blobs ELSE {Blobs}
  /\ actor = {} /\ joining = {}
  /\ clock = 0 /\ writes = 0
  /\ cursor = <<>> /\ listed = <<>> /\ finished = FALSE
  /\ steady = Contents(kind, newer, record, record_blob, blob, actor)
  /\ ever = steady

Begun == cursor # <<>> \/ finished

\* What is there after a step, beside what was since the first page.
Watched ==
  LET there == Contents(kind, newer, record', record_blob', blob', actor')
  IN IF Begun THEN steady' = steady \cap there /\ ever' = ever \cup there
     ELSE steady' = there /\ ever' = there

-----------------------------------------------------------------------------
(* The tables change. *)

Rev == 1 + writes

\* Blobs a record stops naming, which no other names.
Orphaned(uri, named) ==
  {n.blob : n \in {n \in record_blob : n.uri = uri}}
    \ (named \cup {n.blob : n \in {n \in record_blob : n.uri # uri}})

\* Actor::index, of a record put.  What it names has to be uploaded.
Put(uri, named) ==
  /\ named \subseteq blob
  /\ record' = {r \in record : r.uri # uri} \cup {[uri |-> uri, rev |-> Rev + 1]}
  /\ record_blob' = {n \in record_blob : n.uri # uri} \cup {[uri |-> uri, blob |-> b] : b \in named}
  /\ blob' = blob \ Orphaned(uri, named)

\* Actor::index, of a record deleted.
Delete(uri) ==
  /\ \E r \in record : r.uri = uri
  /\ record' = {r \in record : r.uri # uri}
  /\ record_blob' = {n \in record_blob : n.uri # uri}
  /\ blob' = blob \ Orphaned(uri, {})

\* Actor::add_blob: the row an upload writes.
Upload(b) ==
  /\ b \notin blob
  /\ blob' = blob \cup {b}
  /\ UNCHANGED <<record, record_blob>>

\* The account's own tables, which listRepos does not read.
ChangeRecords ==
  /\ kind # "repos"
  /\ writes < MaxWrites
  /\ \/ \E u \in Uris(kind), named \in SUBSET Blobs :
          Put(u, IF kind \in {"blobs", "missing"} THEN named ELSE {})
     \/ \E u \in Uris(kind) : Delete(u)
     \/ kind = "missing" /\ \E b \in Blobs : Upload(b)
  /\ writes' = writes + 1
  /\ Watched
  /\ UNCHANGED <<actor, joining, clock, asked, walk>>

\* Mutant: the time as the clock has it.
StampFinely(t) == t

\* stamp: the milliseconds, written out.
Stamp(t) == (t \div Fine) * Fine

\* Accounts::create reads the clock, and only then waits for the write lock.
Join(d) ==
  /\ kind = "repos"
  /\ \A a \in actor \cup joining : a.did # d
  /\ joining' = joining \cup {[did |-> d, at |-> Stamp(clock)]}
  /\ UNCHANGED <<record, record_blob, blob, actor, clock, asked, walk, writes, steady, ever>>

Joined(a) ==
  /\ a \in joining
  /\ joining' = joining \ {a}
  /\ actor' = actor \cup {a}
  /\ UNCHANGED <<record, record_blob, blob, clock, asked, walk, writes>>
  /\ Watched

\* Accounts::remove, as a signup that failed later is undone.
Undone(a) ==
  /\ a \in actor
  /\ writes < MaxWrites
  /\ writes' = writes + 1
  /\ actor' = actor \ {a}
  /\ UNCHANGED <<record, record_blob, blob, joining, clock, asked, walk>>
  /\ Watched

Clock ==
  /\ kind = "repos" /\ clock < MaxClock
  /\ clock' = clock + 1
  /\ UNCHANGED <<record, record_blob, blob, actor, joining, asked, walk, writes, steady, ever>>

-----------------------------------------------------------------------------
(* The queries. *)

Ascending(found) == Limited(Ordered(found, {p \in found \X found : p[1] < p[2]}), Limit)
Descending(found) == Limited(Ordered(found, {p \in found \X found : p[1] > p[2]}), Limit)

\* records_query: a range of the address index, open at a cursor's end.
records_query(from, reverse) ==
  LET at == Prefix(Wanted) + from[1]
      above == from # <<>> /\ reverse
      low == IF above THEN at ELSE Prefix(Wanted)
      high == IF from # <<>> /\ ~reverse THEN at ELSE Prefix(Wanted) + Del
  IN {r \in record : /\ IF above THEN r.uri > low ELSE r.uri >= low
                     /\ r.uri < high}

\* Actor::records.
records(from, reverse) ==
  LET found == {r.uri : r \in records_query(from, reverse)}
  IN IF reverse THEN Ascending(found) ELSE Descending(found)

\* blobs_query: joined to the record only where a revision is asked after.
blobs_query(from) ==
  LET named == {n \in record_blob : newer = 0 \/ \E r \in record : r.uri = n.uri /\ r.rev > newer}
  IN {n \in named : from = <<>> \/ n.blob > from[1]}

\* Actor::blobs: a blob once, however many records name it.
blobs(from) == Ascending({n.blob : n \in blobs_query(from)})

\* missing_blobs_query: named, and no row under it.
missing_blobs_query(from) ==
  {n \in record_blob : n.blob \notin blob /\ (from = <<>> \/ n.blob > from[1])}

\* Actor::missing_blobs.
missing_blobs(from) == Ascending({n.blob : n \in missing_blobs_query(from)})

\* The order of the account index.
Before(a, b) == a.at < b.at \/ (a.at = b.at /\ a.did < b.did)

\* Mutant: the cursor is the moment alone.
LaterMoment(a, from) == a.at > from.at

Later(a, from) == Before(from, a)

\* starting and after: a cursor carries milliseconds.
starting(from) == [at |-> from[1] * Fine, did |-> from[2]]
after(a) == <<a.at \div Fine, a.did>>

\* hosted_query.
hosted_query(from) == {a \in actor : from = <<>> \/ Later(a, starting(from))}

\* Accounts::hosted.
hosted(from) ==
  LET found == hosted_query(from)
  IN Limited(Ordered(found, {p \in found \X found : Before(p[1], p[2])}), Limit)

\* A page is short, and so the last one.
Short(rows) == Len(rows) < Limit

\* A cursor is the key of a record, the name of a blob or the place of an account.
CursorOf(row) ==
  CASE kind \in {"newest", "oldest"} -> <<KeyOf(row)>>
    [] kind \in {"blobs", "missing"} -> <<row>>
    [] kind = "repos" -> after(row)

\* The client asks for the next page and is handed a cursor after a full one.
Answer(rows) ==
  /\ listed' = listed \o rows
  /\ finished' = Short(rows)
  /\ cursor' = IF Short(rows) THEN <<>> ELSE CursorOf(rows[Len(rows)])
  /\ UNCHANGED <<tables, asked, writes, steady, ever>>

list_records ==
  kind \in {"newest", "oldest"} /\ ~finished /\ Answer(records(cursor, kind = "oldest"))

list_blobs == kind = "blobs" /\ ~finished /\ Answer(blobs(cursor))

list_missing == kind = "missing" /\ ~finished /\ Answer(missing_blobs(cursor))

list_repos == kind = "repos" /\ ~finished /\ Answer(hosted(cursor))

Lists == list_records \/ list_blobs \/ list_missing \/ list_repos

WalkNext ==
  \/ ChangeRecords
  \/ \E d \in Dids : Join(d)
  \/ \E a \in joining : Joined(a)
  \/ \E a \in actor : Undone(a)
  \/ Clock
  \/ Lists

WalkSpec == WalkInit /\ [][WalkNext]_walkVars

-----------------------------------------------------------------------------
(* Properties. *)

\* The order a listing promises its rows in.
InOrder(a, b) ==
  CASE kind = "newest" -> a > b
    [] kind = "repos" -> Before(a, b)
    [] OTHER -> a < b

\* The rows the client has been shown.
Shown == {listed[i] : i \in DOMAIN listed}

\* "The cursor is the last key on the page, so the next one starts after it":
\* whatever is written between two pages, no row is shown twice or out of order,
\* and none that was never there.
ListedOnceInOrder ==
  /\ \A i, j \in DOMAIN listed : i < j => InOrder(listed[i], listed[j])
  /\ Shown \subseteq ever

\* "A short page carries no cursor, which is what stops a client asking": a
\* client that stops there has been shown every row that was there all along,
\* accounts made in one millisecond and keys at either end of a collection
\* among them.
NothingSteadyIsMissed == finished => steady \subseteq Shown

=============================================================================
