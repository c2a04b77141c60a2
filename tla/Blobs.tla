-------------------------------- MODULE Blobs --------------------------------
(***************************************************************************)
(* One account's blobs: the rows that say what was uploaded and claimed    *)
(* (src/store/actor.rs), the files behind them (src/store/blobs.rs), and   *)
(* the four things that move both: uploads, writes that claim and let go,  *)
(* the sweep after an upload and the reconcile after an unclean stop       *)
(* (src/account.rs).                                                       *)
(*                                                                         *)
(* A row is changed in a transaction and a file is not, so every file      *)
(* operation is a step of its own beside the transaction around it.  One   *)
(* unit of time is the window an upload is kept for; a file or row written *)
(* in an earlier unit than a sweep began in is before its cutoff.          *)
(***************************************************************************)
EXTENDS Integers, Sequences

CONSTANTS Cids,       \* blobs, by their contents
          Uploads,    \* calls to upload_blob; each is also the key of its file
          CidOf,      \* what an upload holds
          Rkeys,      \* records that may name a blob
          Writes,     \* calls to write
          Leavers,    \* writes whose caller may hang up
          Reconciler, \* the walk main starts after an unclean stop, as a set of none or one
          MaxNow,     \* bound: windows that pass
          MaxFaults,  \* bound: commits that roll back
          None        \* no row, no file, nobody

ASSUME NamesAssumption ==
  /\ CidOf \in [Uploads -> Cids]
  /\ Leavers \subseteq Writes
  /\ Uploads \cap Reconciler = {}
  /\ Writes \cap (Uploads \cup Reconciler) = {}
  /\ None \notin Uploads \cup Writes \cup Cids \cup Nat
  /\ None \notin [key : Uploads \cup {None}, at : Nat]
ASSUME BoundsAssumption == MaxNow \in Nat /\ MaxFaults \in Nat

Sweepers == Uploads \cup Reconciler

VARIABLES now,      \* windows that have passed
          rows,     \* the blob table: no row, an upload and when, or claimed
          recs,     \* record_blob: the blobs each record names
          uploads,  \* the upload files, by key, and when each was written
          served,   \* the files blobs are served from, and when each was written
          turn,     \* the write whose turn it is
          txn,      \* the write whose transaction is open
          wpc,      \* where each write is
          gone,     \* writes whose caller hung up
          work,     \* what an open transaction would leave, and what it linked
          behind,   \* the files a landed commit has yet to clear
          doubt,    \* the file a task has looked at and is about to delete
          spc,      \* where each upload and its sweep, or the reconcile, is
          cutoff,   \* when a sweep began
          held,     \* the names a sweep read
          stale,    \* the rows a sweep read as too old
          faults,   \* commits that rolled back so far
          crashed   \* whether the process died and was started again

vars == <<now, rows, recs, uploads, served, turn, txn, wpc, gone, work, behind, doubt, spc,
          cutoff, held, stale, faults, crashed>>
tables == <<rows, recs>>
files == <<uploads, served>>
writing == <<turn, txn, wpc, gone, work, behind, faults>>
sweeping == <<spc, cutoff, held, stale>>

Claimed == [key |-> None, at |-> 0]
Nothing == [cids |-> {}, keys |-> {}]
IsUpload(row) == row # None /\ row # Claimed

Init ==
  /\ now = 0
  /\ rows = [x \in Cids |-> None]
  /\ recs = [k \in Rkeys |-> {}]
  /\ uploads = [u \in Uploads |-> None]
  /\ served = [x \in Cids |-> None]
  /\ turn = None
  /\ txn = None
  /\ wpc = [w \in Writes |-> "idle"]
  /\ gone = {}
  /\ work = None
  /\ behind = [w \in Writes |-> Nothing]
  /\ doubt = [p \in Writes \cup Sweepers |-> None]
  /\ spc = [p \in Sweepers |-> "idle"]
  /\ cutoff = [p \in Sweepers |-> 0]
  /\ held = [p \in Sweepers |-> {}]
  /\ stale = [p \in Sweepers |-> {}]
  /\ faults = 0
  /\ crashed = FALSE

-----------------------------------------------------------------------------
(* What a commit does to the index: Actor::index and the rest of landing. *)

\* One record of a batch, naming these blobs or, deleted, none.
Items == [at : Rkeys, names : {names \in SUBSET Cids : names = {} \/ \E x \in Cids : names = {x}}]
Batches == {<<i>> : i \in Items} \cup {<<i, j>> : i \in Items, j \in Items}

HeldIn(records, x) == \E k \in Rkeys : x \in records[k]

\* Actor::dereference: a record lets go of what it named, and what nothing
\* else names and the batch does not keep loses its row.
Dereferenced(s, at, kept) ==
  LET after == [s.recs EXCEPT ![at] = {}]
      orphans == {x \in s.recs[at] : x \notin kept /\ ~HeldIn(after, x)}
  IN [s EXCEPT !.recs = after,
               !.rows = [x \in Cids |-> IF x \in orphans THEN None ELSE @[x]],
               !.orphaned = @ \cup orphans]

\* Actor::claim, for every blob an item names: its row has to be there, an
\* upload is linked where it is served from, its file has to be there too, and
\* the row becomes a claim.
Claiming(s, item) ==
  LET fresh == {x \in item.names : IsUpload(s.rows[x])}
  IN IF \/ \E x \in item.names : s.rows[x] = None
        \/ \E x \in fresh : uploads[s.rows[x].key] = None
     THEN [s EXCEPT !.ok = FALSE]
     ELSE [s EXCEPT !.recs = [@ EXCEPT ![item.at] = item.names],
                    !.rows = [x \in Cids |-> IF x \in item.names THEN Claimed ELSE @[x]],
                    !.links = @ \cup {<<x, s.rows[x].key>> : x \in fresh},
                    !.taken = @ \cup {s.rows[x].key : x \in fresh}]

\* Mutant: nobody looks again at what the batch kept.
NeverSpared(kept, records) == {}

\* What the batch kept and no record names once all of it is in.
Spared(kept, records) == {x \in kept : ~HeldIn(records, x)}

\* One item of a batch, unless one before it has failed.
Item(s, item, kept) == IF s.ok THEN Claiming(Dereferenced(s, item.at, kept), item) ELSE s

\* The tables as the transaction finds them.
Untouched == [rows |-> rows, recs |-> recs, orphaned |-> {}, taken |-> {}, links |-> {}, ok |-> TRUE]

\* The batch, an item at a time, and then what it kept and names no longer.
Indexed(batch) ==
  LET kept == UNION {batch[i].names : i \in DOMAIN batch}
      first == Item(Untouched, batch[1], kept)
      done == IF Len(batch) = 1 THEN first ELSE Item(first, batch[2], kept)
      spared == Spared(kept, done.recs)
  IN IF done.ok
     THEN [done EXCEPT !.rows = [x \in Cids |-> IF x \in spared THEN None ELSE @[x]],
                       !.orphaned = @ \cup spared]
     ELSE done

-----------------------------------------------------------------------------
(* A write. *)

\* Mutant: a served file that was lying there keeps its age.
LinkedAsFound(links) ==
  [x \in Cids |-> IF served[x] = None /\ \E k \in Uploads : <<x, k>> \in links
                  THEN uploads[CHOOSE k \in Uploads : <<x, k>> \in links] ELSE served[x]]

\* Blobs::claim: a link shares its upload's age, and a file already there is
\* made as new as the row taking it.
Linked(links) ==
  [x \in Cids |-> IF \A k \in Uploads : <<x, k>> \notin links THEN served[x]
                  ELSE IF served[x] # None THEN now
                  ELSE uploads[CHOOSE k \in Uploads : <<x, k>> \in links]]

\* A write takes its turn and opens its transaction, in which the batch is
\* indexed and the uploads it claims are linked.
Link(w) ==
  /\ wpc[w] = "idle"
  /\ turn = None
  /\ txn = None
  /\ turn' = w
  /\ txn' = w
  /\ \E batch \in Batches :
       LET after == Indexed(batch)
       IN /\ served' = Linked(after.links)
          /\ work' = [after EXCEPT !.links = {l[1] : l \in {m \in @ : served[m[1]] = None}}]
  /\ wpc' = [wpc EXCEPT ![w] = "deciding"]
  /\ UNCHANGED <<now, tables, uploads, gone, behind, doubt, sweeping, faults, crashed>>

\* The transaction commits.  A future still there goes on to clear the disk
\* behind it; with nobody waiting the result is dropped, and the turn with it.
Commit(w) ==
  /\ wpc[w] = "deciding"
  /\ work.ok
  /\ rows' = work.rows
  /\ recs' = work.recs
  /\ txn' = None
  /\ work' = None
  /\ IF w \in gone
     THEN wpc' = [wpc EXCEPT ![w] = "done"] /\ turn' = None /\ UNCHANGED behind
     ELSE /\ wpc' = [wpc EXCEPT ![w] = "clearing"]
          /\ behind' = [behind EXCEPT ![w] = [cids |-> work.orphaned, keys |-> work.taken]]
          /\ UNCHANGED turn
  /\ UNCHANGED <<now, files, gone, doubt, sweeping, faults, crashed>>

\* It does not, for what the batch names or for storage.
Rollback(w) ==
  /\ wpc[w] = "deciding"
  /\ \/ ~work.ok /\ UNCHANGED faults
     \/ work.ok /\ faults < MaxFaults /\ faults' = faults + 1
  /\ txn' = None
  /\ wpc' = [wpc EXCEPT ![w] = "unlinking"]
  /\ UNCHANGED <<now, tables, files, turn, gone, work, behind, doubt, sweeping, crashed>>

\* Mutant: everything the batch took is unlinked, whoever linked it.
UnlinkAll == {x \in Cids : \E k \in Rkeys : x \in work.recs[k]}

\* What Actor::commit takes back by hand.
ToUnlink == work.links

Unlink(w) ==
  /\ wpc[w] = "unlinking"
  /\ served' = [x \in Cids |-> IF x \in ToUnlink THEN None ELSE served[x]]
  /\ work' = None
  /\ wpc' = [wpc EXCEPT ![w] = "done"]
  /\ turn' = None
  /\ UNCHANGED <<now, tables, uploads, txn, gone, behind, doubt, sweeping, faults, crashed>>

\* Actor::unheld, as of now.
Unheld(x) == rows[x] = None

\* Manager::cleared asks once more whether anything holds a blob ...
Recheck(w, x) ==
  /\ wpc[w] = "clearing"
  /\ doubt[w] = None
  /\ x \in behind[w].cids
  /\ behind' = [behind EXCEPT ![w].cids = @ \ {x}]
  /\ doubt' = IF Unheld(x) THEN [doubt EXCEPT ![w] = x] ELSE doubt
  /\ UNCHANGED <<now, tables, files, turn, txn, wpc, gone, work, sweeping, faults, crashed>>

\* ... deletes its file ...
Delete(w) ==
  /\ wpc[w] = "clearing"
  /\ doubt[w] # None
  /\ served' = [served EXCEPT ![doubt[w]] = None]
  /\ doubt' = [doubt EXCEPT ![w] = None]
  /\ UNCHANGED <<now, tables, uploads, writing, sweeping, crashed>>

\* ... and drops the uploads the commit took, after which the write logs and
\* returns, which lets go of the turn.
Drop(w) ==
  /\ wpc[w] = "clearing"
  /\ behind[w].cids = {} /\ doubt[w] = None
  /\ uploads' = [u \in Uploads |-> IF u \in behind[w].keys THEN None ELSE uploads[u]]
  /\ wpc' = [wpc EXCEPT ![w] = "done"]
  /\ turn' = IF turn = w THEN None ELSE turn
  /\ behind' = [behind EXCEPT ![w] = Nothing]
  /\ UNCHANGED <<now, tables, served, txn, gone, work, doubt, sweeping, faults, crashed>>

\* The caller goes.  The guard is inside the commit task until that is over,
\* and the future's own while the disk is cleared.
HangUp(w) ==
  /\ w \in Leavers \ gone
  /\ wpc[w] \in {"deciding", "unlinking", "clearing"}
  /\ gone' = gone \cup {w}
  /\ turn' = IF wpc[w] = "clearing" THEN None ELSE turn
  /\ UNCHANGED <<now, tables, files, txn, wpc, work, behind, doubt, sweeping, faults, crashed>>

-----------------------------------------------------------------------------
(* An upload, and the sweep that follows it. *)

\* The file is written first, under a key of its own ...
Put(u) ==
  /\ spc[u] = "idle"
  /\ uploads' = [uploads EXCEPT ![u] = now]
  /\ spc' = [spc EXCEPT ![u] = "placed"]
  /\ UNCHANGED <<now, tables, served, writing, doubt, cutoff, held, stale, crashed>>

\* The row of an upload.
Stamped(u) == [key |-> u, at |-> now]

\* ... and Actor::add_blob then moves the row onto it, unless a record has
\* claimed the blob already.
AddBlob(u) ==
  /\ spc[u] = "placed"
  /\ txn = None
  /\ rows' = IF rows[CidOf[u]] = Claimed THEN rows
             ELSE [rows EXCEPT ![CidOf[u]] = Stamped(u)]
  /\ spc' = [spc EXCEPT ![u] = "keys"]
  /\ UNCHANGED <<now, recs, files, writing, doubt, cutoff, held, stale, crashed>>

\* A sweep is over, and with it what it read.
Over(p) ==
  /\ spc' = [spc EXCEPT ![p] = "done"]
  /\ cutoff' = [cutoff EXCEPT ![p] = 0]
  /\ held' = [held EXCEPT ![p] = {}]
  /\ stale' = [stale EXCEPT ![p] = {}]

\* main walks the account again after an unclean stop.
Reconcile(p) ==
  /\ p \in Reconciler
  /\ crashed
  /\ spc[p] = "idle"
  /\ spc' = [spc EXCEPT ![p] = "keys"]
  /\ UNCHANGED <<now, tables, files, writing, doubt, cutoff, held, stale, crashed>>

\* Manager::stranded reads the keys the rows name ...
ReadKeys(p) ==
  /\ spc[p] = "keys"
  /\ cutoff' = [cutoff EXCEPT ![p] = now]
  /\ held' = [held EXCEPT ![p] = {rows[x].key : x \in {y \in Cids : IsUpload(rows[y])}}]
  /\ spc' = [spc EXCEPT ![p] = "files"]
  /\ UNCHANGED <<now, tables, files, writing, doubt, stale, crashed>>

\* Mutant: what no row names goes, whatever its age.
AnyAge(written, p) == TRUE

\* A file's last write is before the cutoff.
Old(written, p) == written < cutoff[p]

\* ... and takes the files no row names and nothing has written lately.
SweepUploads(p) ==
  /\ spc[p] = "files"
  /\ uploads' = [u \in Uploads |-> IF /\ uploads[u] # None
                                      /\ u \notin held[p]
                                      /\ Old(uploads[u], p) THEN None ELSE uploads[u]]
  /\ spc' = [spc EXCEPT ![p] = "rows"]
  /\ UNCHANGED <<now, tables, served, writing, doubt, cutoff, held, stale, crashed>>

\* Actor::sweep_unclaimed reads the uploads nothing has named ...
ReadStale(p) ==
  /\ spc[p] = "rows"
  /\ stale' = [stale EXCEPT ![p] = {<<x, rows[x].key>> :
                 x \in {y \in Cids : IsUpload(rows[y]) /\ rows[y].at < cutoff[p]}}]
  /\ spc' = [spc EXCEPT ![p] = "taking"]
  /\ UNCHANGED <<now, tables, files, writing, doubt, cutoff, held, crashed>>

\* Mutant: a row is taken by its blob alone.
StillAnUpload(x, key) == IsUpload(rows[x])

\* The row is the one that was read.
StillThatUpload(x, key) == IsUpload(rows[x]) /\ rows[x].key = key

\* ... and takes each that is still that upload, remembering its key.
TakeStale(p) ==
  /\ spc[p] = "taking"
  /\ txn = None
  /\ LET still == {s \in stale[p] : StillThatUpload(s[1], s[2])}
     IN /\ rows' = [x \in Cids |-> IF \E s \in still : s[1] = x THEN None ELSE rows[x]]
        /\ stale' = [stale EXCEPT ![p] = still]
  /\ spc' = [spc EXCEPT ![p] = "clearing"]
  /\ UNCHANGED <<now, recs, files, writing, doubt, cutoff, held, crashed>>

\* Their files follow.
DropStale(p) ==
  /\ spc[p] = "clearing"
  /\ uploads' = [u \in Uploads |-> IF \E s \in stale[p] : s[2] = u THEN None ELSE uploads[u]]
  /\ IF p \in Reconciler
     THEN spc' = [spc EXCEPT ![p] = "cids"] /\ UNCHANGED <<cutoff, held, stale>>
     ELSE Over(p)
  /\ UNCHANGED <<now, tables, served, writing, doubt, crashed>>

\* A sweep that fails, or whose caller hangs up, stops between two of these.
StopSweep(p) ==
  /\ spc[p] \in {"keys", "files", "rows", "taking", "clearing", "cids"}
  /\ Over(p)
  /\ UNCHANGED <<now, tables, files, writing, doubt, crashed>>

-----------------------------------------------------------------------------
(* The rest of a reconcile: the files blobs are served from. *)

\* Manager::unheld_files reads every blob with a row ...
ReadCids(p) ==
  /\ spc[p] = "cids"
  /\ held' = [held EXCEPT ![p] = {x \in Cids : rows[x] # None}]
  /\ spc' = [spc EXCEPT ![p] = "walking"]
  /\ UNCHANGED <<now, tables, files, writing, doubt, cutoff, stale, crashed>>

\* ... looks at how old a file with none is ...
Look(p, x) ==
  /\ spc[p] = "walking"
  /\ doubt[p] = None
  /\ x \notin held[p]
  /\ served[x] # None
  /\ Old(served[x], p)
  /\ doubt' = [doubt EXCEPT ![p] = x]
  /\ UNCHANGED <<now, tables, files, writing, sweeping, crashed>>

\* ... and takes it.
Reclaim(p) ==
  /\ spc[p] = "walking"
  /\ doubt[p] # None
  /\ served' = [served EXCEPT ![doubt[p]] = None]
  /\ doubt' = [doubt EXCEPT ![p] = None]
  /\ UNCHANGED <<now, tables, uploads, writing, sweeping, crashed>>

Walked(p) ==
  /\ spc[p] = "walking"
  /\ doubt[p] = None
  /\ Over(p)
  /\ UNCHANGED <<now, tables, files, writing, doubt, crashed>>

-----------------------------------------------------------------------------
(* Time, and the end of the process. *)

\* A window passes.  None passes between an upload's file and its row, which
\* one blocking task writes one after the other.
Tick ==
  /\ now < MaxNow
  /\ \A u \in Uploads : spc[u] # "placed"
  /\ now' = now + 1
  /\ UNCHANGED <<tables, files, writing, doubt, sweeping, crashed>>

\* The process dies, its open transaction rolls back and the links stay.
Crash ==
  /\ Reconciler # {}
  /\ ~crashed
  /\ crashed' = TRUE
  /\ turn' = None
  /\ txn' = None
  /\ work' = None
  /\ wpc' = [w \in Writes |-> IF wpc[w] = "idle" THEN "idle" ELSE "done"]
  /\ spc' = [p \in Sweepers |-> IF spc[p] = "idle" THEN "idle" ELSE "done"]
  /\ behind' = [w \in Writes |-> Nothing]
  /\ doubt' = [p \in Writes \cup Sweepers |-> None]
  /\ cutoff' = [p \in Sweepers |-> 0]
  /\ held' = [p \in Sweepers |-> {}]
  /\ stale' = [p \in Sweepers |-> {}]
  /\ UNCHANGED <<now, tables, files, gone, faults>>

Next ==
  \/ \E w \in Writes : \/ Link(w) \/ Commit(w) \/ Rollback(w) \/ Unlink(w)
                       \/ Delete(w) \/ Drop(w) \/ HangUp(w)
                       \/ \E x \in Cids : Recheck(w, x)
  \/ \E u \in Uploads : Put(u) \/ AddBlob(u)
  \/ \E p \in Sweepers : \/ Reconcile(p) \/ ReadKeys(p) \/ SweepUploads(p) \/ ReadStale(p)
                         \/ TakeStale(p) \/ DropStale(p) \/ StopSweep(p)
                         \/ ReadCids(p) \/ Reclaim(p) \/ Walked(p)
                         \/ \E x \in Cids : Look(p, x)
  \/ Tick \/ Crash

Spec == Init /\ [][Next]_vars

-----------------------------------------------------------------------------
(* getBlob, which changes nothing. *)

\* Actor::blob and Blobs::has: the row, and the file where it is served from.
blob(x) == rows[x] # None
has(x) == served[x] # None

\* Manager::blob: a row without a file is an upload no record claimed.
Found(x) == blob(x) /\ has(x)

\* server::blob::get, of a blob of this account.
get(x) == IF Found(x) THEN "bytes" ELSE "BlobNotFound"

-----------------------------------------------------------------------------
(* Properties. *)

Times == 0..MaxNow
Uploaded == [key : Uploads, at : Times]

TypeOK ==
  /\ now \in Times
  /\ rows \in [Cids -> {None, Claimed} \cup Uploaded]
  /\ recs \in [Rkeys -> SUBSET Cids]
  /\ uploads \in [Uploads -> Times \cup {None}]
  /\ served \in [Cids -> Times \cup {None}]
  /\ turn \in Writes \cup {None}
  /\ txn \in Writes \cup {None}
  /\ \A w \in Writes : behind[w].cids \in SUBSET Cids /\ behind[w].keys \in SUBSET Uploads
  /\ doubt \in [Writes \cup Sweepers -> Cids \cup {None}]
  /\ cutoff \in [Sweepers -> Times]
  /\ \A p \in Sweepers : stale[p] \subseteq Cids \X Uploads
  /\ faults \in 0..MaxFaults

\* Every blob a record names has its row, claimed, and getBlob answers with it:
\* the delete that follows one commit never crosses the claim of the next
\* (docs/architecture.md 193-198).
RecordsAreServed ==
  \A k \in Rkeys : \A x \in recs[k] : rows[x] = Claimed /\ get(x) = "bytes"

\* A claim is somebody's: a row no record names is an upload still waiting, so
\* nothing keeps a blob for good that no record holds (Actor::dereference and
\* the second look in Actor::landing, at blobs a batch moves or puts and takes
\* back).  And every blob a record names is claimed and served, until somebody
\* hangs up, which gives a turn back with files still to clear, or a reconcile
\* walks, which looks at a file and then takes it.
ClaimsAreTheRecords ==
  /\ TypeOK
  /\ \A x \in Cids : rows[x] = Claimed => HeldIn(recs, x)
  /\ gone = {} /\ ~crashed => RecordsAreServed

\* An upload waiting for its record has its file, and one whose row is yet to
\* be written does too: age is all that protects it (docs/architecture.md 169-171).
UploadsAreThere ==
  \A u \in Uploads :
    spc[u] = "placed" \/ rows[CidOf[u]] \in {[key |-> u, at |-> t] : t \in Times} => uploads[u] # None

\* Only a commit takes the row of an upload still inside its window: the sweep
\* names the upload it read, not just the blob (Actor::sweep_unclaimed).
FreshRowsStay ==
  [][\A x \in Cids : IsUpload(rows[x]) /\ rows'[x] = None /\ txn = None => rows[x].at < now]_vars

\* A reconcile sets about no file a record's blob is served from, although the
\* rows it read may be older than the claim: the claim made the file newer than
\* the cutoff (Blobs::claim, sweep).
OnlyStrayFilesAreTaken ==
  [][\A p \in Reconciler : doubt[p] = None /\ doubt'[p] # None => ~HeldIn(recs, doubt'[p])]_vars

\* A file some record's blob is served from goes only by the hand of a write
\* whose caller hung up while it was clearing, and whose turn went with them,
\* or of a reconcile that looked at it before it was claimed: no unlink of a
\* rolled-back revision and no clearing inside its turn takes one
\* (Actor::commit, Manager::cleared).
OnlyLeaversCross ==
  [][\A x \in Cids : HeldIn(recs, x) /\ served[x] # None /\ served'[x] = None
       => \E w \in gone \cup Reconciler : doubt[w] = x]_vars

=============================================================================
