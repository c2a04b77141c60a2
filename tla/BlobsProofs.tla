----------------------------- MODULE BlobsProofs -----------------------------
(***************************************************************************)
(* What Blobs promises, for any number of blobs, uploads, records, writes  *)
(* and windows: the inductive invariant, what a batch makes of the tables, *)
(* that no upload, no sweep and no write breaks the invariant, and the     *)
(* theorems.                                                               *)
(***************************************************************************)
EXTENDS Blobs, TLAPS

\* Leaves are left to Zenon; the ones with arithmetic in them say SMT.
USE Zenon

-----------------------------------------------------------------------------
(* What a batch makes of the tables. *)

Row == {None, Claimed} \cup Uploaded

\* What the index is while a batch is worked through.
Index == [rows : [Cids -> Row], recs : [Rkeys -> SUBSET Cids], orphaned : SUBSET Cids,
          taken : SUBSET Uploads, links : SUBSET (Cids \X Uploads), ok : BOOLEAN]

\* What every item keeps true of it, held against the tables the transaction
\* found.  Only a row that was an upload is linked, and it is one no longer;
\* no row becomes an upload; and a claim is some record's or is kept by the
\* batch, to be looked at again.
Sound(s, kept) ==
  /\ s \in Index
  /\ \A x \in Cids :
       /\ IsUpload(s.rows[x]) => s.rows[x] = rows[x]
       /\ s.rows[x] # None => rows[x] # None
       /\ HeldIn(s.recs, x) => s.rows[x] = Claimed
       /\ s.rows[x] = Claimed => HeldIn(s.recs, x) \/ x \in kept
       /\ s.rows[x] = Claimed => rows[x] = Claimed \/ <<x, rows[x].key>> \in s.links
  /\ \A l \in s.links :
       /\ IsUpload(rows[l[1]])
       /\ l[2] = rows[l[1]].key
       /\ uploads[l[2]] # None
       /\ ~IsUpload(s.rows[l[1]])
  /\ \A u \in s.taken : \E x \in Cids : <<x, u>> \in s.links

\* None is neither kind of row.
LEMMA RowKinds ==
  /\ None # Claimed
  /\ \A r \in Uploaded : r # None /\ r # Claimed /\ IsUpload(r) /\ r.key \in Uploads /\ r.at \in Times
  /\ ~IsUpload(None) /\ ~IsUpload(Claimed)
  /\ \A r \in Row : IsUpload(r) => r \in Uploaded
<1>1. None # Claimed
  BY NamesAssumption, SMT DEF Claimed
<1>2. ASSUME NEW r \in Uploaded PROVE r # None /\ r # Claimed /\ r.key \in Uploads /\ r.at \in Times
  BY NamesAssumption, BoundsAssumption, SMT DEF Uploaded, Claimed, Times
<1> QED BY <1>1, <1>2 DEF IsUpload, Row

\* What letting go leaves.
LEMMA LettingGo ==
  ASSUME NEW s \in Index, NEW at \in Rkeys, NEW kept, Sound(s, kept)
  PROVE  /\ Sound(Dereferenced(s, at, kept), kept)
         /\ Dereferenced(s, at, kept).recs[at] = {}
<1> DEFINE after == [s.recs EXCEPT ![at] = {}]
           orphans == {x \in s.recs[at] : x \notin kept /\ ~HeldIn(after, x)}
           d == Dereferenced(s, at, kept)
<1>1. /\ d.recs = after
      /\ d.rows = [x \in Cids |-> IF x \in orphans THEN None ELSE s.rows[x]]
      /\ d.orphaned = s.orphaned \cup orphans
      /\ d.links = s.links /\ d.taken = s.taken /\ d.ok = s.ok
  BY DEF Dereferenced, Index
<1>2. d \in Index
  BY DEF Dereferenced, Index, Row
<1>3. ASSUME NEW x \in Cids
      PROVE  /\ HeldIn(after, x) => HeldIn(s.recs, x) /\ x \notin orphans
             /\ HeldIn(s.recs, x) => HeldIn(after, x) \/ x \in kept \/ x \in orphans
  BY DEF HeldIn, Index
<1> HIDE DEF after, orphans, d
<1>4. ASSUME NEW x \in Cids
      PROVE  /\ IsUpload(d.rows[x]) => d.rows[x] = rows[x]
             /\ d.rows[x] # None => rows[x] # None
             /\ HeldIn(d.recs, x) => d.rows[x] = Claimed
             /\ d.rows[x] = Claimed => HeldIn(d.recs, x) \/ x \in kept
             /\ d.rows[x] = Claimed => rows[x] = Claimed \/ <<x, rows[x].key>> \in d.links
  BY <1>1, <1>3, RowKinds, SMT DEF Sound
<1>5. ASSUME NEW l \in d.links
      PROVE  /\ IsUpload(rows[l[1]])
             /\ l[2] = rows[l[1]].key
             /\ uploads[l[2]] # None
             /\ ~IsUpload(d.rows[l[1]])
  <2>1. l[1] \in Cids /\ ~IsUpload(s.rows[l[1]])
    BY <1>1, SMT DEF Sound, Index
  <2> QED BY <1>1, <2>1, RowKinds, SMT DEF Sound
<1>6. \A u \in d.taken : \E x \in Cids : <<x, u>> \in d.links
  BY <1>1 DEF Sound
<1>7. d.recs[at] = {}
  BY <1>1 DEF after, Index
<1> QED BY <1>2, <1>4, <1>5, <1>6, <1>7 DEF Sound, d

\* What taking up what an item names leaves.
LEMMA TakingUp ==
  ASSUME NEW s \in Index, NEW item \in Items, NEW kept, Sound(s, kept), s.recs[item.at] = {}, item.names \subseteq kept
  PROVE  Sound(Claiming(s, item), kept)
<1> DEFINE fresh == {x \in item.names : IsUpload(s.rows[x])}
           d == Claiming(s, item)
<1>0. item.at \in Rkeys /\ item.names \subseteq Cids
  BY DEF Items
<1>1. CASE \/ \E x \in item.names : s.rows[x] = None
           \/ \E x \in fresh : uploads[s.rows[x].key] = None
  <2>1. d = [s EXCEPT !.ok = FALSE]
    BY <1>1 DEF Claiming
  <2>2. /\ d \in Index /\ d.rows = s.rows /\ d.recs = s.recs /\ d.links = s.links /\ d.taken = s.taken
    BY <2>1 DEF Index
  <2> QED BY <2>2 DEF Sound
<1>2. CASE ~(\/ \E x \in item.names : s.rows[x] = None
             \/ \E x \in fresh : uploads[s.rows[x].key] = None)
  <2> DEFINE newRecs == [s.recs EXCEPT ![item.at] = item.names]
             newRows == [x \in Cids |-> IF x \in item.names THEN Claimed ELSE s.rows[x]]
             newLinks == s.links \cup {<<x, s.rows[x].key>> : x \in fresh}
             newTaken == s.taken \cup {s.rows[x].key : x \in fresh}
  <2>1. d = [s EXCEPT !.recs = newRecs, !.rows = newRows, !.links = newLinks, !.taken = newTaken]
    BY <1>2 DEF Claiming
  <2> HIDE DEF newRecs, newRows, newLinks, newTaken
  <2>0. /\ d.recs = newRecs /\ d.rows = newRows /\ d.links = newLinks /\ d.taken = newTaken
        /\ d.ok = s.ok /\ d.orphaned = s.orphaned
    BY <2>1 DEF Index
  <2>2. /\ d.recs = [s.recs EXCEPT ![item.at] = item.names]
        /\ d.rows = [x \in Cids |-> IF x \in item.names THEN Claimed ELSE s.rows[x]]
        /\ d.links = s.links \cup {<<x, s.rows[x].key>> : x \in fresh}
        /\ d.taken = s.taken \cup {s.rows[x].key : x \in fresh}
    BY <2>0 DEF newRecs, newRows, newLinks, newTaken
  <2>3. ASSUME NEW x \in fresh
        PROVE  /\ x \in Cids /\ s.rows[x] = rows[x] /\ rows[x].key \in Uploads
               /\ IsUpload(rows[x]) /\ uploads[rows[x].key] # None
    <3>1. x \in Cids /\ IsUpload(s.rows[x]) /\ s.rows[x] \in Row
      BY <1>0 DEF Index
    <3>2. s.rows[x] = rows[x]
      BY <3>1 DEF Sound
    <3> QED BY <1>2, <3>1, <3>2, RowKinds
  <2>4. d \in Index
    <3>1. /\ d.recs \in [Rkeys -> SUBSET Cids] /\ d.rows \in [Cids -> Row]
      BY <1>0, <2>2, SMT DEF Index, Row
    <3>2. d.links \subseteq Cids \X Uploads /\ d.taken \subseteq Uploads
      BY <2>2, <2>3, SMT DEF Index
    <3> QED BY <2>1, <3>1, <3>2 DEF Index
  <2>5. ASSUME NEW x \in Cids
        PROVE  HeldIn(d.recs, x) <=> HeldIn(s.recs, x) \/ x \in item.names
    BY <1>0, <2>2 DEF HeldIn, Index
  <2>6. ASSUME NEW x \in Cids
        PROVE  /\ IsUpload(d.rows[x]) => d.rows[x] = rows[x]
               /\ d.rows[x] # None => rows[x] # None
               /\ HeldIn(d.recs, x) => d.rows[x] = Claimed
               /\ d.rows[x] = Claimed => HeldIn(d.recs, x) \/ x \in kept
               /\ d.rows[x] = Claimed => rows[x] = Claimed \/ <<x, rows[x].key>> \in d.links
    <3>1. CASE x \in item.names
      <4>1. d.rows[x] = Claimed /\ s.rows[x] # None
        BY <1>2, <2>2, <3>1
      <4>2. s.rows[x] = Claimed => rows[x] = Claimed \/ <<x, rows[x].key>> \in d.links
        BY <2>2 DEF Sound
      <4>3. IsUpload(s.rows[x]) => <<x, rows[x].key>> \in d.links
        BY <2>2, <2>3, <3>1, SMT
      <4> QED BY <2>5, <3>1, <4>1, <4>2, <4>3, RowKinds DEF IsUpload, Sound
    <3>2. CASE x \notin item.names
      <4>1. d.rows[x] = s.rows[x] /\ s.links \subseteq d.links
        BY <2>2, <3>2
      <4> QED BY <2>5, <3>2, <4>1 DEF Sound
    <3> QED BY <3>1, <3>2
  <2>7. ASSUME NEW l \in d.links
        PROVE  /\ IsUpload(rows[l[1]])
               /\ l[2] = rows[l[1]].key
               /\ uploads[l[2]] # None
               /\ ~IsUpload(d.rows[l[1]])
    <3>1. CASE l \in s.links
      <4>1. l[1] \in Cids /\ ~IsUpload(s.rows[l[1]])
        BY <3>1 DEF Index, Sound
      <4>2. ~IsUpload(d.rows[l[1]])
        BY <2>2, <4>1, RowKinds
      <4> QED BY <3>1, <4>2 DEF Sound
    <3>2. CASE l \notin s.links
      <4>1. PICK x \in fresh : l = <<x, s.rows[x].key>>
        BY <2>2, <3>2
      <4>2. d.rows[x] = Claimed
        BY <2>2, <2>3
      <4> QED BY <2>3, <4>1, <4>2, RowKinds
    <3> QED BY <3>1, <3>2
  <2>8. ASSUME NEW u \in d.taken PROVE \E x \in Cids : <<x, u>> \in d.links
    <3>1. CASE u \in s.taken
      BY <2>2, <3>1 DEF Sound
    <3>2. CASE u \notin s.taken
      BY <2>2, <2>3, <3>2, SMT
    <3> QED BY <3>1, <3>2
  <2> QED BY <2>4, <2>6, <2>7, <2>8 DEF Sound
<1> QED BY <1>1, <1>2

\* One item and the batch around it.
LEMMA ItemIsSound ==
  ASSUME NEW s \in Index, NEW item \in Items, NEW kept, Sound(s, kept), item.names \subseteq kept
  PROVE  Sound(Item(s, item, kept), kept)
<1>1. item.at \in Rkeys
  BY DEF Items
<1>2. /\ Sound(Dereferenced(s, item.at, kept), kept)
      /\ Dereferenced(s, item.at, kept).recs[item.at] = {}
  BY <1>1, LettingGo
<1>3. Dereferenced(s, item.at, kept) \in Index
  BY <1>2 DEF Sound
<1>4. Sound(Claiming(Dereferenced(s, item.at, kept), item), kept)
  BY <1>2, <1>3, TakingUp
<1> QED BY <1>4 DEF Item

\* A batch is one item or two.
LEMMA BatchItems ==
  ASSUME NEW batch \in Batches
  PROVE  LET kept == UNION {batch[i].names : i \in DOMAIN batch}
         IN  /\ batch[1] \in Items /\ batch[1].names \subseteq kept
             /\ Len(batch) # 1 => batch[2] \in Items /\ batch[2].names \subseteq kept
             /\ kept \subseteq Cids
<1> DEFINE kept == UNION {batch[i].names : i \in DOMAIN batch}
<1>1. CASE \E i \in Items : batch = <<i>>
  <2>1. PICK i \in Items : batch = <<i>>
    BY <1>1
  <2>2. batch[1] = i /\ Len(batch) = 1 /\ DOMAIN batch = {1}
    BY <2>1, SMT
  <2>3. kept = i.names
    BY <2>2
  <2> QED BY <2>2, <2>3 DEF Items
<1>2. CASE \E i, j \in Items : batch = <<i, j>>
  <2>1. PICK i \in Items, j \in Items : batch = <<i, j>>
    BY <1>2
  <2>2. batch[1] = i /\ batch[2] = j /\ Len(batch) = 2 /\ DOMAIN batch = {1, 2}
    BY <2>1, SMT
  <2>3. kept = i.names \cup j.names
    BY <2>2
  <2> QED BY <2>2, <2>3 DEF Items
<1> QED BY <1>1, <1>2, SMT DEF Batches

\* What the whole batch would leave, if it goes in.
Landing(s) ==
  /\ s \in Index
  /\ \A x \in Cids :
       /\ IsUpload(s.rows[x]) => s.rows[x] = rows[x]
       /\ s.rows[x] # None => rows[x] # None
       /\ s.ok => (s.rows[x] = Claimed <=> HeldIn(s.recs, x))
       /\ s.rows[x] = Claimed => rows[x] = Claimed \/ <<x, rows[x].key>> \in s.links
  /\ \A l \in s.links :
       /\ IsUpload(rows[l[1]])
       /\ l[2] = rows[l[1]].key
       /\ uploads[l[2]] # None
       /\ ~IsUpload(s.rows[l[1]])
  /\ \A u \in s.taken : \E x \in Cids : <<x, u>> \in s.links

LEMMA IndexedLands ==
  ASSUME rows \in [Cids -> Row], recs \in [Rkeys -> SUBSET Cids],
         \A x \in Cids : rows[x] = Claimed <=> HeldIn(recs, x),
         NEW batch \in Batches
  PROVE  Landing(Indexed(batch))
<1> DEFINE kept == UNION {batch[i].names : i \in DOMAIN batch}
           first == Item(Untouched, batch[1], kept)
           done == IF Len(batch) = 1 THEN first ELSE Item(first, batch[2], kept)
           spared == Spared(kept, done.recs)
           d == Indexed(batch)
<1>1. Untouched \in Index /\ Sound(Untouched, kept)
  <2>1. /\ Untouched.rows = rows /\ Untouched.recs = recs /\ Untouched.links = {}
        /\ Untouched.taken = {} /\ Untouched \in Index
    BY DEF Untouched, Index
  <2> HIDE DEF kept
  <2> QED BY <2>1 DEF Sound
<1>2. Sound(done, kept) /\ kept \subseteq Cids
  <2>1. /\ batch[1] \in Items /\ batch[1].names \subseteq kept
        /\ Len(batch) # 1 => batch[2] \in Items /\ batch[2].names \subseteq kept
        /\ kept \subseteq Cids
    BY BatchItems
  <2> HIDE DEF kept
  <2>2. Sound(first, kept)
    BY <1>1, <2>1, ItemIsSound
  <2>3. first \in Index
    BY <2>2 DEF Sound
  <2>4. Len(batch) # 1 => Sound(Item(first, batch[2], kept), kept)
    BY <2>1, <2>2, <2>3, ItemIsSound
  <2> QED BY <2>1, <2>2, <2>4
<1>3. d = IF done.ok
          THEN [done EXCEPT !.rows = [x \in Cids |-> IF x \in spared THEN None ELSE @[x]],
                            !.orphaned = @ \cup spared]
          ELSE done
  BY DEF Indexed
<1>4. spared = {x \in kept : ~HeldIn(done.recs, x)}
  BY DEF Spared
<1> SUFFICES Landing(d)
  OBVIOUS
<1> HIDE DEF kept, done, spared, d
<1>5. CASE ~done.ok
  BY <1>2, <1>3, <1>5 DEF Sound, Landing
<1>6. CASE done.ok
  <2> DEFINE newRows == [x \in Cids |-> IF x \in spared THEN None ELSE done.rows[x]]
  <2>0. done \in Index
    BY <1>2 DEF Sound
  <2>1. /\ d.rows = newRows /\ d.recs = done.recs /\ d.orphaned = done.orphaned \cup spared
        /\ d.links = done.links /\ d.taken = done.taken /\ d.ok = done.ok /\ d \in Index
    BY <1>2, <1>3, <1>4, <1>6, <2>0 DEF Index, Row
  <2>2. ASSUME NEW x \in Cids
        PROVE  /\ IsUpload(d.rows[x]) => d.rows[x] = rows[x]
               /\ d.rows[x] # None => rows[x] # None
               /\ d.ok => (d.rows[x] = Claimed <=> HeldIn(d.recs, x))
               /\ d.rows[x] = Claimed => rows[x] = Claimed \/ <<x, rows[x].key>> \in d.links
    BY <1>2, <1>4, <2>1, RowKinds, SMT DEF Sound
  <2>3. ASSUME NEW l \in d.links
        PROVE  /\ IsUpload(rows[l[1]])
               /\ l[2] = rows[l[1]].key
               /\ uploads[l[2]] # None
               /\ ~IsUpload(d.rows[l[1]])
    <3>1. l[1] \in Cids /\ ~IsUpload(done.rows[l[1]])
      BY <1>2, <2>0, <2>1 DEF Index, Sound
    <3>2. ~IsUpload(d.rows[l[1]])
      BY <2>1, <3>1, RowKinds
    <3> QED BY <1>2, <2>1, <3>2 DEF Sound
  <2>4. \A u \in d.taken : \E x \in Cids : <<x, u>> \in d.links
    BY <1>2, <2>1 DEF Sound
  <2> QED BY <2>1, <2>2, <2>3, <2>4 DEF Landing
<1> QED BY <1>5, <1>6

-----------------------------------------------------------------------------
(* The inductive invariant. *)

Stages == {"idle", "placed", "keys", "files", "rows", "taking", "clearing", "cids", "walking", "done"}

Typed ==
  /\ TypeOK
  /\ wpc \in [Writes -> {"idle", "deciding", "unlinking", "clearing", "done"}]
  /\ spc \in [Sweepers -> Stages]
  /\ behind \in [Writes -> [cids : SUBSET Cids, keys : SUBSET Uploads]]
  /\ held \in [Sweepers -> SUBSET (Cids \cup Uploads)]
  /\ stale \in [Sweepers -> SUBSET (Cids \X Uploads)]
  /\ gone \subseteq Writes
  /\ crashed \in BOOLEAN

\* An upload that has written its row, if it was to have one.
Entered(u) == spc[u] \notin {"idle", "placed"}

\* No row is this upload's, and none will be again.
Spent(u) == Entered(u) /\ \A x \in Cids : IsUpload(rows[x]) => rows[x].key # u

\* The row of an upload is as old as its file, which is there, and nothing is
\* from the future.
AgesInv ==
  /\ \A p \in Sweepers : cutoff[p] <= now
  /\ \A u \in Uploads : /\ spc[u] = "idle" => uploads[u] = None
                        /\ spc[u] = "placed" => uploads[u] = now
  /\ \A x \in Cids : IsUpload(rows[x]) =>
       /\ CidOf[rows[x].key] = x
       /\ Entered(rows[x].key)
       /\ uploads[rows[x].key] = rows[x].at
       /\ rows[x].at <= now

\* What is about to be deleted is nobody's: what a commit took, what a sweep
\* took the rows of, and what it will take the rows of is too old.
SpentInv ==
  /\ \A w \in Writes : \A u \in behind[w].keys : Spent(u)
  /\ \A p \in Sweepers : \A s \in stale[p] :
       /\ spc[p] = "clearing" => Spent(s[2])
       /\ spc[p] = "taking" => /\ Entered(s[2])
                               /\ CidOf[s[2]] = s[1]
                               /\ StillThatUpload(s[1], s[2]) => rows[s[1]].at < cutoff[p]

\* An upload a sweep did not read the key of is inside its window.
FilesInv ==
  \A p \in Sweepers : spc[p] = "files" =>
    \A x \in Cids : IsUpload(rows[x]) => rows[x].key \in held[p] \/ cutoff[p] <= rows[x].at

\* A turn is held from a write's first step until its last, unless its caller
\* goes while it clears, and the open transaction is the turn's.
TurnInv ==
  /\ txn # None => wpc[txn] = "deciding"
  /\ \A w \in Writes :
       /\ wpc[w] = "deciding" => txn = w /\ turn = w
       /\ wpc[w] = "unlinking" => turn = w
       /\ wpc[w] = "clearing" /\ w \notin gone => turn = w

\* What an open transaction would leave.
WorkInv ==
  /\ txn # None =>
       /\ work.rows \in [Cids -> Row]
       /\ work.recs \in [Rkeys -> SUBSET Cids]
       /\ work.orphaned \subseteq Cids
       /\ work.taken \subseteq Uploads
       /\ \A x \in Cids : /\ IsUpload(work.rows[x]) => work.rows[x] = rows[x]
                          /\ work.rows[x] # None => rows[x] # None
                          /\ work.ok => (work.rows[x] = Claimed <=> HeldIn(work.recs, x))
       /\ \A u \in work.taken : /\ Entered(u)
                                /\ \A x \in Cids : IsUpload(work.rows[x]) => work.rows[x].key # u
  /\ \A w \in Writes : wpc[w] \in {"deciding", "unlinking"} =>
       \A x \in Cids : x \in work.links => rows[x] # Claimed

\* A claim is a record's.
ClaimInv == \A x \in Cids : rows[x] = Claimed <=> HeldIn(recs, x)

\* What a write still in its turn is about to delete is nobody's claim.
DoubtInv ==
  /\ \A w \in Writes \ gone : doubt[w] # None => wpc[w] = "clearing" /\ rows[doubt[w]] # Claimed
  /\ \A p \in Sweepers : spc[p] \in {"cids", "walking"} => p \in Reconciler
  /\ ~crashed => \A p \in Reconciler : spc[p] = "idle"

\* Until somebody hangs up or the process dies, what is claimed is served, and
\* so is what is about to be.
ServedInv ==
  gone = {} /\ ~crashed =>
    \A x \in Cids : rows[x] = Claimed \/ (txn # None /\ work.rows[x] = Claimed) => served[x] # None

\* A blob a walk read no row of has since been uploaded, or claimed, inside the
\* window.
WalkInv ==
  \A p \in Sweepers : spc[p] = "walking" =>
    \A x \in Cids : x \notin held[p] =>
      /\ IsUpload(rows[x]) => cutoff[p] <= rows[x].at
      /\ (rows[x] = Claimed \/ (txn # None /\ work.rows[x] = Claimed)) /\ served[x] # None
           => cutoff[p] <= served[x]

BlobsInv ==
  /\ Typed /\ AgesInv /\ SpentInv /\ FilesInv /\ TurnInv
  /\ WorkInv /\ ClaimInv /\ DoubtInv /\ ServedInv /\ WalkInv

-----------------------------------------------------------------------------
(* No step breaks it. *)

\* What each part is about.
LEMMA Frames ==
  /\ AgesInv /\ UNCHANGED <<now, rows, uploads, spc, cutoff>> => AgesInv'
  /\ SpentInv /\ UNCHANGED <<rows, behind, stale, spc, cutoff>> => SpentInv'
  /\ FilesInv /\ UNCHANGED <<rows, held, spc, cutoff>> => FilesInv'
  /\ TurnInv /\ UNCHANGED <<turn, txn, wpc, gone>> => TurnInv'
  /\ WorkInv /\ UNCHANGED <<rows, txn, work, wpc, spc>> => WorkInv'
  /\ ClaimInv /\ UNCHANGED <<rows, recs>> => ClaimInv'
  /\ DoubtInv /\ UNCHANGED <<rows, wpc, gone, doubt, spc, crashed>> => DoubtInv'
  /\ ServedInv /\ UNCHANGED <<rows, served, txn, work, gone, crashed>> => ServedInv'
  /\ WalkInv /\ UNCHANGED <<rows, served, txn, work, held, spc, cutoff>> => WalkInv'
<1>1. AgesInv /\ UNCHANGED <<now, rows, uploads, spc, cutoff>> => AgesInv'
  BY DEF AgesInv, Entered
<1>2. SpentInv /\ UNCHANGED <<rows, behind, stale, spc, cutoff>> => SpentInv'
  BY DEF SpentInv, Spent, Entered, StillThatUpload
<1>3. FilesInv /\ UNCHANGED <<rows, held, spc, cutoff>> => FilesInv'
  BY DEF FilesInv
<1>4. TurnInv /\ UNCHANGED <<turn, txn, wpc, gone>> => TurnInv'
  BY DEF TurnInv
<1>5. WorkInv /\ UNCHANGED <<rows, txn, work, wpc, spc>> => WorkInv'
  BY DEF WorkInv, Entered
<1>6. ClaimInv /\ UNCHANGED <<rows, recs>> => ClaimInv'
  BY DEF ClaimInv
<1>7. DoubtInv /\ UNCHANGED <<rows, wpc, gone, doubt, spc, crashed>> => DoubtInv'
  BY SMT DEF DoubtInv
<1>8. ServedInv /\ UNCHANGED <<rows, served, txn, work, gone, crashed>> => ServedInv'
  BY SMT DEF ServedInv
<1>9. WalkInv /\ UNCHANGED <<rows, served, txn, work, held, spc, cutoff>> => WalkInv'
  BY DEF WalkInv
<1> QED BY <1>1, <1>2, <1>3, <1>4, <1>5, <1>6, <1>7, <1>8, <1>9

\* What a sweep may come to be at, with this cutoff, these names and these rows
\* read, as far as the rest is concerned.
Fits(p, stage, since, names, read) ==
  /\ stage \in Stages \ {"idle", "placed"}
  /\ since \in Times /\ since <= now
  /\ names \subseteq Cids \cup Uploads
  /\ read \subseteq Cids \X Uploads
  /\ p \in Reconciler => crashed
  /\ stage \in {"cids", "walking"} => p \in Reconciler
  /\ stage = "files" => \A x \in Cids : IsUpload(rows[x]) => rows[x].key \in names \/ since <= rows[x].at
  /\ stage = "clearing" => \A s \in read : Spent(s[2])
  /\ stage = "taking" => \A s \in read :
       /\ Entered(s[2])
       /\ CidOf[s[2]] = s[1]
       /\ StillThatUpload(s[1], s[2]) => rows[s[1]].at < since
  /\ stage = "walking" => \A x \in Cids : x \notin names =>
       /\ IsUpload(rows[x]) => since <= rows[x].at
       /\ (rows[x] = Claimed \/ (txn # None /\ work.rows[x] = Claimed)) /\ served[x] # None
            => since <= served[x]

\* It has come to be there.
Moved(p, stage, since, names, read) ==
  /\ spc' = [spc EXCEPT ![p] = stage]
  /\ cutoff' = [cutoff EXCEPT ![p] = since]
  /\ held' = [held EXCEPT ![p] = names]
  /\ stale' = [stale EXCEPT ![p] = read]
  /\ UNCHANGED <<now, rows, recs, served, turn, txn, wpc, gone, work, behind, doubt, faults, crashed>>

\* A sweep or a reconcile that moves on, and deletes at most upload files that
\* are nobody's, breaks nothing.
LEMMA MovingOn ==
  ASSUME BlobsInv, NEW p \in Sweepers, NEW stage, NEW since, NEW names, NEW read,
         Fits(p, stage, since, names, read),
         spc[p] # "placed", p \in Reconciler \/ spc[p] # "idle",
         Moved(p, stage, since, names, read),
         uploads' \in [Uploads -> Times \cup {None}],
         \A u \in Uploads : uploads'[u] # uploads[u] => Spent(u)
  PROVE  BlobsInv'
<1> USE DEF Moved
<1>1. Typed'
  BY DEF BlobsInv, Typed, TypeOK, Fits
<1>2. \A u \in Uploads : /\ Entered(u)' <=> Entered(u)
                         /\ spc'[u] = "placed" <=> spc[u] = "placed"
                         /\ spc'[u] = "idle" <=> spc[u] = "idle"
  BY NamesAssumption, SMT DEF BlobsInv, Typed, Fits, Entered, Sweepers
<1>3. \A q \in Sweepers : q # p => /\ spc'[q] = spc[q] /\ cutoff'[q] = cutoff[q]
                                   /\ held'[q] = held[q] /\ stale'[q] = stale[q]
  BY DEF BlobsInv, Typed, TypeOK
<1>4. spc'[p] = stage /\ cutoff'[p] = since /\ held'[p] = names /\ stale'[p] = read
  BY DEF BlobsInv, Typed, TypeOK
<1>5. \A x \in Cids : IsUpload(rows[x]) => rows[x].key \in Uploads /\ rows[x].at \in Times
  BY RowKinds DEF BlobsInv, Typed, TypeOK, Row
<1>6. \A u \in Uploads : Spent(u)' <=> Spent(u)
  BY <1>2 DEF Spent
<1>7. AgesInv'
  BY <1>2, <1>3, <1>4, <1>5, SMT DEF BlobsInv, AgesInv, Fits, Spent, Entered
<1>8. SpentInv'
  BY <1>2, <1>3, <1>4, <1>6, SMT DEF BlobsInv, Typed, SpentInv, Fits, StillThatUpload
<1>9. FilesInv'
  BY <1>3, <1>4, SMT DEF BlobsInv, FilesInv, Fits
<1>10. WorkInv'
  BY <1>2 DEF BlobsInv, WorkInv
<1>11. DoubtInv'
  BY <1>3, <1>4 DEF BlobsInv, DoubtInv, Fits, Sweepers
<1>12. WalkInv'
  BY <1>3, <1>4, SMT DEF BlobsInv, WalkInv, Fits
<1> QED BY <1>1, <1>7, <1>8, <1>9, <1>10, <1>11, <1>12, Frames DEF BlobsInv

\* What a sweep finds wherever it is.
LEMMA SweepFacts ==
  ASSUME BlobsInv, NEW p \in Sweepers
  PROVE  /\ now \in Times /\ 0 \in Times /\ cutoff[p] \in Times /\ cutoff[p] <= now
         /\ held[p] \subseteq Cids \cup Uploads /\ stale[p] \subseteq Cids \X Uploads
         /\ uploads \in [Uploads -> Times \cup {None}]
         /\ held = [held EXCEPT ![p] = held[p]]
         /\ cutoff = [cutoff EXCEPT ![p] = cutoff[p]]
         /\ stale = [stale EXCEPT ![p] = stale[p]]
         /\ spc[p] # "idle" /\ p \in Reconciler => crashed
         /\ spc[p] \in {"cids", "walking"} => p \in Reconciler
         /\ \A x \in Cids : IsUpload(rows[x]) =>
              /\ rows[x].key \in Uploads /\ rows[x].at \in Times
              /\ CidOf[rows[x].key] = x /\ Entered(rows[x].key)
              /\ uploads[rows[x].key] = rows[x].at
<1>1. /\ now \in Times /\ 0 \in Times /\ cutoff[p] \in Times /\ cutoff[p] <= now
      /\ held[p] \subseteq Cids \cup Uploads /\ stale[p] \subseteq Cids \X Uploads
      /\ uploads \in [Uploads -> Times \cup {None}]
      /\ rows \in [Cids -> Row]
  BY BoundsAssumption, SMT DEF BlobsInv, Typed, TypeOK, Row, AgesInv, Times
<1>2. /\ held = [held EXCEPT ![p] = held[p]]
      /\ cutoff = [cutoff EXCEPT ![p] = cutoff[p]]
      /\ stale = [stale EXCEPT ![p] = stale[p]]
  BY DEF BlobsInv, Typed, TypeOK
<1>3. /\ spc[p] # "idle" /\ p \in Reconciler => crashed
      /\ spc[p] \in {"cids", "walking"} => p \in Reconciler
  BY DEF BlobsInv, DoubtInv
<1>4. ASSUME NEW x \in Cids, IsUpload(rows[x])
      PROVE  /\ rows[x].key \in Uploads /\ rows[x].at \in Times
             /\ CidOf[rows[x].key] = x /\ Entered(rows[x].key)
             /\ uploads[rows[x].key] = rows[x].at
  BY <1>1, <1>4, RowKinds DEF BlobsInv, AgesInv
<1> QED BY <1>1, <1>2, <1>3, <1>4

LEMMA ReconcileStarts ==
  ASSUME BlobsInv, NEW p \in Sweepers, Reconcile(p)
  PROVE  BlobsInv'
<1>1. Fits(p, "keys", cutoff[p], held[p], stale[p])
  BY SweepFacts DEF Fits, Stages, Reconcile
<1>2. Moved(p, "keys", cutoff[p], held[p], stale[p]) /\ UNCHANGED uploads /\ p \in Reconciler /\ spc[p] # "placed"
  BY SweepFacts DEF Moved, Reconcile, tables, files, writing
<1> QED BY <1>1, <1>2, MovingOn, SweepFacts

LEMMA KeysAreRead ==
  ASSUME BlobsInv, NEW p \in Sweepers, ReadKeys(p)
  PROVE  BlobsInv'
<1> DEFINE names == {rows[x].key : x \in {y \in Cids : IsUpload(rows[y])}}
<1>0. /\ names \subseteq Uploads
      /\ \A x \in Cids : IsUpload(rows[x]) => rows[x].key \in names
  BY SweepFacts
<1>1. Moved(p, "files", now, names, stale[p]) /\ UNCHANGED uploads /\ spc[p] = "keys"
  BY SweepFacts DEF Moved, ReadKeys, tables, files, writing
<1> HIDE DEF names
<1>2. Fits(p, "files", now, names, stale[p])
  <2>1. now <= now
    BY SweepFacts, SMT DEF Times
  <2> QED BY <1>0, <1>1, <2>1, SweepFacts DEF Fits, Stages
<1> QED BY <1>1, <1>2, MovingOn, SweepFacts

LEMMA UploadsAreSwept ==
  ASSUME BlobsInv, NEW p \in Sweepers, SweepUploads(p)
  PROVE  BlobsInv'
<1>1. Fits(p, "rows", cutoff[p], held[p], stale[p])
  BY SweepFacts DEF Fits, Stages, SweepUploads
<1>2. uploads' \in [Uploads -> Times \cup {None}]
  BY SweepFacts DEF SweepUploads
<1>3. ASSUME NEW u \in Uploads, uploads'[u] # uploads[u] PROVE Spent(u)
  <2>1. uploads[u] # None /\ uploads[u] \in Times /\ u \notin held[p] /\ uploads[u] < cutoff[p]
    BY <1>3, SweepFacts, SMT DEF SweepUploads, Old
  <2>2. spc[u] = "placed" => uploads[u] = now
    BY DEF BlobsInv, AgesInv
  <2>3. spc[u] = "idle" => uploads[u] = None
    BY DEF BlobsInv, AgesInv
  <2>4. spc[u] # "placed"
    BY <2>1, <2>2, SweepFacts, SMT DEF Times
  <2>5. \A x \in Cids : IsUpload(rows[x]) => rows[x].key \in held[p] \/ cutoff[p] <= rows[x].at
    BY DEF BlobsInv, FilesInv, SweepUploads
  <2>6. \A x \in Cids : IsUpload(rows[x]) => rows[x].key # u
    BY <2>1, <2>5, SweepFacts, SMT DEF Times
  <2> QED BY <2>1, <2>3, <2>4, <2>6 DEF Spent, Entered
<1>4. Moved(p, "rows", cutoff[p], held[p], stale[p]) /\ spc[p] = "files"
  BY SweepFacts DEF Moved, SweepUploads, tables, writing
<1> QED BY <1>1, <1>2, <1>3, <1>4, MovingOn

LEMMA StaleIsRead ==
  ASSUME BlobsInv, NEW p \in Sweepers, ReadStale(p)
  PROVE  BlobsInv'
<1> DEFINE read == {<<x, rows[x].key>> : x \in {y \in Cids : IsUpload(rows[y]) /\ rows[y].at < cutoff[p]}}
<1>0. /\ read \subseteq Cids \X Uploads
      /\ \A s \in read : Entered(s[2]) /\ CidOf[s[2]] = s[1] /\ rows[s[1]].at < cutoff[p]
  BY SweepFacts, SMT
<1>1. Moved(p, "taking", cutoff[p], held[p], read) /\ UNCHANGED uploads /\ spc[p] = "rows"
  BY SweepFacts DEF Moved, ReadStale, tables, files, writing
<1> HIDE DEF read
<1>2. Fits(p, "taking", cutoff[p], held[p], read)
  BY <1>0, <1>1, SweepFacts DEF Fits, Stages
<1> QED BY <1>1, <1>2, MovingOn, SweepFacts

LEMMA SweepIsOver ==
  ASSUME BlobsInv, NEW p \in Sweepers, spc[p] \notin {"idle", "placed"}, Over(p),
         uploads' \in [Uploads -> Times \cup {None}],
         \A u \in Uploads : uploads'[u] # uploads[u] => Spent(u),
         UNCHANGED <<now, rows, recs, served, turn, txn, wpc, gone, work, behind, doubt, faults, crashed>>
  PROVE  BlobsInv'
<1>1. Fits(p, "done", 0, {}, {})
  BY SweepFacts, SMT DEF Fits, Stages, Times
<1>2. Moved(p, "done", 0, {}, {})
  BY DEF Moved, Over
<1> QED BY <1>1, <1>2, MovingOn

LEMMA StaleIsDropped ==
  ASSUME BlobsInv, NEW p \in Sweepers, DropStale(p)
  PROVE  BlobsInv'
<1>1. uploads' \in [Uploads -> Times \cup {None}]
  BY SweepFacts DEF DropStale
<1>2. ASSUME NEW u \in Uploads, uploads'[u] # uploads[u] PROVE Spent(u)
  BY <1>2, SweepFacts, SMT DEF DropStale, BlobsInv, SpentInv
<1>3. /\ UNCHANGED <<now, rows, recs, served, turn, txn, wpc, gone, work, behind, doubt, faults, crashed>>
      /\ spc[p] = "clearing"
  BY DEF DropStale, tables, writing
<1>4. CASE p \in Reconciler
  <2>1. Fits(p, "cids", cutoff[p], held[p], stale[p])
    BY <1>3, <1>4, SweepFacts DEF Fits, Stages
  <2>2. Moved(p, "cids", cutoff[p], held[p], stale[p])
    BY <1>3, <1>4, SweepFacts DEF Moved, DropStale
  <2> QED BY <1>1, <1>2, <1>3, <2>1, <2>2, MovingOn
<1>5. CASE p \notin Reconciler
  <2>1. Over(p)
    BY <1>5 DEF DropStale
  <2> QED BY <1>1, <1>2, <1>3, <2>1, SweepIsOver
<1> QED BY <1>4, <1>5

LEMMA SweepStops ==
  ASSUME BlobsInv, NEW p \in Sweepers, StopSweep(p) \/ Walked(p)
  PROVE  BlobsInv'
<1>1. /\ UNCHANGED <<now, rows, recs, served, turn, txn, wpc, gone, work, behind, doubt, faults, crashed>>
      /\ UNCHANGED uploads /\ Over(p) /\ spc[p] \notin {"idle", "placed"}
  BY DEF StopSweep, Walked, tables, files, writing
<1> QED BY <1>1, SweepIsOver, SweepFacts

LEMMA CidsAreRead ==
  ASSUME BlobsInv, NEW p \in Sweepers, ReadCids(p)
  PROVE  BlobsInv'
<1> DEFINE names == {x \in Cids : rows[x] # None}
<1>0. names \subseteq Cids /\ \A x \in Cids : x \in names <=> rows[x] # None
  OBVIOUS
<1>1. Moved(p, "walking", cutoff[p], names, stale[p]) /\ UNCHANGED uploads /\ spc[p] = "cids"
  BY SweepFacts DEF Moved, ReadCids, tables, files, writing
<1> HIDE DEF names
<1>2. \A x \in Cids : txn # None /\ work.rows[x] = Claimed => rows[x] # None
  BY RowKinds DEF BlobsInv, WorkInv
<1>3. Fits(p, "walking", cutoff[p], names, stale[p])
  BY <1>0, <1>1, <1>2, SweepFacts, RowKinds DEF Fits, Stages
<1> QED BY <1>1, <1>3, MovingOn, SweepFacts

LEMMA StaleIsTaken ==
  ASSUME BlobsInv, NEW p \in Sweepers, TakeStale(p)
  PROVE  BlobsInv'
<1> DEFINE still == {s \in stale[p] : StillThatUpload(s[1], s[2])}
<1>0. /\ spc' = [spc EXCEPT ![p] = "clearing"] /\ spc[p] = "taking" /\ txn = None
      /\ stale' = [stale EXCEPT ![p] = still]
      /\ UNCHANGED <<now, recs, uploads, served, turn, txn, wpc, gone, work, behind, doubt, cutoff, held, faults, crashed>>
  BY DEF TakeStale, tables, files, writing
<1>1. /\ rows' \in [Cids -> Row]
      /\ \A x \in Cids : rows'[x] = rows[x] \/ rows'[x] = None
      /\ \A x \in Cids : rows'[x] # rows[x] => IsUpload(rows[x])
      /\ \A s \in still : rows'[s[1]] = None
  BY DEF TakeStale, BlobsInv, Typed, TypeOK, Row, StillThatUpload
<1>2. /\ still \subseteq stale[p] /\ still \subseteq Cids \X Uploads
      /\ \A s \in still : CidOf[s[2]] = s[1] /\ Entered(s[2])
  BY <1>0 DEF BlobsInv, Typed, SpentInv
<1> HIDE DEF still
<1>3. Typed'
  BY <1>0, <1>1, <1>2 DEF BlobsInv, Typed, TypeOK, Stages, Row
<1>4. \A q \in Sweepers : IF q = p THEN spc'[q] = "clearing" /\ stale'[q] = still
                          ELSE spc'[q] = spc[q] /\ stale'[q] = stale[q]
  BY <1>0 DEF BlobsInv, Typed, TypeOK
<1>5. \A u \in Uploads : u \in Sweepers /\ (Entered(u)' <=> Entered(u))
                         /\ (spc'[u] = "idle" <=> spc[u] = "idle") /\ (spc'[u] = "placed" <=> spc[u] = "placed")
  BY <1>0, <1>4 DEF Entered, Sweepers
<1>6. ASSUME NEW x \in Cids
      PROVE  /\ rows[x] = Claimed <=> rows'[x] = Claimed
             /\ IsUpload(rows'[x]) => IsUpload(rows[x]) /\ rows'[x] = rows[x]
             /\ IsUpload(rows[x]) => rows[x].key \in Uploads /\ rows[x].at \in Times
  BY <1>1, RowKinds DEF BlobsInv, Typed, TypeOK, Row
<1>7. \A v \in Uploads : Spent(v) => Spent(v)'
  BY <1>0, <1>5, <1>6 DEF Spent
<1>8. \A s \in still : Spent(s[2])'
  <2>1. SUFFICES ASSUME NEW s \in still, NEW x \in Cids, IsUpload(rows'[x]), rows'[x].key = s[2]
                 PROVE  FALSE
    BY <1>2, <1>5 DEF Spent
  <2>2. x = s[1]
    BY <1>2, <1>6, <2>1, SMT DEF BlobsInv, AgesInv
  <2> QED BY <1>1, <2>1, <2>2, RowKinds
<1>9. AgesInv'
  BY <1>0, <1>5, <1>6, SMT DEF BlobsInv, AgesInv
<1>10. SpentInv'
  BY <1>0, <1>4, <1>5, <1>6, <1>7, <1>8, SMT DEF BlobsInv, Typed, SpentInv, StillThatUpload
<1>11. FilesInv'
  BY <1>0, <1>4, <1>6 DEF BlobsInv, FilesInv
<1>12. WorkInv'
  BY <1>0, <1>6 DEF BlobsInv, WorkInv
<1>13. ClaimInv'
  BY <1>0, <1>6 DEF BlobsInv, ClaimInv
<1>14. DoubtInv'
  BY <1>0, <1>4, <1>6, SMT DEF BlobsInv, Typed, TypeOK, DoubtInv, Sweepers
<1>15. ServedInv'
  BY <1>0, <1>6 DEF BlobsInv, ServedInv
<1>16. WalkInv'
  BY <1>0, <1>4, <1>6 DEF BlobsInv, WalkInv
<1> QED BY <1>0, <1>3, <1>9, <1>10, <1>11, <1>12, <1>13, <1>14, <1>15, <1>16, Frames DEF BlobsInv

LEMMA FileIsLookedAt ==
  ASSUME BlobsInv, NEW p \in Sweepers, NEW x \in Cids, Look(p, x)
  PROVE  BlobsInv'
<1>1. Typed'
  BY DEF BlobsInv, Typed, TypeOK, Look, tables, files, writing, sweeping
<1>2. \A w \in Writes : doubt'[w] = doubt[w]
  BY NamesAssumption, SMT DEF BlobsInv, Typed, TypeOK, Look, Sweepers
<1>3. DoubtInv'
  BY <1>2 DEF BlobsInv, DoubtInv, Look, tables, writing, sweeping
<1> QED BY <1>1, <1>3, Frames DEF BlobsInv, Look, tables, files, writing, sweeping

LEMMA FileIsReclaimed ==
  ASSUME BlobsInv, NEW p \in Sweepers, Reclaim(p)
  PROVE  BlobsInv'
<1>1. Typed'
  BY DEF BlobsInv, Typed, TypeOK, Reclaim, tables, files, writing, sweeping
<1>2. \A w \in Writes : doubt'[w] = doubt[w]
  BY NamesAssumption, SMT DEF BlobsInv, Typed, TypeOK, Reclaim, Sweepers
<1>3. DoubtInv'
  BY <1>2 DEF BlobsInv, DoubtInv, Reclaim, tables, writing, sweeping
<1>4. crashed
  BY DEF BlobsInv, DoubtInv, Reclaim
<1>5. ServedInv'
  BY <1>4 DEF ServedInv, Reclaim
<1>6. \A x \in Cids : served'[x] = None \/ served'[x] = served[x]
  BY DEF BlobsInv, Typed, TypeOK, Reclaim
<1>7. WalkInv'
  BY <1>6 DEF BlobsInv, WalkInv, Reclaim, tables, writing, sweeping
<1> QED BY <1>1, <1>3, <1>5, <1>7, Frames DEF BlobsInv, Reclaim, tables, writing, sweeping

LEMMA UploadIsPlaced ==
  ASSUME BlobsInv, NEW u \in Uploads, Put(u)
  PROVE  BlobsInv'
<1>0. /\ spc' = [spc EXCEPT ![u] = "placed"] /\ uploads' = [uploads EXCEPT ![u] = now] /\ spc[u] = "idle" /\ u \in Sweepers
      /\ UNCHANGED <<now, rows, recs, served, turn, txn, wpc, gone, work, behind, doubt, cutoff, held, stale, faults, crashed>>
  BY DEF Put, tables, writing, Sweepers
<1>1. Typed'
  BY <1>0 DEF BlobsInv, Typed, TypeOK, Stages
<1>2. /\ \A p \in Sweepers : IF p = u THEN spc'[p] = "placed" ELSE spc'[p] = spc[p]
      /\ \A v \in Uploads : IF v = u THEN uploads'[v] = now ELSE uploads'[v] = uploads[v]
  BY <1>0 DEF BlobsInv, Typed, TypeOK
<1>3. \A v \in Uploads : v \in Sweepers /\ (Entered(v)' <=> Entered(v)) /\ (Entered(v) => v # u)
  BY <1>0, <1>2 DEF Entered, Sweepers
<1>4. \A v \in Uploads : Spent(v)' <=> Spent(v)
  BY <1>0, <1>3 DEF Spent
<1>5. \A x \in Cids : IsUpload(rows[x]) => rows[x].key \in Uploads
  BY RowKinds DEF BlobsInv, Typed, TypeOK, Row
<1>6. AgesInv'
  BY <1>0, <1>2, <1>3, <1>5, SMT DEF BlobsInv, AgesInv
<1>7. SpentInv'
  BY <1>0, <1>2, <1>3, <1>4, SMT DEF BlobsInv, Typed, SpentInv, StillThatUpload
<1>8. FilesInv'
  BY <1>0, <1>2 DEF BlobsInv, FilesInv
<1>9. WorkInv'
  BY <1>0, <1>3 DEF BlobsInv, WorkInv
<1>10. DoubtInv'
  BY <1>0, <1>2, NamesAssumption DEF BlobsInv, DoubtInv, Sweepers
<1>11. WalkInv'
  BY <1>0, <1>2 DEF BlobsInv, WalkInv
<1> QED BY <1>0, <1>1, <1>6, <1>7, <1>8, <1>9, <1>10, <1>11, Frames DEF BlobsInv

LEMMA UploadIsEntered ==
  ASSUME BlobsInv, NEW u \in Uploads, AddBlob(u)
  PROVE  BlobsInv'
<1>0. /\ spc' = [spc EXCEPT ![u] = "keys"] /\ spc[u] = "placed" /\ u \in Sweepers /\ txn = None
      /\ CidOf[u] \in Cids /\ uploads[u] = now
      /\ UNCHANGED <<now, recs, uploads, served, turn, txn, wpc, gone, work, behind, doubt, cutoff, held, stale, faults, crashed>>
  BY NamesAssumption DEF BlobsInv, AgesInv, AddBlob, tables, files, writing, Sweepers
<1>1. Stamped(u) \in Uploaded /\ Stamped(u).key = u /\ Stamped(u).at = now
  BY DEF Stamped, Uploaded, BlobsInv, Typed, TypeOK
<1>2. \A x \in Cids : rows'[x] = rows[x] \/ (x = CidOf[u] /\ rows[x] # Claimed /\ rows'[x] = Stamped(u))
  BY DEF AddBlob, BlobsInv, Typed, TypeOK
<1>3. Typed'
  BY <1>0, <1>1 DEF AddBlob, BlobsInv, Typed, TypeOK, Stages
<1>4. \A p \in Sweepers : IF p = u THEN spc'[p] = "keys" ELSE spc'[p] = spc[p]
  BY <1>0 DEF BlobsInv, Typed, TypeOK
<1>5. \A v \in Uploads : v \in Sweepers /\ (Entered(v)' <=> Entered(v) \/ v = u) /\ (Entered(v) => v # u)
  BY <1>0, <1>4 DEF Entered, Sweepers
<1>6. ASSUME NEW x \in Cids
      PROVE  /\ rows[x] = Claimed <=> rows'[x] = Claimed
             /\ IsUpload(rows'[x]) => (IsUpload(rows[x]) /\ rows'[x] = rows[x])
                                         \/ (x = CidOf[u] /\ rows'[x].key = u /\ rows'[x].at = now)
             /\ IsUpload(rows[x]) => rows[x].key \in Uploads /\ rows[x].at \in Times
  BY <1>1, <1>2, RowKinds DEF BlobsInv, Typed, TypeOK, Row
<1>7. \A v \in Uploads : Spent(v) => Spent(v)'
  BY <1>0, <1>5, <1>6 DEF Spent
<1>8. AgesInv'
  BY <1>0, <1>4, <1>5, <1>6, SMTT(30) DEF BlobsInv, Typed, TypeOK, AgesInv, Times
<1>9. SpentInv'
  BY <1>0, <1>4, <1>5, <1>6, <1>7, SMT DEF BlobsInv, Typed, SpentInv, StillThatUpload
<1>10. FilesInv'
  BY <1>0, <1>4, <1>6 DEF BlobsInv, AgesInv, FilesInv
<1>11. WorkInv'
  BY <1>0, <1>6 DEF BlobsInv, WorkInv
<1>12. ClaimInv'
  BY <1>0, <1>6 DEF BlobsInv, ClaimInv
<1>13. DoubtInv'
  BY <1>0, <1>4, <1>6, NamesAssumption, SMT DEF BlobsInv, Typed, TypeOK, DoubtInv, Sweepers
<1>14. ServedInv'
  BY <1>0, <1>6 DEF BlobsInv, ServedInv
<1>15. WalkInv'
  BY <1>0, <1>4, <1>6 DEF BlobsInv, AgesInv, WalkInv
<1> QED BY <1>0, <1>3, <1>8, <1>9, <1>10, <1>11, <1>12, <1>13, <1>14, <1>15, Frames DEF BlobsInv

-----------------------------------------------------------------------------
(* Nor do the writes. *)

LEMMA BlobIsRechecked ==
  ASSUME BlobsInv, NEW w \in Writes, NEW x \in Cids, Recheck(w, x)
  PROVE  BlobsInv'
<1>1. Typed'
  <2>1. /\ behind' = [behind EXCEPT ![w].cids = @ \ {x}]
        /\ doubt' = IF Unheld(x) THEN [doubt EXCEPT ![w] = x] ELSE doubt
        /\ UNCHANGED <<now, rows, recs, uploads, served, turn, txn, wpc, gone, work, spc, cutoff, held, stale, faults, crashed>>
    BY DEF Recheck, tables, files, sweeping
  <2>2. /\ behind \in [Writes -> [cids : SUBSET Cids, keys : SUBSET Uploads]]
        /\ doubt \in [Writes \cup Sweepers -> Cids \cup {None}]
    BY DEF BlobsInv, Typed, TypeOK
  <2>3. behind' \in [Writes -> [cids : SUBSET Cids, keys : SUBSET Uploads]]
    BY <2>1, <2>2, SMT
  <2>4. doubt' \in [Writes \cup Sweepers -> Cids \cup {None}]
    BY <2>1, <2>2
  <2>5. \A v \in Writes : behind'[v].cids \in SUBSET Cids /\ behind'[v].keys \in SUBSET Uploads
    BY <2>3
  <2> QED BY <2>1, <2>3, <2>4, <2>5 DEF BlobsInv, Typed, TypeOK
<1>2. \A v \in Writes : behind'[v].keys = behind[v].keys
  BY DEF BlobsInv, Typed, Recheck
<1>3. SpentInv'
  BY <1>2 DEF BlobsInv, SpentInv, Spent, Entered, StillThatUpload, Recheck, tables, sweeping
<1>4. \A v \in Writes : doubt'[v] # doubt[v] => v = w /\ doubt'[v] = x /\ rows[x] = None
  BY DEF BlobsInv, Typed, TypeOK, Recheck, Unheld
<1>5. DoubtInv'
  BY <1>4, RowKinds DEF BlobsInv, DoubtInv, Recheck, tables, sweeping
<1> QED BY <1>1, <1>3, <1>5, Frames DEF BlobsInv, Recheck, tables, files, sweeping

LEMMA FileIsDeleted ==
  ASSUME BlobsInv, NEW w \in Writes, Delete(w)
  PROVE  BlobsInv'
<1>1. Typed'
  BY DEF BlobsInv, Typed, TypeOK, Delete, tables, files, writing, sweeping
<1>2. \A v \in Writes : doubt'[v] = doubt[v] \/ doubt'[v] = None
  BY DEF BlobsInv, Typed, TypeOK, Delete
<1>3. DoubtInv'
  BY <1>2 DEF BlobsInv, DoubtInv, Delete, tables, writing, sweeping
<1>4. \A x \in Cids : served'[x] = served[x] \/ (served'[x] = None /\ x = doubt[w])
  BY DEF BlobsInv, Typed, TypeOK, Delete
<1>5. w \notin gone => rows[doubt[w]] # Claimed /\ txn = None
  BY DEF BlobsInv, TurnInv, DoubtInv, Delete, Typed, TypeOK
<1>6. ServedInv'
  BY <1>4, <1>5 DEF BlobsInv, ServedInv, Delete, tables, writing
<1>7. WalkInv'
  BY <1>4 DEF BlobsInv, WalkInv, Delete, tables, writing, sweeping
<1> QED BY <1>1, <1>3, <1>6, <1>7, Frames DEF BlobsInv, Delete, tables, writing, sweeping

LEMMA UploadsAreDropped ==
  ASSUME BlobsInv, NEW w \in Writes, Drop(w)
  PROVE  BlobsInv'
<1>1. Typed'
  BY DEF BlobsInv, Typed, TypeOK, Drop, tables, sweeping, Nothing
<1>2. \A u \in Uploads : uploads'[u] # uploads[u] => Spent(u)
  BY DEF BlobsInv, Typed, TypeOK, SpentInv, Drop
<1>3. AgesInv'
  BY <1>2, RowKinds, SMT DEF BlobsInv, Typed, TypeOK, Row, AgesInv, Spent, Entered, Drop, tables, sweeping
<1>4. \A v \in Writes : \A u \in behind'[v].keys : u \in behind[v].keys
  BY DEF BlobsInv, Typed, Drop, Nothing
<1>5. SpentInv'
  BY <1>4 DEF BlobsInv, SpentInv, Spent, Entered, StillThatUpload, Drop, tables, sweeping
<1>6. \A v \in Writes : wpc'[v] = wpc[v] \/ (v = w /\ wpc'[v] = "done")
  BY DEF BlobsInv, Typed, Drop
<1>7. TurnInv'
  BY <1>6, NamesAssumption, SMT DEF BlobsInv, Typed, TypeOK, TurnInv, Drop
<1>8. WorkInv'
  BY <1>6 DEF BlobsInv, WorkInv, Entered, Drop, tables, sweeping
<1>9. DoubtInv'
  BY <1>6 DEF BlobsInv, DoubtInv, Drop, tables, sweeping
<1> QED BY <1>1, <1>3, <1>5, <1>7, <1>8, <1>9, Frames DEF BlobsInv, Drop, tables, sweeping

LEMMA CallerGoes ==
  ASSUME BlobsInv, NEW w \in Writes, HangUp(w)
  PROVE  BlobsInv'
<1>1. Typed'
  BY NamesAssumption DEF BlobsInv, Typed, TypeOK, HangUp, tables, files, sweeping
<1>2. TurnInv'
  BY DEF BlobsInv, Typed, TypeOK, TurnInv, HangUp
<1>3. DoubtInv'
  BY DEF BlobsInv, DoubtInv, HangUp, tables, sweeping
<1>4. ServedInv'
  BY DEF ServedInv, HangUp
<1> QED BY <1>1, <1>2, <1>3, <1>4, Frames DEF BlobsInv, HangUp, tables, files, sweeping

LEMMA CommitRollsBack ==
  ASSUME BlobsInv, NEW w \in Writes, Rollback(w)
  PROVE  BlobsInv'
<1>0. txn = w /\ turn = w /\ txn' = None /\ wpc' = [wpc EXCEPT ![w] = "unlinking"]
  BY DEF BlobsInv, TurnInv, Rollback
<1>1. Typed'
  BY BoundsAssumption, SMT DEF BlobsInv, Typed, TypeOK, Rollback, tables, files, sweeping
<1>2. \A v \in Writes : IF v = w THEN wpc'[v] = "unlinking" ELSE wpc'[v] = wpc[v] /\ wpc[v] # "deciding"
  BY <1>0 DEF BlobsInv, Typed, TurnInv
<1>3. TurnInv'
  BY <1>0, <1>2 DEF BlobsInv, TurnInv, Rollback
<1>4. WorkInv'
  BY <1>0, <1>2 DEF BlobsInv, WorkInv, Rollback, tables
<1>5. DoubtInv'
  BY <1>2 DEF BlobsInv, DoubtInv, Rollback, tables, sweeping
<1>6. ServedInv'
  BY <1>0 DEF BlobsInv, ServedInv, Rollback, tables, files
<1>7. WalkInv'
  BY <1>0 DEF BlobsInv, WalkInv, Rollback, tables, files, sweeping
<1> QED BY <1>1, <1>3, <1>4, <1>5, <1>6, <1>7, Frames DEF BlobsInv, Rollback, tables, files, sweeping

LEMMA LinksAreTakenBack ==
  ASSUME BlobsInv, NEW w \in Writes, Unlink(w)
  PROVE  BlobsInv'
<1>0. turn = w /\ txn = None /\ wpc' = [wpc EXCEPT ![w] = "done"]
  BY DEF BlobsInv, Typed, TypeOK, TurnInv, Unlink
<1>1. Typed'
  BY DEF BlobsInv, Typed, TypeOK, Unlink, tables, files, sweeping
<1>2. \A v \in Writes : IF v = w THEN wpc'[v] = "done"
                        ELSE wpc'[v] = wpc[v] /\ wpc[v] # "deciding" /\ wpc[v] # "unlinking"
  BY <1>0 DEF BlobsInv, Typed, TurnInv
<1>3. TurnInv'
  BY <1>0, <1>2 DEF BlobsInv, TurnInv, Unlink
<1>4. WorkInv'
  BY <1>0, <1>2 DEF WorkInv, Unlink
<1>5. DoubtInv'
  BY <1>2 DEF BlobsInv, DoubtInv, Unlink, tables, sweeping
<1>6. \A x \in Cids : served'[x] = served[x] \/ (served'[x] = None /\ rows[x] # Claimed)
  BY DEF BlobsInv, WorkInv, Unlink, ToUnlink
<1>7. ServedInv'
  BY <1>0, <1>6 DEF BlobsInv, ServedInv, Unlink, tables
<1>8. WalkInv'
  BY <1>0, <1>6 DEF BlobsInv, WalkInv, Unlink, tables, sweeping
<1> QED BY <1>1, <1>3, <1>4, <1>5, <1>7, <1>8, Frames DEF BlobsInv, Unlink, tables, sweeping

LEMMA CommitLands ==
  ASSUME BlobsInv, NEW w \in Writes, Commit(w)
  PROVE  BlobsInv'
<1>0. /\ txn = w /\ turn = w /\ txn # None /\ work.ok /\ rows' = work.rows /\ recs' = work.recs /\ txn' = None
      /\ UNCHANGED <<now, uploads, served, gone, doubt, spc, cutoff, held, stale, faults, crashed>>
  BY NamesAssumption DEF BlobsInv, TurnInv, Commit, files, sweeping
<1>1. /\ rows' \in [Cids -> Row] /\ recs' \in [Rkeys -> SUBSET Cids]
      /\ work.orphaned \subseteq Cids /\ work.taken \subseteq Uploads
      /\ \A x \in Cids : /\ IsUpload(rows'[x]) => rows'[x] = rows[x]
                         /\ rows'[x] = Claimed <=> HeldIn(recs', x)
      /\ \A u \in work.taken : /\ Entered(u)
                               /\ \A x \in Cids : IsUpload(rows'[x]) => rows'[x].key # u
  BY <1>0 DEF BlobsInv, WorkInv
<1>2. Typed'
  <2>1. /\ wpc' \in [Writes -> {"idle", "deciding", "unlinking", "clearing", "done"}]
        /\ behind' \in [Writes -> [cids : SUBSET Cids, keys : SUBSET Uploads]]
        /\ turn' \in Writes \cup {None}
    <3>1. CASE w \in gone
      BY <3>1 DEF Commit, BlobsInv, Typed, TypeOK
    <3>2. CASE w \notin gone
      <4> DEFINE left == [cids |-> work.orphaned, keys |-> work.taken]
      <4>1. behind' = [behind EXCEPT ![w] = left] /\ UNCHANGED turn /\ wpc' = [wpc EXCEPT ![w] = "clearing"]
        BY <3>2 DEF Commit
      <4>2. left \in [cids : SUBSET Cids, keys : SUBSET Uploads]
        BY <1>1
      <4> HIDE DEF left
      <4> QED BY <4>1, <4>2 DEF BlobsInv, Typed, TypeOK
    <3> QED BY <3>1, <3>2
  <2> QED BY <1>0, <1>1, <2>1 DEF BlobsInv, Typed, TypeOK, Row
<1>3. \A v \in Writes : /\ v # w => wpc'[v] = wpc[v] /\ wpc[v] # "deciding" /\ wpc[v] # "unlinking"
                                      /\ (wpc[v] = "clearing" => v \in gone)
                        /\ v = w => /\ wpc[v] = "deciding"
                                    /\ wpc'[v] = IF w \in gone THEN "done" ELSE "clearing"
                        /\ \A u \in behind'[v].keys : u \in behind[v].keys \/ u \in work.taken
  BY <1>0, SMT DEF Commit, BlobsInv, Typed, TurnInv
<1>4. \A u \in Uploads : Entered(u)' <=> Entered(u)
  BY <1>0 DEF Entered
<1>5. \A x \in Cids : IsUpload(rows[x]) => rows[x].key \in Uploads /\ rows[x].at \in Times
  BY RowKinds DEF BlobsInv, Typed, TypeOK, Row
<1>6. \A u \in Uploads : Spent(u) => Spent(u)'
  BY <1>1, <1>4 DEF Spent
<1>7. \A u \in work.taken : Spent(u)'
  BY <1>1, <1>4 DEF Spent
<1>8. AgesInv'
  BY <1>0, <1>1, <1>4, <1>5, SMT DEF BlobsInv, AgesInv
<1>9. SpentInv'
  BY <1>0, <1>1, <1>3, <1>4, <1>6, <1>7, SMT DEF BlobsInv, Typed, SpentInv, StillThatUpload
<1>10. FilesInv'
  BY <1>0, <1>1 DEF BlobsInv, FilesInv
<1>11. TurnInv'
  BY <1>0, <1>3 DEF Commit, BlobsInv, TurnInv
<1>12. WorkInv'
  BY <1>0, <1>3 DEF WorkInv
<1>13. ClaimInv'
  BY <1>1 DEF ClaimInv
<1>14. DoubtInv'
  BY <1>0, <1>3 DEF BlobsInv, DoubtInv
<1>15. ServedInv'
  BY <1>0 DEF BlobsInv, ServedInv
<1>16. WalkInv'
  BY <1>0, <1>1 DEF BlobsInv, WalkInv
<1> QED BY <1>2, <1>8, <1>9, <1>10, <1>11, <1>12, <1>13, <1>14, <1>15, <1>16 DEF BlobsInv

\* What a write finds once its batch is indexed.
LEMMA Linking ==
  ASSUME BlobsInv, NEW w \in Writes, Link(w)
  PROVE  /\ work'.rows \in [Cids -> Row] /\ work'.recs \in [Rkeys -> SUBSET Cids]
         /\ work'.orphaned \subseteq Cids /\ work'.taken \subseteq Uploads
         /\ \A x \in Cids :
              /\ IsUpload(work'.rows[x]) => work'.rows[x] = rows[x]
              /\ work'.rows[x] # None => rows[x] # None
              /\ work'.ok => (work'.rows[x] = Claimed <=> HeldIn(work'.recs, x))
              /\ x \in work'.links => IsUpload(rows[x])
         /\ \A u \in work'.taken : /\ Entered(u)
                                   /\ \A x \in Cids : IsUpload(work'.rows[x]) => work'.rows[x].key # u
         /\ served' \in [Cids -> Times \cup {None}]
         /\ \A x \in Cids :
              \/ served'[x] = served[x] /\ (work'.rows[x] = Claimed => rows[x] = Claimed)
              \/ /\ IsUpload(rows[x])
                 /\ served'[x] = now \/ served'[x] = rows[x].at
<1>1. PICK batch \in Batches :
        /\ served' = Linked(Indexed(batch).links)
        /\ work' = [Indexed(batch) EXCEPT !.links = {l[1] : l \in {m \in @ : served[m[1]] = None}}]
  BY DEF Link
<1> DEFINE d == Indexed(batch)
<1>2. /\ rows \in [Cids -> Row] /\ recs \in [Rkeys -> SUBSET Cids] /\ served \in [Cids -> Times \cup {None}]
      /\ now \in Times /\ \A x \in Cids : rows[x] = Claimed <=> HeldIn(recs, x)
  BY DEF BlobsInv, Typed, TypeOK, Row, ClaimInv
<1>3. Landing(d)
  BY <1>2, IndexedLands
<1>4. served' = Linked(d.links) /\ work' = [d EXCEPT !.links = {l[1] : l \in {m \in @ : served[m[1]] = None}}]
  BY <1>1
<1> HIDE DEF d
<1>5. d \in Index
  BY <1>3 DEF Landing
<1> DEFINE own == {l[1] : l \in {m \in d.links : served[m[1]] = None}}
<1>6. work' = [d EXCEPT !.links = own]
  BY <1>4
<1>7. \A x \in own : IsUpload(rows[x])
  BY <1>3 DEF Landing
<1> HIDE DEF own
<1>8. /\ work'.rows = d.rows /\ work'.recs = d.recs /\ work'.orphaned = d.orphaned
      /\ work'.taken = d.taken /\ work'.ok = d.ok /\ work'.links = own
  BY <1>5, <1>6 DEF Index
<1>9. /\ work'.rows \in [Cids -> Row] /\ work'.recs \in [Rkeys -> SUBSET Cids]
      /\ work'.orphaned \subseteq Cids /\ work'.taken \subseteq Uploads
  BY <1>5, <1>8 DEF Index
<1>10. ASSUME NEW x \in Cids
       PROVE  /\ IsUpload(work'.rows[x]) => work'.rows[x] = rows[x]
              /\ work'.rows[x] # None => rows[x] # None
              /\ work'.ok => (work'.rows[x] = Claimed <=> HeldIn(work'.recs, x))
              /\ x \in work'.links => IsUpload(rows[x])
  BY <1>3, <1>7, <1>8 DEF Landing
<1>11. ASSUME NEW u \in work'.taken
       PROVE  Entered(u) /\ \A x \in Cids : IsUpload(work'.rows[x]) => work'.rows[x].key # u
  <2>1. PICK y \in Cids : <<y, u>> \in d.links
    BY <1>3, <1>8 DEF Landing
  <2>2. IsUpload(rows[y]) /\ rows[y].key = u /\ ~IsUpload(d.rows[y])
    BY <1>3, <2>1 DEF Landing
  <2>3. Entered(u) /\ CidOf[u] = y
    BY <2>2 DEF BlobsInv, AgesInv
  <2>4. ASSUME NEW x \in Cids, IsUpload(d.rows[x]), d.rows[x].key = u PROVE FALSE
    <3>1. IsUpload(rows[x]) /\ rows[x].key = u
      BY <1>3, <2>4 DEF Landing
    <3>2. CidOf[u] = x
      BY <3>1 DEF BlobsInv, AgesInv
    <3> QED BY <2>2, <2>3, <2>4, <3>2
  <2> QED BY <1>8, <2>3, <2>4
<1>12. ASSUME NEW x \in Cids
       PROVE  /\ served'[x] \in Times \cup {None}
              /\ \/ served'[x] = served[x] /\ (work'.rows[x] = Claimed => rows[x] = Claimed)
                 \/ /\ IsUpload(rows[x])
                    /\ served'[x] = now \/ served'[x] = rows[x].at
  <2>1. served'[x] = IF \A k \in Uploads : <<x, k>> \notin d.links THEN served[x]
                     ELSE IF served[x] # None THEN now
                     ELSE uploads[CHOOSE k \in Uploads : <<x, k>> \in d.links]
    BY <1>4 DEF Linked
  <2>2. CASE \A k \in Uploads : <<x, k>> \notin d.links
    <3>1. <<x, rows[x].key>> \notin d.links
      BY <1>5, <2>2 DEF Index
    <3> QED BY <1>2, <1>3, <1>8, <2>1, <2>2, <3>1 DEF Landing
  <2>3. CASE ~ \A k \in Uploads : <<x, k>> \notin d.links
    <3> DEFINE k == CHOOSE j \in Uploads : <<x, j>> \in d.links
    <3>1. k \in Uploads /\ <<x, k>> \in d.links
      BY <2>3
    <3>2. served'[x] = now \/ served'[x] = uploads[k]
      BY <2>1, <2>3
    <3> HIDE DEF k
    <3>3. IsUpload(rows[x]) /\ k = rows[x].key
      BY <1>3, <3>1 DEF Landing
    <3>4. uploads[k] = rows[x].at /\ rows[x].at \in Times
      BY <1>2, <3>3, RowKinds DEF BlobsInv, AgesInv
    <3> QED BY <1>2, <3>2, <3>3, <3>4
  <2> QED BY <2>2, <2>3
<1>13. served' \in [Cids -> Times \cup {None}]
  BY <1>4, <1>12 DEF Linked
<1> QED BY <1>9, <1>10, <1>11, <1>12, <1>13

LEMMA WriteLinks ==
  ASSUME BlobsInv, NEW w \in Writes, Link(w)
  PROVE  BlobsInv'
<1>0. /\ turn = None /\ txn = None /\ turn' = w /\ txn' = w /\ wpc' = [wpc EXCEPT ![w] = "deciding"] /\ wpc[w] = "idle"
      /\ UNCHANGED <<now, rows, recs, uploads, gone, behind, doubt, spc, cutoff, held, stale, faults, crashed>>
  BY DEF Link, tables, sweeping
<1>1. Typed'
  BY <1>0, Linking DEF BlobsInv, Typed, TypeOK
<1>2. \A v \in Writes : IF v = w THEN wpc'[v] = "deciding" ELSE wpc'[v] = wpc[v]
  BY <1>0 DEF BlobsInv, Typed
<1>3. \A v \in Writes : /\ wpc[v] # "deciding" /\ wpc[v] # "unlinking"
                        /\ wpc[v] = "clearing" => v \in gone
  BY <1>0, NamesAssumption DEF BlobsInv, TurnInv
<1>4. TurnInv'
  BY <1>0, <1>2, <1>3 DEF TurnInv
<1>5. WorkInv'
  BY <1>0, <1>2, <1>3, Linking, RowKinds DEF WorkInv, Entered
<1>6. DoubtInv'
  BY <1>0, <1>2 DEF BlobsInv, DoubtInv
<1>7. \A x \in Cids : IsUpload(rows[x]) => rows[x].at \in Times
  BY RowKinds DEF BlobsInv, Typed, TypeOK, Row
<1>8. \A x \in Cids : /\ rows[x] = Claimed => served'[x] = served[x]
                      /\ work'.rows[x] = Claimed /\ rows[x] # Claimed => served'[x] # None
  <2>1. None \notin Times /\ now \in Times
    BY NamesAssumption, BoundsAssumption, SMT DEF Times, BlobsInv, Typed, TypeOK
  <2>2. \A x \in Cids : rows[x] = Claimed => ~IsUpload(rows[x])
    BY RowKinds
  <2>3. ASSUME NEW x \in Cids
        PROVE  \/ served'[x] = served[x] /\ (work'.rows[x] = Claimed => rows[x] = Claimed)
               \/ IsUpload(rows[x]) /\ (served'[x] = now \/ served'[x] = rows[x].at)
    BY Linking
  <2>4. ASSUME NEW x \in Cids, IsUpload(rows[x]), served'[x] = now \/ served'[x] = rows[x].at
        PROVE  served'[x] # None
    BY <1>7, <2>1, <2>4
  <2> QED BY <2>2, <2>3, <2>4
<1>9. ServedInv'
  BY <1>0, <1>8 DEF BlobsInv, ServedInv
<1>10. WalkInv'
  <2>1. SUFFICES ASSUME NEW p \in Sweepers, spc[p] = "walking", NEW x \in Cids, x \notin held[p]
                 PROVE  /\ IsUpload(rows[x]) => cutoff[p] <= rows[x].at
                        /\ (rows[x] = Claimed \/ work'.rows[x] = Claimed) /\ served'[x] # None
                             => cutoff[p] <= served'[x]
    BY <1>0 DEF WalkInv
  <2>2. /\ IsUpload(rows[x]) => cutoff[p] <= rows[x].at
        /\ rows[x] = Claimed /\ served[x] # None => cutoff[p] <= served[x]
    BY <2>1 DEF BlobsInv, WalkInv
  <2>3. cutoff[p] <= now
    BY DEF BlobsInv, AgesInv
  <2>4. CASE served'[x] = served[x] /\ (work'.rows[x] = Claimed => rows[x] = Claimed)
    BY <2>2, <2>4
  <2>5. CASE IsUpload(rows[x]) /\ (served'[x] = now \/ served'[x] = rows[x].at)
    BY <2>2, <2>3, <2>5
  <2> QED BY <2>4, <2>5, Linking
<1> QED BY <1>0, <1>1, <1>4, <1>5, <1>6, <1>9, <1>10, Frames DEF BlobsInv

LEMMA WindowPasses ==
  ASSUME BlobsInv, Tick
  PROVE  BlobsInv'
<1>0. /\ now < MaxNow /\ now' = now + 1 /\ \A u \in Uploads : spc[u] # "placed"
      /\ UNCHANGED <<rows, recs, uploads, served, turn, txn, wpc, gone, work, behind, doubt, spc, cutoff, held, stale, faults, crashed>>
  BY DEF Tick, tables, files, writing, sweeping
<1>1. Typed'
  BY <1>0, BoundsAssumption, SMT DEF BlobsInv, Typed, TypeOK, Times
<1>2. \A x \in Cids : IsUpload(rows[x]) => rows[x].at \in Times
  BY RowKinds DEF BlobsInv, Typed, TypeOK, Row
<1>3. AgesInv'
  BY <1>0, <1>2, SMT DEF BlobsInv, Typed, TypeOK, AgesInv, Times, Entered
<1> QED BY <1>0, <1>1, <1>3, Frames DEF BlobsInv

LEMMA ProcessDies ==
  ASSUME BlobsInv, Crash
  PROVE  BlobsInv'
<1>1. Typed'
  BY BoundsAssumption, SMT DEF Crash, BlobsInv, Typed, TypeOK, Stages, Times, Nothing, tables, files
<1>2. /\ \A w \in Writes : wpc'[w] \in {"idle", "done"} /\ behind'[w].keys = {} /\ doubt'[w] = None
      /\ \A p \in Sweepers : spc'[p] \in {"idle", "done"} /\ (spc[p] = "idle" <=> spc'[p] = "idle")
                             /\ cutoff'[p] = 0 /\ stale'[p] = {}
      /\ txn' = None /\ crashed' = TRUE /\ UNCHANGED <<now, rows, recs, uploads, served, gone>>
  BY DEF Crash, Nothing, tables, files
<1>3. \A u \in Uploads : u \in Sweepers /\ (Entered(u) => Entered(u)')
  BY <1>2 DEF Entered, Sweepers
<1>4. \A x \in Cids : IsUpload(rows[x]) => rows[x].key \in Uploads
  BY RowKinds DEF BlobsInv, Typed, TypeOK, Row
<1>5. AgesInv'
  BY <1>2, <1>3, <1>4, SMT DEF BlobsInv, Typed, TypeOK, AgesInv, Times
<1>6. SpentInv' /\ FilesInv' /\ TurnInv' /\ WorkInv' /\ DoubtInv' /\ ServedInv' /\ WalkInv'
  BY <1>2 DEF SpentInv, FilesInv, TurnInv, WorkInv, DoubtInv, ServedInv, WalkInv
<1> QED BY <1>1, <1>2, <1>5, <1>6, Frames DEF BlobsInv

-----------------------------------------------------------------------------
(* The theorems. *)

LEMMA BlobsInit == Init => BlobsInv
<1> SUFFICES ASSUME Init PROVE BlobsInv
  OBVIOUS
<1>1. Typed
  <2>1. 0 \in Times /\ 0 \in 0..MaxFaults
    BY BoundsAssumption, SMT DEF Times
  <2>2. TypeOK
    BY <2>1 DEF Init, TypeOK, Nothing
  <2>3. behind \in [Writes -> [cids : SUBSET Cids, keys : SUBSET Uploads]]
    BY DEF Init, Nothing
  <2> QED BY <2>2, <2>3 DEF Init, Typed, Stages
<1>2. \A x \in Cids : ~IsUpload(rows[x]) /\ rows[x] # Claimed /\ ~HeldIn(recs, x)
  <2>1. \A x \in Cids : rows[x] = None
    BY DEF Init
  <2>2. \A x \in Cids : ~HeldIn(recs, x)
    BY DEF Init, HeldIn
  <2> QED BY <2>1, <2>2, RowKinds
<1>3. \A p \in Sweepers : spc[p] = "idle" /\ cutoff[p] = 0 /\ stale[p] = {}
  BY DEF Init
<1>4. \A w \in Writes : behind[w].keys = {} /\ wpc[w] = "idle" /\ doubt[w] = None
  BY DEF Init, Nothing
<1>5. /\ \A u \in Uploads : u \in Sweepers /\ uploads[u] = None
      /\ \A p \in Reconciler : p \in Sweepers
      /\ now = 0 /\ txn = None
  BY DEF Init, Sweepers
<1>6. AgesInv /\ SpentInv /\ FilesInv /\ ClaimInv
  <2>1. 0 <= 0
    BY SMT
  <2>2. AgesInv
    BY <1>2, <1>3, <1>5, <2>1 DEF AgesInv
  <2>3. SpentInv
    BY <1>3, <1>4 DEF SpentInv
  <2>4. FilesInv /\ ClaimInv
    BY <1>2 DEF FilesInv, ClaimInv
  <2> QED BY <2>2, <2>3, <2>4
<1>7. TurnInv /\ WorkInv /\ DoubtInv /\ ServedInv /\ WalkInv
  BY <1>2, <1>3, <1>4, <1>5 DEF TurnInv, WorkInv, DoubtInv, ServedInv, WalkInv
<1> QED BY <1>1, <1>6, <1>7 DEF BlobsInv

LEMMA BlobsStep == BlobsInv /\ [Next]_vars => BlobsInv'
<1> SUFFICES ASSUME BlobsInv, [Next]_vars PROVE BlobsInv'
  OBVIOUS
<1>1. CASE UNCHANGED vars
  <2>1. Typed'
    BY <1>1 DEF vars, BlobsInv, Typed, TypeOK
  <2> QED BY <1>1, <2>1, Frames DEF vars, BlobsInv
<1>2. ASSUME NEW w \in Writes,
             \/ Link(w) \/ Commit(w) \/ Rollback(w) \/ Unlink(w)
             \/ Delete(w) \/ Drop(w) \/ HangUp(w) \/ \E x \in Cids : Recheck(w, x)
      PROVE  BlobsInv'
  BY <1>2, WriteLinks, CommitLands, CommitRollsBack, LinksAreTakenBack, FileIsDeleted,
     UploadsAreDropped, CallerGoes, BlobIsRechecked
<1>3. ASSUME NEW u \in Uploads, Put(u) \/ AddBlob(u)
      PROVE  BlobsInv'
  BY <1>3, UploadIsPlaced, UploadIsEntered
<1>4. ASSUME NEW p \in Sweepers,
             \/ Reconcile(p) \/ ReadKeys(p) \/ SweepUploads(p) \/ ReadStale(p)
             \/ TakeStale(p) \/ DropStale(p) \/ StopSweep(p)
             \/ ReadCids(p) \/ Reclaim(p) \/ Walked(p) \/ \E x \in Cids : Look(p, x)
      PROVE  BlobsInv'
  BY <1>4, ReconcileStarts, KeysAreRead, UploadsAreSwept, StaleIsRead, StaleIsTaken, StaleIsDropped,
     SweepStops, CidsAreRead, FileIsReclaimed, FileIsLookedAt
<1> QED BY <1>1, <1>2, <1>3, <1>4, WindowPasses, ProcessDies DEF Next

LEMMA BlobsInvariance == Spec => []BlobsInv
BY BlobsInit, BlobsStep, PTL DEF Spec

\* Every claim is a record's, every record's blob is claimed, and until a
\* caller hangs up while its write clears or a reconcile walks it is served
\* (Actor::landing, Manager::cleared), whatever batches of one record or two,
\* uploads and sweeps cross.
THEOREM ClaimsHold == Spec => []ClaimsAreTheRecords
<1>1. ASSUME BlobsInv PROVE ClaimsAreTheRecords
  <2>1. TypeOK /\ \A x \in Cids : rows[x] = Claimed <=> HeldIn(recs, x)
    BY <1>1 DEF BlobsInv, Typed, ClaimInv
  <2>2. ASSUME gone = {}, ~crashed, NEW k \in Rkeys, NEW x \in recs[k]
        PROVE  rows[x] = Claimed /\ get(x) = "bytes"
    <3>1. x \in Cids /\ rows[x] = Claimed
      BY <2>1 DEF TypeOK, HeldIn
    <3>2. served[x] # None
      BY <1>1, <2>2, <3>1 DEF BlobsInv, ServedInv
    <3> QED BY <3>1, <3>2, RowKinds DEF get, Found, blob, has
  <2> QED BY <2>1, <2>2 DEF ClaimsAreTheRecords, RecordsAreServed
<1> QED BY <1>1, BlobsInvariance, PTL

\* An upload waiting for its record has its file: nothing that deletes an
\* upload's file, a sweep by its age, a sweep by its row or a commit that took
\* it, ever meets one that is still waited for (Manager::stranded,
\* Actor::sweep_unclaimed, Manager::cleared).
THEOREM UploadsWait == Spec => []UploadsAreThere
<1>1. ASSUME BlobsInv, NEW u \in Uploads
      PROVE  spc[u] = "placed" \/ rows[CidOf[u]] \in {[key |-> u, at |-> t] : t \in Times} => uploads[u] # None
  <2>1. now # None /\ \A t \in Times : t # None
    BY <1>1, NamesAssumption, BoundsAssumption, SMT DEF BlobsInv, Typed, TypeOK, Times
  <2>2. CASE spc[u] = "placed"
    BY <1>1, <2>1, <2>2 DEF BlobsInv, AgesInv
  <2>3. ASSUME NEW t \in Times, rows[CidOf[u]] = [key |-> u, at |-> t] PROVE uploads[u] # None
    <3>1. [key |-> u, at |-> t] \in Uploaded
      BY DEF Uploaded
    <3>2. IsUpload(rows[CidOf[u]]) /\ CidOf[u] \in Cids
      BY <2>3, <3>1, RowKinds, NamesAssumption
    <3>3. uploads[rows[CidOf[u]].key] = rows[CidOf[u]].at
      BY <1>1, <3>2 DEF BlobsInv, AgesInv
    <3> QED BY <2>1, <2>3, <3>3, SMT
  <2> QED BY <2>2, <2>3
<1>2. BlobsInv => UploadsAreThere
  BY <1>1 DEF UploadsAreThere
<1> QED BY <1>2, BlobsInvariance, PTL

\* No sweep takes the row of an upload still inside its window, however the row
\* has moved between the sweep's reading and its taking (Actor::sweep_unclaimed).
THEOREM FreshUploadsStay == Spec => FreshRowsStay
<1> DEFINE Step == \A x \in Cids : IsUpload(rows[x]) /\ rows'[x] = None /\ txn = None => rows[x].at < now
<1>1. ASSUME BlobsInv, [Next]_vars, NEW x \in Cids, IsUpload(rows[x]), rows'[x] = None, txn = None
      PROVE  rows[x].at < now
  <2>1. rows[x] # None
    BY <1>1 DEF IsUpload
  <2>2. rows' # rows
    BY <1>1, <2>1
  <2>3. ~ \E w \in Writes : Commit(w)
    BY <1>1, NamesAssumption DEF BlobsInv, TurnInv, Commit
  <2>4. ASSUME NEW u \in Uploads, AddBlob(u) PROVE FALSE
    <3>1. rows'[x] = rows[x] \/ rows'[x] = Stamped(u)
      BY <1>1, <2>4 DEF AddBlob, BlobsInv, Typed, TypeOK
    <3>2. Stamped(u) \in Uploaded
      BY <1>1 DEF Stamped, Uploaded, BlobsInv, Typed, TypeOK
    <3> QED BY <1>1, <2>1, <3>1, <3>2, RowKinds
  <2>5. \E p \in Sweepers : TakeStale(p)
    BY <1>1, <2>2, <2>3, <2>4 DEF Next, vars, Link, Rollback, Unlink, Delete, Drop, HangUp, Recheck, Put,
       Reconcile, ReadKeys, SweepUploads, ReadStale, DropStale, StopSweep, ReadCids, Look, Reclaim, Walked,
       Tick, Crash, tables
  <2>6. PICK p \in Sweepers : TakeStale(p)
    BY <2>5
  <2>7. PICK s \in stale[p] : StillThatUpload(s[1], s[2]) /\ s[1] = x
    BY <1>1, <2>1, <2>6, SMT DEF TakeStale
  <2>8. rows[x].at < cutoff[p] /\ cutoff[p] <= now
    BY <1>1, <2>6, <2>7 DEF BlobsInv, SpentInv, AgesInv, TakeStale
  <2>9. rows[x].at \in Int /\ cutoff[p] \in Int /\ now \in Int
    BY <1>1, RowKinds, BoundsAssumption, SMT DEF BlobsInv, Typed, TypeOK, Row, Times
  <2> QED BY <2>8, <2>9, SMT
<1>2. BlobsInv /\ [Next]_vars => [Step]_vars
  BY <1>1
<1> QED BY <1>2, BlobsInvariance, PTL DEF Spec, FreshRowsStay

\* A reconcile sets about no file that a record's blob is served from: what was
\* claimed since it read the rows is newer than its cutoff (Blobs::claim,
\* Manager::unheld_files).
THEOREM StraysAloneAreTaken == Spec => OnlyStrayFilesAreTaken
<1> DEFINE Step == \A p \in Reconciler : doubt[p] = None /\ doubt'[p] # None => ~HeldIn(recs, doubt'[p])
<1>1. ASSUME BlobsInv, [Next]_vars, NEW p \in Reconciler, doubt[p] = None, doubt'[p] # None
      PROVE  ~HeldIn(recs, doubt'[p])
  <2>0. p \in Sweepers /\ p \notin Writes /\ doubt' # doubt
    BY <1>1, NamesAssumption DEF Sweepers
  <2>1. ASSUME NEW w \in Writes, NEW x \in Cids, Recheck(w, x) \/ Delete(w) PROVE FALSE
    BY <1>1, <2>0, <2>1 DEF Recheck, Delete, BlobsInv, Typed, TypeOK
  <2>2. ASSUME NEW q \in Sweepers, Reclaim(q) PROVE FALSE
    BY <1>1, <2>0, <2>2 DEF Reclaim, BlobsInv, Typed, TypeOK
  <2>3. ASSUME Crash PROVE FALSE
    BY <1>1, <2>0, <2>3 DEF Crash
  <2>4. ASSUME NEW w \in Writes, Delete(w) PROVE FALSE
    BY <1>1, <2>0, <2>4 DEF Delete, BlobsInv, Typed, TypeOK
  <2>5. \E q \in Sweepers, x \in Cids : Look(q, x)
    BY <1>1, <2>0, <2>1, <2>2, <2>3, <2>4 DEF Next, vars, Link, Commit, Rollback, Unlink, Drop, HangUp, Put, AddBlob,
       Reconcile, ReadKeys, SweepUploads, ReadStale, TakeStale, DropStale, StopSweep, ReadCids, Walked, Tick
  <2>6. PICK q \in Sweepers, x \in Cids : Look(q, x)
    BY <2>5
  <2>7. q = p /\ doubt'[p] = x
    BY <1>1, <2>0, <2>6 DEF Look, BlobsInv, Typed, TypeOK
  <2>8. served[x] # None /\ served[x] < cutoff[p] /\ x \notin held[p] /\ spc[p] = "walking"
    BY <2>6, <2>7 DEF Look, Old
  <2>9. served[x] \in Int /\ cutoff[p] \in Int
    BY <1>1, <2>0, <2>8, BoundsAssumption, SMT DEF BlobsInv, Typed, TypeOK, Times
  <2>10. rows[x] # Claimed
    BY <1>1, <2>0, <2>8, <2>9, SMT DEF BlobsInv, WalkInv
  <2> QED BY <1>1, <2>7, <2>10 DEF BlobsInv, ClaimInv
<1>2. BlobsInv /\ [Next]_vars => [Step]_vars
  BY <1>1
<1> QED BY <1>2, BlobsInvariance, PTL DEF Spec, OnlyStrayFilesAreTaken

\* No unlink of a rolled-back revision, and no clearing inside its turn, takes
\* a file some record's blob is served from: only a write whose caller has gone
\* and a reconcile that looked before the claim do (Actor::commit,
\* Manager::cleared).
THEOREM ServedFilesStay == Spec => OnlyLeaversCross
<1> DEFINE Step == \A x \in Cids : HeldIn(recs, x) /\ served[x] # None /\ served'[x] = None
                     => \E w \in gone \cup Reconciler : doubt[w] = x
<1>1. ASSUME BlobsInv, [Next]_vars, NEW x \in Cids, HeldIn(recs, x), served[x] # None, served'[x] = None
      PROVE  \E w \in gone \cup Reconciler : doubt[w] = x
  <2>0. rows[x] = Claimed /\ served' # served
    BY <1>1 DEF BlobsInv, ClaimInv
  <2>1. ASSUME NEW w \in Writes, Link(w) PROVE FALSE
    BY <1>1, <2>0, <2>1, Linking, RowKinds
  <2>2. ASSUME NEW w \in Writes, Unlink(w) PROVE FALSE
    BY <1>1, <2>0, <2>2 DEF Unlink, ToUnlink, BlobsInv, WorkInv
  <2>3. ASSUME NEW w \in Writes, Delete(w) PROVE w \in gone /\ doubt[w] = x
    <3>1. doubt[w] = x
      BY <1>1, <2>3 DEF Delete, BlobsInv, Typed, TypeOK
    <3> QED BY <1>1, <2>0, <2>3, <3>1 DEF Delete, BlobsInv, DoubtInv
  <2>4. ASSUME NEW p \in Sweepers, Reclaim(p) PROVE p \in Reconciler /\ doubt[p] = x
    <3>1. doubt[p] = x
      BY <1>1, <2>4 DEF Reclaim, BlobsInv, Typed, TypeOK
    <3> QED BY <1>1, <2>4, <3>1 DEF Reclaim, BlobsInv, DoubtInv
  <2>5. (\E w \in Writes : Delete(w)) \/ (\E p \in Sweepers : Reclaim(p))
    BY <1>1, <2>0, <2>1, <2>2 DEF Next, vars, Commit, Rollback, Drop, HangUp, Recheck, Put, AddBlob,
       Reconcile, ReadKeys, SweepUploads, ReadStale, TakeStale, DropStale, StopSweep, ReadCids, Look, Walked,
       Tick, Crash, files
  <2> QED BY <2>3, <2>4, <2>5
<1>2. BlobsInv /\ [Next]_vars => [Step]_vars
  BY <1>1
<1> QED BY <1>2, BlobsInvariance, PTL DEF Spec, OnlyLeaversCross

=============================================================================
