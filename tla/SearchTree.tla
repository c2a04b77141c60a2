----------------------------- MODULE SearchTree -----------------------------
(***************************************************************************)
(* The Merkle search tree an account's records are held in                 *)
(* (src/repo/mst.rs), and a revision of it: Repo::apply (src/repo.rs) and  *)
(* the part of Actor::landing that stores its blocks and forgets the ones  *)
(* it drops (src/store/actor.rs).                                          *)
(*                                                                         *)
(* A block is named by the hash of what it holds, so here its name is what *)
(* it holds: <<"record", value>> or <<"node", contents>>.  A node in       *)
(* memory has its layer beside its entries where that is known; a node as  *)
(* stored has not, and reading it back knows only what its keys give away. *)
(* Keys are numbers in the order of their names, and LayerOf stands for    *)
(* the leading zeros of their hashes.                                      *)
(***************************************************************************)
EXTENDS Integers, Sequences, SequencesExt, FiniteSets, FiniteSetsExt

CONSTANTS Keys,      \* record keys, as 1 to some n in order
          Values,    \* records, by their bytes
          Layerings, \* the layers the keys' hashes may give them
          MaxBatch   \* bound: writes under one commit

ASSUME KeysAssumption == Keys = 1..Cardinality(Keys)
ASSUME LayersAssumption == \A f \in Layerings : f \in [Keys -> Nat]
ASSUME BatchAssumption == MaxBatch \in Nat \ {0}

VARIABLES layerOf,   \* the layer each key's hash gives it
          data,      \* the root of the tree, as stored
          stored,    \* the blocks in repo_block
          record     \* the record table: the record at each key

vars == <<layerOf, data, stored, record>>

None == "none"
Unknown == -1

LeafAt(k, v) == [kind |-> "leaf", key |-> k, value |-> v]
TreeOf(n) == [kind |-> "tree", node |-> n]
IsLeaf(e) == e.kind = "leaf"
IsTree(e) == e.kind = "tree"
Node(entries, layer) == [entries |-> entries, layer |-> layer]

\* An error no tree built here should meet.
Malformed == Node(<<[kind |-> "malformed"]>>, Unknown)

-----------------------------------------------------------------------------
(* Nodes as stored, and back. *)

RECURSIVE Contents(_)
Contents(n) ==
  [i \in DOMAIN n.entries |->
     LET e == n.entries[i]
     IN IF IsTree(e) THEN <<"tree", Contents(e.node)>>
        ELSE IF IsLeaf(e) THEN <<"leaf", e.key, e.value>> ELSE <<"malformed">>]

RECURSIVE Loaded(_, _)
Loaded(contents, layer) ==
  LET leaves == SelectSeq(contents, LAMBDA e : e[1] = "leaf")
      own == IF leaves = <<>> THEN Unknown ELSE layerOf[Head(leaves)[2]]
      under == IF own > 0 THEN own - 1 ELSE Unknown
  IN Node(<<>> \o [i \in DOMAIN contents |->
             LET e == contents[i]
             IN IF e[1] = "tree" THEN TreeOf(Loaded(e[2], under)) ELSE LeafAt(e[2], e[3])],
          layer)

Load(contents) == Loaded(contents, Unknown)

\* The names of the blocks a stored tree is made of.
RECURSIVE Blocks(_)
Blocks(contents) ==
  {<<"node", contents>>}
    \cup {<<"record", contents[i][3]>> : i \in {j \in DOMAIN contents : contents[j][1] = "leaf"}}
    \cup UNION {Blocks(contents[i][2]) : i \in {j \in DOMAIN contents : contents[j][1] = "tree"}}

-----------------------------------------------------------------------------
(* Reading. *)

\* Mst::find_layer, which notes what it finds in the nodes it goes through.
RECURSIVE FindLayer(_)
FindLayer(n) ==
  LET leaves == SelectSeq(n.entries, IsLeaf)
  IN IF n.layer # Unknown \/ n.entries = <<>> THEN n
     ELSE IF leaves # <<>> THEN Node(n.entries, layerOf[Head(leaves).key])
     ELSE LET under == FindLayer(Head(n.entries).node)
          IN Node(<<TreeOf(under)>> \o Tail(n.entries),
                  IF under.layer = Unknown THEN Unknown ELSE under.layer + 1)

\* Mst::layer: the node with its layer settled.
Settled(n) == LET found == FindLayer(n)
              IN IF found.layer = Unknown THEN Node(found.entries, 0) ELSE found

\* Mst::index_of: where the first key at or above this one is.
IndexOf(n, key) ==
  LET above == {i \in DOMAIN n.entries : IsLeaf(n.entries[i]) /\ n.entries[i].key >= key}
  IN IF above = {} THEN Len(n.entries) + 1 ELSE CHOOSE i \in above : \A j \in above : i <= j

Found(n, key, i) == i <= Len(n.entries) /\ IsLeaf(n.entries[i]) /\ n.entries[i].key = key
TreeAt(entries, i) == i \in DOMAIN entries /\ IsTree(entries[i])

RECURSIVE Get(_, _)
Get(n, key) ==
  LET i == IndexOf(n, key)
  IN IF Found(n, key, i) THEN n.entries[i].value
     ELSE IF TreeAt(n.entries, i - 1) THEN Get(n.entries[i - 1].node, key) ELSE None

\* Mst::cids_for_path.
RECURSIVE CidsForPath(_, _)
CidsForPath(n, key) ==
  LET i == IndexOf(n, key)
  IN <<<<"node", Contents(n)>>>>
       \o IF Found(n, key, i) THEN <<<<"record", n.entries[i].value>>>>
          ELSE IF TreeAt(n.entries, i - 1) THEN CidsForPath(n.entries[i - 1].node, key) ELSE <<>>

-----------------------------------------------------------------------------
(* Changing. *)

\* What split_around leaves of a side: no node where there is nothing in it.
Side(entries, layer) == IF entries = <<>> THEN <<>> ELSE <<TreeOf(Node(entries, layer))>>

\* Mst::split_around: the two sides, each as none or one entry.
RECURSIVE SplitAround(_, _)
SplitAround(n, key) ==
  LET i == IndexOf(n, key)
      left == SubSeq(n.entries, 1, i - 1)
      right == SubSeq(n.entries, i, Len(n.entries))
      cut == SplitAround(Last(left).node, key)
  IN IF left # <<>> /\ IsTree(Last(left))
     THEN <<Side(Front(left) \o cut[1], n.layer), Side(cut[2] \o right, n.layer)>>
     ELSE <<Side(left, n.layer), Side(right, n.layer)>>

\* Mst::into_parent, so many times over.
RECURSIVE Raised(_, _)
Raised(side, times) ==
  IF side = <<>> \/ times <= 0 THEN side
  ELSE IF side[1].node.layer = Unknown THEN <<TreeOf(Malformed)>>
  ELSE Raised(<<TreeOf(Node(side, side[1].node.layer + 1))>>, times - 1)

\* Mst::insert, of a key that is not there.
RECURSIVE Insert(_, _, _)
Insert(node, key, value) ==
  LET n == Settled(node)
      zeros == layerOf[key]
      i == IndexOf(n, key)
      leaf == <<LeafAt(key, value)>>
      within == TreeAt(n.entries, i - 1)
      before == SubSeq(n.entries, 1, IF within THEN i - 2 ELSE i - 1)
      after == SubSeq(n.entries, i, Len(n.entries))
      beside == IF within THEN n.entries[i - 1].node ELSE Node(<<>>, n.layer - 1)
      halves == SplitAround(n, key)
      cut == SplitAround(beside, key)
  IN IF zeros > n.layer
     THEN Node(Raised(halves[1], zeros - n.layer - 1) \o leaf
                 \o Raised(halves[2], zeros - n.layer - 1), zeros)
     ELSE IF zeros < n.layer
     THEN Node(before \o <<TreeOf(Insert(beside, key, value))>> \o after, n.layer)
     ELSE IF within
     THEN Node(before \o cut[1] \o leaf \o cut[2] \o after, n.layer)
     ELSE Node(before \o leaf \o after, n.layer)

RECURSIVE Update(_, _, _)
Update(n, key, value) ==
  LET i == IndexOf(n, key)
  IN IF Found(n, key, i)
     THEN Node([n.entries EXCEPT ![i].value = value], n.layer)
     ELSE Node([n.entries EXCEPT ![i - 1].node = Update(@, key, value)], n.layer)

RECURSIVE AppendMerge(_, _)
AppendMerge(a, b) ==
  LET left == Settled(a)
      right == Settled(b)
  IN IF left.layer # right.layer THEN Malformed
     ELSE IF /\ left.entries # <<>> /\ IsTree(Last(left.entries))
             /\ right.entries # <<>> /\ IsTree(Head(right.entries))
     THEN Node(Front(left.entries)
                 \o <<TreeOf(AppendMerge(Last(left.entries).node, Head(right.entries).node))>>
                 \o Tail(right.entries), left.layer)
     ELSE Node(left.entries \o right.entries, left.layer)

RECURSIVE DeleteRecurse(_, _)
DeleteRecurse(n, key) ==
  LET i == IndexOf(n, key)
      between == TreeAt(n.entries, i - 1) /\ TreeAt(n.entries, i + 1)
      shrunk == DeleteRecurse(n.entries[i - 1].node, key)
  IN IF Found(n, key, i)
     THEN IF between
          THEN Node(SubSeq(n.entries, 1, i - 2)
                      \o <<TreeOf(AppendMerge(n.entries[i - 1].node, n.entries[i + 1].node))>>
                      \o SubSeq(n.entries, i + 2, Len(n.entries)), n.layer)
          ELSE Node(RemoveAt(n.entries, i), n.layer)
     ELSE IF shrunk.entries = <<>>
          THEN Node(RemoveAt(n.entries, i - 1), n.layer)
          ELSE Node([n.entries EXCEPT ![i - 1] = TreeOf(shrunk)], n.layer)

\* Mutant: the top is left as the removal leaves it.
Untrimmed(n) == n

RECURSIVE TrimTop(_)
TrimTop(n) ==
  IF Len(n.entries) = 1 /\ IsTree(n.entries[1]) THEN TrimTop(n.entries[1].node) ELSE n

Delete(n, key) == TrimTop(DeleteRecurse(n, key))

-----------------------------------------------------------------------------
(* What a revision adds, and what it stops reaching. *)

Cid(n) == <<"node", Contents(n)>>

\* Mst::unstored_blocks, which stops at a node the store already has.
RECURSIVE UnstoredBlocks(_)
UnstoredBlocks(n) ==
  IF Cid(n) \in stored THEN {}
  ELSE {Cid(n)} \cup UNION {UnstoredBlocks(n.entries[i].node)
                             : i \in {j \in DOMAIN n.entries : IsTree(n.entries[j])}}

\* Diff: a block on both sides is taken off each.
DiffAdd(diff, cid) ==
  IF cid \in diff.removed THEN [diff EXCEPT !.removed = @ \ {cid}]
  ELSE [diff EXCEPT !.added = @ \cup {cid}]

DiffRemove(diff, cid) ==
  IF cid \in diff.added THEN [diff EXCEPT !.added = @ \ {cid}]
  ELSE [diff EXCEPT !.removed = @ \cup {cid}]

\* Walker::new.  The cursor is on the root while nothing is stacked.
Walker(root) == [root |-> root, stack |-> <<>>, done |-> FALSE,
                 above |-> Settled(root).layer + 1]

AtRoot(w) == w.stack = <<>>
EntryAt(w) == LET level == Last(w.stack) IN level.entries[level.index]
OnTree(w) == AtRoot(w) \/ IsTree(EntryAt(w))
OnLeaf(w) == ~OnTree(w)
LayerAt(w) == IF AtRoot(w) THEN w.above ELSE Last(w.stack).layer
NodeAt(w) == IF AtRoot(w) THEN w.root ELSE EntryAt(w).node
CidAt(w) == IF OnTree(w) THEN Cid(NodeAt(w)) ELSE <<"record", EntryAt(w).value>>

RECURSIVE Popped(_)
Popped(stack) ==
  LET level == Last(stack)
  IN IF stack = <<>> THEN <<>>
     ELSE IF level.index < Len(level.entries)
     THEN Append(Front(stack), [level EXCEPT !.index = @ + 1])
     ELSE Popped(Front(stack))

StepOver(w) == LET stack == Popped(w.stack)
               IN [w EXCEPT !.stack = stack, !.done = stack = <<>>]

StepInto(w) ==
  LET n == Settled(NodeAt(w))
      inside == [w EXCEPT !.stack = Append(@, [entries |-> n.entries, index |-> 1, layer |-> n.layer])]
  IN IF n.entries = <<>> THEN StepOver(inside) ELSE inside

Advance(w) == IF OnLeaf(w) THEN StepOver(w) ELSE StepInto(w)

\* The loop of Mst::dropped, from where the two walkers are.
RECURSIVE Walk(_, _, _)
Walk(left, right, diff) ==
  LET before == CidAt(left)
      after == CidAt(right)
      taken == DiffRemove(diff, before)
      given == DiffAdd(diff, after)
      both == DiffAdd(taken, after)
  IN CASE left.done /\ right.done -> diff
       [] ~left.done /\ right.done -> Walk(Advance(left), right, taken)
       [] left.done /\ ~right.done -> Walk(left, Advance(right), given)
       [] ~left.done /\ ~right.done /\ OnLeaf(left) /\ OnLeaf(right) ->
            LET l == EntryAt(left).key
                r == EntryAt(right).key
            IN IF l = r
               THEN Walk(Advance(left), Advance(right), IF before = after THEN diff ELSE both)
               ELSE IF l < r THEN Walk(Advance(left), right, taken)
               ELSE Walk(left, Advance(right), given)
       [] OTHER ->
            IF LayerAt(left) > LayerAt(right)
            THEN IF OnLeaf(left) THEN Walk(left, Advance(right), given)
                 ELSE Walk(StepInto(left), right, taken)
            ELSE IF LayerAt(left) < LayerAt(right)
            THEN IF OnLeaf(right) THEN Walk(Advance(left), right, taken)
                 ELSE Walk(left, StepInto(right), given)
            ELSE IF OnTree(left) /\ OnTree(right)
            THEN IF before = after THEN Walk(StepOver(left), StepOver(right), diff)
                 ELSE Walk(StepInto(left), StepInto(right), both)
            ELSE IF OnTree(left) THEN Walk(StepInto(left), right, taken)
            ELSE Walk(left, StepInto(right), given)

Dropped(next, prev) ==
  Walk(Walker(prev), Walker(next), [added |-> {}, removed |-> {}]).removed

-----------------------------------------------------------------------------
(* A revision. *)

\* Whether the tree takes this write, or is the error that refuses the batch.
Takes(held, write) ==
  CASE write.op = "create" -> held = None
    [] write.op = "put" -> TRUE
    [] OTHER -> held # None

\* One write of Repo::apply, over the tree and the records written so far.
Written(s, write) ==
  LET held == Get(s.tree, write.key)
      tree == CASE write.op = "delete" -> Delete(s.tree, write.key)
                [] write.op = "update" \/ (write.op = "put" /\ held # None) ->
                     Update(s.tree, write.key, write.value)
                [] OTHER -> Insert(s.tree, write.key, write.value)
  IN IF s.refused \/ ~Takes(held, write) THEN [s EXCEPT !.refused = TRUE]
     ELSE [s EXCEPT !.tree = tree, !.leaves[write.key] = write.value,
                    !.record[write.key] = write.value]

Outcome(batch) ==
  FoldLeft(Written, [tree |-> Load(data), leaves |-> [k \in Keys |-> None],
                     record |-> record, refused |-> FALSE], batch)

\* Mutant: what a revision stops reaching goes, whoever else points at it.
ForgetAll(dropped, kept) == dropped

\* What landing's delete takes: a dropped block no row of the index points at.
Forgets(dropped, kept) ==
  {cid \in dropped : ~\E k \in Keys : kept[k] # None /\ cid = <<"record", kept[k]>>}

Apply(batch) ==
  LET s == Outcome(batch)
      written == {<<"record", s.leaves[k]>> : k \in {j \in Keys : s.leaves[j] # None}}
                   \cup UnstoredBlocks(s.tree)
  IN /\ ~s.refused
     /\ data' = Contents(s.tree)
     /\ record' = s.record
     /\ stored' = (stored \cup written) \ Forgets(Dropped(s.tree, Load(data)), s.record)
     /\ UNCHANGED layerOf

\* Repo::create: the empty tree, stored.
Init ==
  /\ layerOf \in Layerings
  /\ data = <<>>
  /\ stored = {<<"node", <<>>>>}
  /\ record = [k \in Keys |-> None]

\* Actor::blocks: what the store has nothing under.
Missing(cids) == cids \ stored

\* Repo::proof: the blocks on the way to a key, from the tree as it is stored.
Proof(key) == CidsForPath(Load(data), key)

\* Manager::proof, which refuses to answer with some of them.
ProofAnswer(key) ==
  LET cids == Range(Proof(key)) IN IF Missing(cids) = {} THEN cids ELSE {}

\* Actor::record, for getRecord: the row of the index joined to its block.
RecordAt(key) == IF Missing({<<"record", record[key]>>}) = {} THEN record[key] ELSE None

-----------------------------------------------------------------------------
(* What the tree should be, from its records alone. *)

Held == {k \in Keys : record[k] # None}

RECURSIVE Built(_, _)
Built(keys, layer) ==
  LET here == SetToSortSeq({k \in keys : layerOf[k] = layer}, <)
      gap(i) == {k \in keys : /\ layerOf[k] < layer
                              /\ i = 0 \/ k > here[i]
                              /\ i = Len(here) \/ k < here[i + 1]}
      under(i) == IF gap(i) = {} THEN <<>> ELSE <<<<"tree", Built(gap(i), layer - 1)>>>>
  IN under(0)
       \o FlattenSeq([i \in 1..Len(here) |-> <<<<"leaf", here[i], record[here[i]]>>>> \o under(i)])

Height == IF Held = {} THEN 0 ELSE Max({layerOf[k] : k \in Held})
Canonical == Built(Held, Height)

\* The tree is the one its records determine, whatever writes led to them: the
\* depth of a key is a function of its name, and no insertion, cut, merge or
\* trim leaves a trace of its order (src/repo/mst.rs).
TreeIsItsRecords == data = Canonical

\* Every block the root reaches is stored, so that the repository can be read,
\* exported and written to again: a revision stores what it adds before it
\* forgets, and never forgets what a subtree it did not walk still holds.
ReachedIsStored == Blocks(data) \subseteq stored

\* Nothing is stored that the root does not reach: Mst::dropped names every
\* block the revision lets go of, so a repository does not grow with its
\* history.
StoredIsReached == stored \subseteq Blocks(data)

\* A lookup walks to the record the index has under that key, and to none where
\* it has none; the blocks it names on the way (Mst::cids_for_path) are what a
\* proof of either carries, and it carries them all.  getRecord, which reads the
\* index and not the tree, answers the same.
LookupsAgree ==
  \A k \in Keys :
    LET path == Proof(k)
    IN /\ Get(Load(data), k) = record[k]
       /\ RecordAt(k) = record[k]
       /\ ProofAnswer(k) = Range(path)
       /\ (record[k] # None) <=> (Last(path) = <<"record", record[k]>>)

\* A node as serialize will write it and deserialize read it: records of this
\* repository, and subtrees with something in them, never two side by side.
RECURSIVE WellFormed(_)
WellFormed(contents) ==
  \A i \in DOMAIN contents :
    LET e == contents[i]
    IN \/ e[1] = "leaf" /\ e[2] \in Keys /\ e[3] \in Values
       \/ /\ e[1] = "tree" /\ e[2] # <<>> /\ WellFormed(e[2])
          /\ i = Len(contents) \/ contents[i + 1][1] = "leaf"

TypeOK ==
  /\ layerOf \in Layerings
  /\ WellFormed(data)
  /\ record \in [Keys -> Values \cup {None}]

=============================================================================
