------------------------------ MODULE Planning ------------------------------
(***************************************************************************)
(* What a request to write becomes: the four methods that write records    *)
(* (src/server/repo.rs), the plan worked out for them (plan and superseded *)
(* in src/account.rs), the links they leave in the index                   *)
(* (src/account/backlink.rs, Actor::index), and the revision of the tree   *)
(* the plan's writes are (SearchTree).                                     *)
(*                                                                         *)
(* The commit itself is one step here: whose turn it is and what a lost    *)
(* race costs are RepoWrites.                                              *)
(***************************************************************************)
EXTENDS SearchTree

CONSTANTS CollectionOf,  \* the collection of each key
          TypeOf,        \* the collection each record names in $type
          SubjectOf,     \* what each record points at, None where it will not parse
          HeldToOne,     \* the collections a record is held to one of
          Orders         \* the orders the index may answer in, each of all the keys

ASSUME PlanningAssumption ==
  /\ DOMAIN CollectionOf = Keys
  /\ DOMAIN TypeOf = Values /\ DOMAIN SubjectOf = Values
  /\ Orders \subseteq [1..Cardinality(Keys) -> Keys]

VARIABLES links,   \* the backlink table: what each key's record points at
          emptied  \* whether a batch emptied the tree and went on writing

planVars == <<vars, links, emptied>>

-----------------------------------------------------------------------------
(* What is asked for. *)

\* Expect: whatever is there, nothing at all, or this record.
Anything == "anything"
Nothing == "nothing"
Expects == {Anything, Nothing} \cup Values

Requested(op, key, value, expect, skip, supersede) ==
  [op |-> op, key |-> key, value |-> value, expect |-> expect, skip |-> skip, supersede |-> supersede]

\* Requested::from: a write that asks nothing of what it lands on.
Plainly(op, key, value) == Requested(op, key, value, Anything, FALSE, FALSE)

\* A record as record() lets it through: of the collection it is written to.
Fits(key, value) == TypeOf[value] = CollectionOf[key]
Placed == {p \in Keys \X Values : Fits(p[1], p[2])}

\* create_record, which supersedes unless it was asked not to validate.
CreateRecord ==
  {<<Requested("create", p[1], p[2], Anything, FALSE, validate)>> : p \in Placed, validate \in BOOLEAN}

\* put_record.
PutRecord ==
  {<<Requested("put", p[1], p[2], expect, FALSE, FALSE)>> : p \in Placed, expect \in Expects}

\* delete_record, whose explicit null is no check.
DeleteRecord ==
  {<<Requested("delete", key, None, expect, TRUE, FALSE)>> : key \in Keys, expect \in Expects \ {Nothing}}

\* apply_writes.
Asked ==
  {Plainly(op, p[1], p[2]) : op \in {"create", "update"}, p \in Placed}
    \cup {Plainly("delete", key, None) : key \in Keys}
ApplyWrites == UNION {[1..n -> Asked] : n \in 0..MaxBatch}

Requests == CreateRecord \cup PutRecord \cup DeleteRecord \cup ApplyWrites

-----------------------------------------------------------------------------
(* The plan. *)

\* backlink::of: only a record of one of the four points anywhere.
LinkOf(value) == IF value # None /\ TypeOf[value] \in HeldToOne THEN SubjectOf[value] ELSE None

\* Mutant: whatever collection the other record is in.
PointingAnywhere(key, subject) == {k \in Keys : record[k] # None /\ links[k] = subject}

\* Actor::pointing_at.
PointingAt(key, subject) ==
  {k \in Keys : CollectionOf[k] = CollectionOf[key] /\ record[k] # None /\ links[k] = subject}

\* superseded: the keys this write takes the place of.
Superseded(asked) ==
  IF asked.value = None \/ CollectionOf[asked.key] \notin HeldToOne \/ LinkOf(asked.value) = None THEN {}
  ELSE PointingAt(asked.key, LinkOf(asked.value))

\* The swap a caller asked of the record it replaces.
Meets(asked, prev) ==
  \/ asked.expect = Anything
  \/ asked.expect = Nothing /\ prev = None
  \/ asked.expect = prev

\* The operation the log has a write down as: what was there decides which a
\* put was.
Action(asked, prev) ==
  IF asked.op = "put" THEN IF prev = None THEN "create" ELSE "update" ELSE asked.op

Op(action, key, cid, prev) == [action |-> action, key |-> key, cid |-> cid, prev |-> prev]

NoPlan == [writes |-> <<>>, ops |-> <<>>, results |-> <<>>, refused |-> FALSE]

\* Superseded records go out before the write.
TakeThenWrite(taken, write) == taken \o <<write>>

\* Mutant: a superseded record is answered for like the write itself.
AnswersEach(asked, taken) == [i \in 1..Len(taken) |-> [key |-> taken[i], cid |-> None]]
                               \o <<[key |-> asked.key, cid |-> asked.value]>>

\* "The account is told about its own write and not these."
Answers(asked, taken) == <<[key |-> asked.key, cid |-> asked.value]>>

\* One write of plan, over what the ones before it left.  What each replaces is
\* read before any of them lands, and the index answers in no order of its own.
Planned(plan, asked, order) ==
  LET prev == record[asked.key]
      taken == IF asked.supersede THEN SelectSeq(order, LAMBDA k : k \in Superseded(asked)) ELSE <<>>
      outs == [i \in DOMAIN taken |-> [op |-> "delete", key |-> taken[i], value |-> None]]
      outOps == [i \in DOMAIN taken |-> Op("delete", taken[i], None, record[taken[i]])]
      write == [op |-> asked.op, key |-> asked.key, value |-> asked.value]
      op == Op(Action(asked, prev), asked.key, asked.value, prev)
  IN IF plan.refused \/ (prev = None /\ asked.skip) THEN plan
     ELSE IF ~Meets(asked, prev) THEN [plan EXCEPT !.refused = TRUE]
     ELSE [plan EXCEPT !.writes = @ \o TakeThenWrite(outs, write),
                       !.ops = @ \o TakeThenWrite(outOps, op),
                       !.results = @ \o Answers(asked, taken)]

\* The orders that matter to a request: one will do where nothing is superseded.
OrdersFor(requested) ==
  IF \E i \in DOMAIN requested : requested[i].supersede THEN Orders
  ELSE {CHOOSE order \in Orders : TRUE}

Plan(requested, order) == FoldLeft(LAMBDA plan, asked : Planned(plan, asked, order), NoPlan, requested)

\* Actor::index, on the backlinks: rewritten for every record the plan puts,
\* taken away with every one it takes out.
Relinked(was, op) == [was EXCEPT ![op.key] = LinkOf(op.cid)]

\* Whether these writes leave nothing and then something.
EmptiesOnTheWay(writes) ==
  \E n \in 1..(Len(writes) - 1) :
    \A k \in Keys : FoldLeft(LAMBDA held, w : [held EXCEPT ![w.key] = w.value],
                             record, SubSeq(writes, 1, n))[k] = None

\* One request, its plan and its commit.  swapCommit either names the root that
\* is there or refuses the request, after a plan with nothing in it has
\* answered.
Request(requested) ==
  \E order \in OrdersFor(requested) :
     LET plan == Plan(requested, order)
     IN /\ ~plan.refused /\ plan.writes # <<>>
        /\ Apply(plan.writes)
        /\ links' = FoldLeft(Relinked, links, plan.ops)
        /\ emptied' = (emptied \/ EmptiesOnTheWay(plan.writes))

PlanInit == Init /\ links = [k \in Keys |-> None] /\ emptied = FALSE

PlanNext ==
  \/ \E requested \in CreateRecord : Request(requested)
  \/ \E requested \in PutRecord : Request(requested)
  \/ \E requested \in DeleteRecord : Request(requested)
  \/ \E requested \in ApplyWrites : Request(requested)

PlanSpec == PlanInit /\ [][PlanNext]_planVars

-----------------------------------------------------------------------------
(* Properties. *)

\* The tree is the one its records determine, by whatever requests they came to
\* be, unless a batch emptied it on the way: "where a record sits is a function
\* of its name and nothing else" (src/repo/mst.rs 3-6).
TreeIsItsRecordsUnlessEmptied == emptied \/ TreeIsItsRecords

\* What is stored is the tree and the tree is the index: every block the root
\* reaches is stored and nothing else is, so that a repository can always be
\* read and written to again and does not grow with its history, and a lookup
\* by the tree finds what the record table has, along blocks that are all there
\* for a proof to carry (Repo::apply, Actor::landing, Mst::cids_for_path).
StoreIsTheTree == TypeOK /\ ReachedIsStored /\ StoredIsReached /\ LookupsAgree

\* The records a plan would leave, and whether its writes would be taken at all.
Left(plan) ==
  FoldLeft(LAMBDA s, w : IF s.refused \/ ~Takes(s.record[w.key], w) THEN [s EXCEPT !.refused = TRUE]
                         ELSE [s EXCEPT !.record[w.key] = w.value],
           [record |-> record, refused |-> plan.refused], plan.writes)

Pointing(held, key, subject) ==
  {k \in Keys : CollectionOf[k] = CollectionOf[key] /\ LinkOf(held[k]) = subject}

\* "createRecord takes the older record's place in the same commit": where it
\* lands in one of the four collections, the account is left with that record
\* and no other pointing there, and every record it took is one that did; with
\* validate: false, or by any other method, nothing but the keys named changes.
\* For that the links have to be the records': whatever batch put, replaced,
\* superseded or took them, each key is linked to what its record points at.
OneRecordPerSubject ==
  /\ links = [k \in Keys |-> LinkOf(record[k])]
  /\ \A requested \in Requests : \A order \in OrdersFor(requested) :
       LET plan == Plan(requested, order)
           left == Left(plan)
       IN ~left.refused /\ plan.writes # <<>> =>
         LET named == {requested[i].key : i \in DOMAIN requested}
             changed == {k \in Keys : record[k] # left.record[k]}
             asked == Head(requested)
             subject == LinkOf(asked.value)
         IN IF asked.supersede /\ subject # None
            THEN /\ Pointing(left.record, asked.key, subject) = {asked.key}
                 /\ changed \subseteq {asked.key} \cup Pointing(record, asked.key, subject)
            ELSE changed \subseteq named

\* A consumer that holds the records before and applies an entry's operations
\* in order.
Replayed(held, op) == [held EXCEPT ![op.key] = op.cid]

\* The log tells the whole of a commit: replaying an entry's operations on the
\* records before it gives the records after it, and the first operation on a
\* key names what was there (plan, account.rs 1750-1754; for a key written
\* twice the second names what the first replaced, as the todo there says).
\* So does the answer, in which "a write injected into the plan would misalign
\* every answer after it": one for each write asked for and no other, in their
\* order, and the last on a key names the record it is left with
\* (apply_writes and landed, server/repo.rs).
EntryAndAnswerAreTrue ==
  \A requested \in Requests : \A order \in OrdersFor(requested) :
    LET plan == Plan(requested, order)
        left == Left(plan)
    IN ~left.refused /\ plan.writes # <<>> =>
      LET ops == plan.ops
          results == plan.results
          FirstOnKey(i) == \A j \in 1..(i - 1) : ops[j].key # ops[i].key
          LastOnKey(i) == \A j \in (i + 1)..Len(results) : results[j].key # results[i].key
      IN /\ FoldLeft(Replayed, record, ops) = left.record
         /\ \A i \in DOMAIN ops :
              FirstOnKey(i) => /\ ops[i].prev = record[ops[i].key]
                               /\ ops[i].action = "create" <=> ops[i].prev = None
         /\ Len(results) = Len(requested)
         /\ \A i \in DOMAIN results :
              /\ results[i].key = requested[i].key
              /\ LastOnKey(i) => results[i].cid = left.record[results[i].key]

=============================================================================
