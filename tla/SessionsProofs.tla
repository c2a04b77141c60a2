--------------------------- MODULE SessionsProofs ---------------------------
(***************************************************************************)
(* Exchanging refresh tokens, for any number of servers, calls, ids, app   *)
(* passwords and sign-outs, and any grace period shorter than a session:   *)
(* the inductive invariant, and that no step disturbs it.  The steps that  *)
(* write no session come first, then a sign-in, then an exchange, with the *)
(* successor's row there or with a new one, whatever other servers did     *)
(* since the row was read.  After them, what the tokens of Access open,    *)
(* and for how long.                                                       *)
(***************************************************************************)
EXTENDS Access, TLAPS

\* Leaves are left to Zenon; the ones with arithmetic in them say SMT.
USE Zenon

\* A call that has read a row and not yet written it.
Reading(c) == pc[c] \in {"expire", "rotate"}

\* What a call carries.  A row read with a successor was cut to the grace
\* period by whoever wrote the successor, before the time the call read.
CallOK(c) ==
  /\ pc[c] = "open" => read[c] \in Apps \cup {None}
  /\ pc[c] \in {"read", "expire", "rotate"} => asked[c] \in used
  /\ Reading(c) => read[c] \in Rows
  /\ Reading(c) /\ read[c].next # None =>
       read[c].next \in used /\ read[c].exp <= (IF pc[c] = "rotate" THEN at[c] ELSE now) + Grace

RowOK(i) ==
  rows[i] # None =>
    /\ i \in used
    /\ rows[i].next # None => rows[i].next \in used /\ rows[i].exp <= now + Grace

Typed ==
  /\ TypeOK
  /\ pc \in [Calls -> {"idle", "open", "read", "expire", "rotate", "done"}]
  /\ read \in [Calls -> Rows \cup Apps \cup {None}]
  /\ answers \subseteq [of : used, next : used]
  /\ back \subseteq used
  /\ \A c \in Calls : at[c] <= now /\ CallOK(c)
  /\ \A i \in Ids : RowOK(i)

\* A row that never came back is the one the call read, but for one exchange:
\* until then it is as it was read, and after it shorter.
Kept(c) ==
  Reading(c) /\ asked[c] \notin back /\ rows[asked[c]] # None =>
    /\ rows[asked[c]].app = read[c].app
    /\ rows[asked[c]].exp <= read[c].exp
    /\ read[c].next # None => rows[asked[c]].next = read[c].next
    /\ rows[asked[c]].next = read[c].next => rows[asked[c]].exp = read[c].exp

\* What a call writes outlasts the row before the one it exchanges.
Before(c) ==
  pc[c] = "rotate" =>
    \A i \in Ids \ back : rows[i] # None /\ rows[i].next = asked[c] => rows[i].exp <= at[c] + Grace

\* A row that never came back names the successor it was exchanged for.
Answered == \A a \in answers : a.of \notin back /\ rows[a.of] # None => rows[a.of].next = a.next

OneAnswer == \A a, b \in answers : a.of = b.of /\ a.of \notin back => a.next = b.next

\* A successor goes no sooner than the row that names it, of old age or with
\* its app password.
Chain ==
  back = {} =>
    \A i \in Ids : rows[i] # None /\ rows[i].next \notin ended \cup {None} =>
      LET next == rows[rows[i].next]
      IN next # None /\ rows[i].exp <= next.exp /\ rows[i].app = next.app

SessionsInv ==
  /\ Typed
  /\ \A c \in Calls : Kept(c) /\ Before(c)
  /\ Answered
  /\ OneAnswer
  /\ Chain
  /\ back # {} => back \cap ended # {}

-----------------------------------------------------------------------------
(* The constants. *)

LEMMA Numbers ==
  /\ Grace \in Nat \ {0} /\ Lifetime \in Nat /\ Grace < Lifetime
  /\ MaxIds \in Nat /\ MaxIds >= 2 /\ MaxNow \in Nat
  /\ Ids \subseteq Nat /\ 1 \in Ids /\ 2 \in Ids
  /\ None \notin Ids /\ None \notin Rows /\ None \notin Apps
BY TimesAssumption, CallsAssumption, NoneAssumption, SMT DEF Ids

LEMMA ClockIsNat ==
  ASSUME NEW t \in 0..MaxNow
  PROVE  t \in Nat /\ t \in Int /\ t + Lifetime \in 0..(MaxNow + Lifetime)
BY Numbers, SMT

LEMMA WithinIsNat ==
  ASSUME NEW t \in Nat, NEW u \in 0..t
  PROVE  u \in Nat
BY SMT

LEMMA RowExp ==
  ASSUME NEW row \in Rows
  PROVE  row.exp \in Nat /\ row.exp \in Int
BY Numbers, SMT DEF Rows

LEMMA NoLonger ==
  ASSUME NEW n \in Nat
  PROVE  n <= n
BY SMT

LEMMA SessionIsARow ==
  ASSUME NEW exp \in 0..(MaxNow + Lifetime), NEW app \in Apps \cup {None}
  PROVE  /\ Session(exp, app) \in Rows /\ Session(exp, app) # None
         /\ Session(exp, app).exp = exp /\ Session(exp, app).next = None /\ Session(exp, app).app = app
BY Numbers, SMT DEF Session, Rows

LEMMA UntilFacts ==
  ASSUME NEW exp \in Nat, NEW when \in Nat
  PROVE  /\ Until(exp, when) \in Nat /\ Until(exp, when) <= exp /\ Until(exp, when) <= when + Grace
         /\ exp <= when + Grace => Until(exp, when) = exp
         /\ Until(exp, when) \in {exp, when + Grace}
BY Numbers, SMT DEF Until

LEMMA SessionsInit == Init => SessionsInv
<1> SUFFICES ASSUME Init PROVE SessionsInv
  OBVIOUS
<1>1. PICK app \in Apps \cup {None} :
        rows = [[i \in Ids |-> None] EXCEPT ![1] = [Session(Grace - 1, app) EXCEPT !.next = 2],
                                            ![2] = Session(Lifetime - 1, app)]
  BY DEF Init
<1> DEFINE one == [exp |-> Grace - 1, next |-> 2, app |-> app]
           two == [exp |-> Lifetime - 1, next |-> None, app |-> app]
<1>2. rows = [i \in Ids |-> IF i = 1 THEN one ELSE IF i = 2 THEN two ELSE None]
  BY <1>1, Numbers, SMT DEF Session
<1>3. one \in Rows /\ two \in Rows
  BY Numbers, SMT DEF Rows
<1>4. rows[1] = one /\ rows[2] = two /\ \A i \in Ids \ {1, 2} : rows[i] = None
  BY <1>2, Numbers, SMT
<1>5. TypeOK
  <2>1. rows \in [Ids -> Rows \cup {None}]
    BY <1>2, <1>3
  <2> QED
    BY <2>1, Numbers, SMT DEF Init, TypeOK
<1>6. \A i \in Ids : RowOK(i)
  BY <1>4, Numbers, SMT DEF Init, RowOK
<1>7. \A c \in Calls : at[c] <= now /\ CallOK(c) /\ Kept(c) /\ Before(c)
  BY SMT DEF Init, CallOK, Reading, Kept, Before
<1>8. Chain
  <2>1. /\ rows[1].next = 2 /\ rows[1].exp = Grace - 1 /\ rows[1].app = app
        /\ rows[2].next = None /\ rows[2].exp = Lifetime - 1 /\ rows[2].app = app /\ rows[2] # None
    BY <1>3, <1>4, Numbers, SMT
  <2>2. ASSUME NEW i \in Ids, rows[i] # None, rows[i].next \notin ended \cup {None} PROVE i = 1
    BY <1>4, <2>1, <2>2
  <2>3. rows[1].exp <= rows[2].exp
    BY <2>1, Numbers, SMT
  <2> QED
    BY <2>1, <2>2, <2>3 DEF Chain
<1>9. Answered /\ OneAnswer /\ answers \subseteq [of : used, next : used]
  BY <1>4, Numbers, SMT DEF Init, Answered, OneAnswer
<1> QED
  BY <1>5, <1>6, <1>7, <1>8, <1>9 DEF Init, SessionsInv, Typed

-----------------------------------------------------------------------------
(* Steps that write no session: rows only go, and one call may move. *)

\* What the calls are made of.
CallTypes ==
  /\ lock \in [Servers -> Refreshes \cup {None}]
  /\ pc \in [Calls -> {"idle", "open", "read", "expire", "rotate", "done"}]
  /\ asked \in [Calls -> Ids \cup {None}]
  /\ read \in [Calls -> Rows \cup Apps \cup {None}]
  /\ at \in [Calls -> 0..MaxNow]

Still(c) == pc'[c] = pc[c] /\ asked'[c] = asked[c] /\ read'[c] = read[c] /\ at'[c] = at[c]

LEMMA RowsGo ==
  ASSUME SessionsInv,
         UNCHANGED <<now, used, handed, answers, back>>,
         apps' \subseteq Apps, ended \subseteq ended', ended' \subseteq Ids,
         rows' \in [Ids -> Rows \cup {None}],
         \A i \in Ids : rows'[i] # None => rows'[i] = rows[i],
         back = {} => \A i \in Ids :
           rows'[i] # None /\ rows[i].next \notin ended' \cup {None} => rows'[rows[i].next] # None,
         CallTypes',
         NEW moved \in SUBSET Calls,
         \A c \in Calls \ moved : Still(c),
         \A c \in moved : at'[c] <= now /\ CallOK(c)' /\ Kept(c)' /\ Before(c)'
  PROVE  SessionsInv'
<1>1. TypeOK'
  BY DEF SessionsInv, Typed, TypeOK, CallTypes
<1>2. \A c \in Calls : (at[c] <= now /\ CallOK(c))'
  BY SMT DEF SessionsInv, Typed, CallOK, Reading, Still
<1>3. \A i \in Ids : RowOK(i)'
  BY DEF SessionsInv, Typed, RowOK
<1>4. Typed'
  BY <1>1, <1>2, <1>3 DEF SessionsInv, Typed, CallTypes
<1>5. ASSUME NEW c \in Calls \ moved PROVE Kept(c)' /\ Before(c)'
  <2>1. pc[c] \in {"expire", "rotate"} => asked[c] \in Ids
    BY DEF SessionsInv, Typed, TypeOK, CallOK
  <2>2. Kept(c) /\ Before(c) /\ Still(c)
    BY DEF SessionsInv
  <2>3. Kept(c)'
    BY <2>1, <2>2, SMT DEF Kept, Reading, Still
  <2>4. Before(c)'
    BY <2>2, SMT DEF Before, Still
  <2> QED
    BY <2>3, <2>4
<1>6. Answered'
  <2>1. \A a \in answers : a.of \in Ids
    BY DEF SessionsInv, Typed, TypeOK
  <2> QED
    BY <2>1 DEF SessionsInv, Answered
<1>7. Chain'
  <2> SUFFICES ASSUME back = {}, NEW i \in Ids, rows'[i] # None, rows'[i].next \notin ended' \cup {None}
               PROVE  /\ rows'[rows'[i].next] # None
                      /\ rows'[i].exp <= rows'[rows'[i].next].exp
                      /\ rows'[i].app = rows'[rows'[i].next].app
    BY DEF Chain
  <2>1. rows'[i] = rows[i] /\ rows[i].next \in Ids
    BY DEF SessionsInv, Typed, TypeOK, RowOK
  <2>2. rows'[rows[i].next] # None /\ rows'[rows[i].next] = rows[rows[i].next]
    BY <2>1
  <2>3. rows[i].exp <= rows[rows[i].next].exp /\ rows[i].app = rows[rows[i].next].app
    BY <2>1 DEF SessionsInv, Chain
  <2> QED
    BY <2>1, <2>2, <2>3
<1> QED
  BY <1>4, <1>5, <1>6, <1>7 DEF SessionsInv, OneAnswer

\* A call that is answered carries nothing.
LEMMA ReturnFacts ==
  ASSUME SessionsInv, NEW c \in Calls, Return(c), now' = now
  PROVE  /\ CallTypes' /\ \A d \in Calls \ {c} : Still(d)
         /\ at'[c] <= now /\ CallOK(c)' /\ Kept(c)' /\ Before(c)'
<1>0. CallTypes /\ now \in Nat
  BY Numbers, SMT DEF SessionsInv, Typed, TypeOK, CallTypes
<1>1. pc'[c] = "done" /\ at'[c] = 0
  BY <1>0 DEF Return, CallTypes
<1>2. CallTypes'
  <2>1. (lock \in [Servers -> Refreshes \cup {None}])'
    BY <1>0 DEF Return, CallTypes
  <2>2. (pc \in [Calls -> {"idle", "open", "read", "expire", "rotate", "done"}])'
    BY <1>0 DEF Return, CallTypes
  <2>3. (asked \in [Calls -> Ids \cup {None}])' /\ (read \in [Calls -> Rows \cup Apps \cup {None}])'
    BY <1>0 DEF Return, CallTypes
  <2>4. (at \in [Calls -> 0..MaxNow])'
    BY <1>0, Numbers, SMT DEF Return, CallTypes
  <2> QED
    BY <2>1, <2>2, <2>3, <2>4 DEF CallTypes
<1>3. \A d \in Calls \ {c} : Still(d)
  BY <1>0 DEF Return, CallTypes, Still
<1> QED
  BY <1>0, <1>1, <1>2, <1>3, SMT DEF CallOK, Kept, Before, Reading

\* Nothing but one call moves.
LEMMA OneCallMoves ==
  ASSUME SessionsInv, NEW c \in Calls,
         UNCHANGED <<now, rows, apps, used, handed, answers, ended, back>>,
         CallTypes', \A d \in Calls \ {c} : Still(d),
         at'[c] <= now, CallOK(c)', Kept(c)', Before(c)'
  PROVE  SessionsInv'
<1>1. /\ rows \in [Ids -> Rows \cup {None}] /\ apps \subseteq Apps /\ ended \subseteq Ids
      /\ back = {} => \A i \in Ids :
           rows[i] # None /\ rows[i].next \notin ended \cup {None} => rows[rows[i].next] # None
  BY DEF SessionsInv, Typed, TypeOK, Chain
<1>2. {c} \in SUBSET Calls
  OBVIOUS
<1> QED
  BY <1>1, <1>2, RowsGo

LEMMA LoginKeeps ==
  ASSUME SessionsInv, NEW c \in Calls, Login(c) PROVE SessionsInv'
<1>0. CallTypes /\ at[c] <= now
  BY DEF SessionsInv, Typed, TypeOK, CallTypes
<1>1. PICK app \in apps \cup {None} : read' = [read EXCEPT ![c] = app]
  BY DEF Login
<1>2. app \in Apps \cup {None} /\ pc'[c] = "open" /\ read'[c] = app /\ at'[c] = at[c]
  BY <1>0, <1>1 DEF Login, SessionsInv, Typed, TypeOK, CallTypes
<1>3. CallTypes'
  BY <1>0, <1>1, <1>2 DEF Login, CallTypes
<1>4. \A d \in Calls \ {c} : Still(d)
  BY <1>0, <1>1 DEF Login, CallTypes, Still
<1>5. CallOK(c)' /\ Kept(c)' /\ Before(c)'
  BY <1>2 DEF CallOK, Kept, Before, Reading
<1> QED
  BY <1>0, <1>2, <1>3, <1>4, <1>5, OneCallMoves DEF Login

LEMMA AskKeeps ==
  ASSUME SessionsInv, NEW c \in Calls, Ask(c) PROVE SessionsInv'
<1>0. CallTypes /\ at[c] <= now
  BY DEF SessionsInv, Typed, TypeOK, CallTypes
<1>1. PICK id \in handed : asked' = [asked EXCEPT ![c] = id]
  BY DEF Ask
<1>2. id \in used /\ id \in Ids /\ pc'[c] = "read" /\ asked'[c] = id /\ at'[c] = at[c] /\ c \in Refreshes
  BY <1>0, <1>1 DEF Ask, SessionsInv, Typed, TypeOK, CallTypes
<1>3. CallTypes'
  BY <1>0, <1>1, <1>2 DEF Ask, CallTypes
<1>4. \A d \in Calls \ {c} : Still(d)
  BY <1>0, <1>1 DEF Ask, CallTypes, Still
<1>5. CallOK(c)' /\ Kept(c)' /\ Before(c)'
  BY <1>2 DEF CallOK, Kept, Before, Reading, Ask
<1> QED
  BY <1>0, <1>2, <1>3, <1>4, <1>5, OneCallMoves DEF Ask

\* The row read is the row there is.
LEMMA ReadKeeps ==
  ASSUME SessionsInv, NEW c \in Calls, Read(c) PROVE SessionsInv'
<1>0. CallTypes /\ at[c] <= now /\ asked[c] \in used /\ asked[c] \in Ids
  BY DEF SessionsInv, Typed, TypeOK, CallTypes, CallOK, Read
<1>1. CASE rows[asked[c]] = None
  BY <1>1, ReturnFacts, OneCallMoves DEF Read
<1>2. CASE rows[asked[c]] # None
  <2> DEFINE row == rows[asked[c]]
  <2>1. row \in Rows /\ RowOK(asked[c])
    BY <1>0, <1>2 DEF SessionsInv, Typed, TypeOK
  <2>2. /\ read' = [read EXCEPT ![c] = row]
        /\ pc' = [pc EXCEPT ![c] = "expire"]
        /\ UNCHANGED <<lock, asked, at>>
        /\ UNCHANGED <<now, rows, apps, used, handed, answers, ended, back>>
    BY <1>2 DEF Read
  <2>3. read'[c] = row /\ pc'[c] = "expire"
    BY <1>0, <2>2 DEF CallTypes
  <2>4. CallTypes'
    BY <1>0, <2>1, <2>2 DEF CallTypes
  <2>5. \A d \in Calls \ {c} : Still(d)
    BY <1>0, <2>2 DEF CallTypes, Still
  <2>6. CallOK(c)'
    BY <1>0, <1>2, <2>1, <2>2, <2>3, SMT DEF CallOK, Reading, RowOK
  <2>7. row.exp \in Nat
    BY <2>1, Numbers, SMT DEF Rows
  <2>8. Kept(c)' /\ Before(c)'
    BY <2>2, <2>3, <2>7, SMT DEF Kept, Before, Reading
  <2> QED
    BY <1>0, <2>2, <2>4, <2>5, <2>6, <2>8, OneCallMoves
<1> QED
  BY <1>1, <1>2

\* A row that runs out takes the rows before it along: they run out first.
LEMMA ExpireKeeps ==
  ASSUME SessionsInv, NEW c \in Calls, Expire(c) PROVE SessionsInv'
<1>0. /\ CallTypes /\ asked[c] \in used /\ asked[c] \in Ids /\ read[c] \in Rows /\ now \in 0..MaxNow
      /\ apps \subseteq Apps /\ ended \subseteq Ids
      /\ rows \in [Ids -> Rows \cup {None}]
  BY DEF SessionsInv, Typed, TypeOK, CallTypes, CallOK, Reading, Expire
<1>1. /\ rows' = [i \in Ids |-> IF rows[i] # None /\ rows[i].exp <= now THEN None ELSE rows[i]]
      /\ UNCHANGED <<now, apps, used, handed, answers, ended, back>>
      /\ pc[c] = "expire"
  BY DEF Expire
<1>2. /\ rows' \in [Ids -> Rows \cup {None}]
      /\ \A i \in Ids : rows'[i] # None => rows'[i] = rows[i]
  BY <1>0, <1>1
<1>3. ASSUME back = {}, NEW i \in Ids, rows'[i] # None, rows[i].next \notin ended' \cup {None}
      PROVE  rows'[rows[i].next] # None
  <2> DEFINE n == rows[i].next
  <2>1. rows[i] # None /\ rows[i] \in Rows /\ ~(rows[i].exp <= now)
    BY <1>0, <1>1, <1>3
  <2>2. n \in Ids
    BY <2>1, <1>3 DEF Rows
  <2>3. rows[n] # None /\ rows[i].exp <= rows[n].exp
    BY <1>1, <1>3, <2>1 DEF SessionsInv, Chain
  <2>4. rows[n] \in Rows
    BY <1>0, <2>2, <2>3
  <2>5. rows[i].exp \in Nat /\ rows[n].exp \in Nat
    BY <2>1, <2>4, Numbers, SMT DEF Rows
  <2> QED
    BY <1>0, <1>1, <2>1, <2>2, <2>3, <2>5, SMT
<1>4. {c} \in SUBSET Calls
  OBVIOUS
<1>5. CASE Return(c)
  <2>1. /\ CallTypes' /\ \A d \in Calls \ {c} : Still(d)
        /\ at'[c] <= now /\ CallOK(c)' /\ Kept(c)' /\ Before(c)'
    BY <1>1, <1>5, ReturnFacts
  <2> QED
    BY <1>0, <1>1, <1>2, <1>3, <1>4, <2>1, RowsGo
<1>6. CASE /\ at' = [at EXCEPT ![c] = now]
           /\ pc' = [pc EXCEPT ![c] = "rotate"]
           /\ UNCHANGED <<lock, asked, read>>
  <2>1. at'[c] = now /\ pc'[c] = "rotate" /\ asked'[c] = asked[c] /\ read'[c] = read[c]
    BY <1>0, <1>6 DEF CallTypes
  <2>2. CallTypes'
    BY <1>0, <1>6 DEF CallTypes
  <2>3. \A d \in Calls \ {c} : Still(d)
    BY <1>0, <1>6 DEF CallTypes, Still
  <2>4. CallOK(c)'
    <3>1. CallOK(c)
      BY DEF SessionsInv, Typed
    <3> QED
      BY <1>1, <2>1, <3>1 DEF CallOK, Reading
  <2>5. Kept(c)'
    <3>1. Kept(c)
      BY DEF SessionsInv
    <3> QED
      BY <1>0, <1>1, <1>2, <2>1, <3>1 DEF Kept, Reading
  <2>6. Before(c)'
    <3> SUFFICES ASSUME NEW i \in Ids, rows'[i] # None, rows'[i].next = asked[c]
                 PROVE  rows'[i].exp <= now + Grace
      BY <1>1, <2>1 DEF Before
    <3>1. rows'[i] = rows[i] /\ RowOK(i)
      BY <1>2 DEF SessionsInv, Typed
    <3> QED
      BY <1>0, <3>1, Numbers DEF RowOK
  <2>7. at'[c] <= now
    BY <1>0, <2>1, Numbers, SMT
  <2> QED
    BY <1>0, <1>1, <1>2, <1>3, <1>4, <2>2, <2>3, <2>4, <2>5, <2>6, <2>7, RowsGo
<1> QED
  BY <1>5, <1>6 DEF Expire

LEMMA RevokeKeeps ==
  ASSUME SessionsInv, NEW id \in Ids, Revoke(id) PROVE SessionsInv'
<1>0. /\ CallTypes /\ apps \subseteq Apps /\ ended \subseteq Ids /\ rows \in [Ids -> Rows \cup {None}]
  BY DEF SessionsInv, Typed, TypeOK, CallTypes
<1>1. /\ rows' = [rows EXCEPT ![id] = None] /\ ended' = ended \cup {id}
      /\ UNCHANGED <<now, apps, used, handed, answers, back>>
      /\ UNCHANGED <<lock, pc, asked, read, at>>
  BY DEF Revoke, call
<1>2. ASSUME back = {}, NEW i \in Ids, rows'[i] # None, rows[i].next \notin ended' \cup {None}
      PROVE  rows'[rows[i].next] # None
  <2>1. rows[i] # None /\ rows[rows[i].next] # None
    BY <1>0, <1>1, <1>2 DEF SessionsInv, Chain
  <2> QED
    BY <1>0, <1>1, <1>2, <2>1, SMT
<1>3. CallTypes' /\ \A c \in Calls : Still(c)
  BY <1>0, <1>1 DEF CallTypes, Still
<1>4. /\ rows' \in [Ids -> Rows \cup {None}] /\ ended \subseteq ended' /\ ended' \subseteq Ids
      /\ \A i \in Ids : rows'[i] # None => rows'[i] = rows[i]
      /\ {} \in SUBSET Calls
  BY <1>0, <1>1
<1> QED
  BY <1>0, <1>1, <1>2, <1>3, <1>4, RowsGo

\* The sessions of one chain go together with their app password.
LEMMA RevokeAppKeeps ==
  ASSUME SessionsInv, NEW app \in Apps, RevokeApp(app) PROVE SessionsInv'
<1>0. /\ CallTypes /\ apps \subseteq Apps /\ ended \subseteq Ids /\ rows \in [Ids -> Rows \cup {None}]
  BY DEF SessionsInv, Typed, TypeOK, CallTypes
<1>1. /\ rows' = [i \in Ids |-> IF rows[i] # None /\ rows[i].app = app THEN None ELSE rows[i]]
      /\ apps' \subseteq Apps
      /\ UNCHANGED <<now, used, handed, answers, ended, back>>
      /\ UNCHANGED <<lock, pc, asked, read, at>>
  BY <1>0 DEF RevokeApp, call
<1>2. ASSUME back = {}, NEW i \in Ids, rows'[i] # None, rows[i].next \notin ended' \cup {None}
      PROVE  rows'[rows[i].next] # None
  <2>1. rows[i] # None /\ rows[i].app # app /\ rows[i] \in Rows
    BY <1>0, <1>1, <1>2
  <2>2. rows[rows[i].next] # None /\ rows[i].app = rows[rows[i].next].app
    BY <1>1, <1>2, <2>1 DEF SessionsInv, Chain
  <2>3. rows[i].next \in Ids
    BY <1>2, <2>1 DEF Rows
  <2> QED
    BY <1>1, <2>1, <2>2, <2>3
<1>3. CallTypes' /\ \A c \in Calls : Still(c)
  BY <1>0, <1>1 DEF CallTypes, Still
<1>4. /\ rows' \in [Ids -> Rows \cup {None}] /\ ended \subseteq ended' /\ ended' \subseteq Ids
      /\ \A i \in Ids : rows'[i] # None => rows'[i] = rows[i]
      /\ {} \in SUBSET Calls
  BY <1>0, <1>1
<1> QED
  BY <1>1, <1>2, <1>3, <1>4, RowsGo

LEMMA CreateAppKeeps ==
  ASSUME SessionsInv, NEW app \in Apps, CreateApp(app) PROVE SessionsInv'
<1>0. /\ CallTypes /\ apps \subseteq Apps /\ ended \subseteq Ids /\ rows \in [Ids -> Rows \cup {None}]
  BY DEF SessionsInv, Typed, TypeOK, CallTypes
<1>1. /\ apps' \subseteq Apps
      /\ UNCHANGED <<now, rows, used, handed, answers, ended, back>>
      /\ UNCHANGED <<lock, pc, asked, read, at>>
  BY <1>0 DEF CreateApp, call
<1>2. CallTypes' /\ \A c \in Calls : Still(c)
  BY <1>0, <1>1 DEF CallTypes, Still
<1>3. back = {} => \A i \in Ids :
        rows'[i] # None /\ rows[i].next \notin ended' \cup {None} => rows'[rows[i].next] # None
  BY <1>1 DEF SessionsInv, Chain
<1>4. {} \in SUBSET Calls
  BY SMTT(40)
<1> QED
  BY <1>0, <1>1, <1>2, <1>3, <1>4, RowsGo

LEMMA TickKeeps ==
  ASSUME SessionsInv, Tick PROVE SessionsInv'
<1>0. /\ now \in Nat /\ now' \in 0..MaxNow /\ now' = now + 1
      /\ UNCHANGED <<rows, apps, lock, pc, asked, read, at, used, handed, answers, ended, back>>
  BY Numbers, SMT DEF SessionsInv, Typed, TypeOK, Tick, call
<1>1. TypeOK'
  BY <1>0 DEF SessionsInv, Typed, TypeOK
<1>2. ASSUME NEW c \in Calls PROVE (at[c] <= now)' /\ CallOK(c)'
  <2>1. at[c] \in Nat /\ at[c] <= now /\ CallOK(c)
    BY ClockIsNat, RowExp DEF SessionsInv, Typed, TypeOK
  <2>2. Reading(c) => read[c].exp \in Nat
    BY <2>1, Numbers, SMT DEF CallOK, Rows
  <2> QED
    BY <1>0, <2>1, <2>2, Numbers, SMT DEF CallOK, Reading
<1>3. ASSUME NEW i \in Ids PROVE RowOK(i)'
  <2>1. RowOK(i) /\ (rows[i] # None => rows[i].exp \in Nat)
    BY ClockIsNat, RowExp DEF SessionsInv, Typed, TypeOK
  <2> QED
    BY <1>0, <2>1, Numbers, SMT DEF RowOK
<1>4. Typed'
  BY <1>0, <1>1, <1>2, <1>3 DEF SessionsInv, Typed
<1>5. \A c \in Calls : Kept(c)' /\ Before(c)'
  BY <1>0 DEF SessionsInv, Kept, Before, Reading
<1> QED
  BY <1>0, <1>4, <1>5 DEF SessionsInv, Answered, OneAnswer, Chain

LEMMA FreshFacts ==
  ASSUME SessionsInv, NEW id \in Fresh
  PROVE  id \in Ids /\ id \notin used /\ rows[id] = None
BY DEF Fresh, SessionsInv, Typed, RowOK

\* A sign-in writes a row nobody names.
LEMMA OpenKeeps ==
  ASSUME SessionsInv, NEW c \in Calls, Open(c) PROVE SessionsInv'
<1>0. /\ CallTypes /\ now \in 0..MaxNow /\ rows \in [Ids -> Rows \cup {None}] /\ used \subseteq Ids
      /\ \A d \in Calls : at[d] <= now /\ CallOK(d)
  BY DEF SessionsInv, Typed, TypeOK, CallTypes
<1>1. PICK id \in Fresh :
        /\ rows' = [rows EXCEPT ![id] = Session(now + Lifetime, read[c])]
        /\ used' = used \cup {id}
        /\ handed' = handed \cup {id}
  BY DEF Open
<1>2. /\ UNCHANGED <<now, apps, lock, asked, at, answers, ended, back>>
      /\ pc' = [pc EXCEPT ![c] = "done"] /\ read' = [read EXCEPT ![c] = None]
  BY DEF Open
<1> DEFINE new == Session(now + Lifetime, read[c])
<1>3. read[c] \in Apps \cup {None} /\ now + Lifetime \in 0..(MaxNow + Lifetime)
  BY <1>0, Numbers, SMT DEF CallOK, Open
<1>4. new \in Rows /\ new # None /\ new.next = None
  BY <1>3, SessionIsARow
<1>5. id \in Ids /\ id \notin used /\ rows[id] = None
  BY FreshFacts
<1> HIDE DEF new
<1>6. /\ rows' \in [Ids -> Rows \cup {None}] /\ rows'[id] = new
      /\ \A i \in Ids : i # id => rows'[i] = rows[i]
  BY <1>0, <1>1, <1>4, <1>5 DEF new
<1>7. CallTypes'
  BY <1>0, <1>2 DEF CallTypes
<1>8. pc'[c] = "done" /\ \A d \in Calls \ {c} : Still(d)
  BY <1>0, <1>2 DEF CallTypes, Still
<1>9. TypeOK'
  BY <1>1, <1>2, <1>5, <1>6, <1>7 DEF SessionsInv, Typed, TypeOK, CallTypes
<1>10. ASSUME NEW d \in Calls PROVE (at[d] <= now)' /\ CallOK(d)' /\ Kept(d)' /\ Before(d)'
  <2>1. CASE d = c
    BY <1>0, <1>2, <1>8, <2>1 DEF CallOK, Kept, Before, Reading
  <2>2. CASE d # c
    <3>1. Still(d) /\ at[d] <= now /\ CallOK(d) /\ Kept(d) /\ Before(d)
      BY <1>0, <1>8, <2>2 DEF SessionsInv
    <3>2. pc[d] \in {"read", "expire", "rotate"} => asked[d] # id /\ asked[d] \in Ids
      BY <1>0, <1>5, <3>1 DEF CallOK
    <3>3. (at[d] <= now)' /\ CallOK(d)'
      BY <1>1, <1>2, <3>1, SMT DEF CallOK, Reading, Still
    <3>4. Kept(d)'
      BY <1>2, <1>6, <3>1, <3>2 DEF Kept, Reading, Still
    <3>5. Before(d)'
      BY <1>2, <1>4, <1>6, <3>1, <3>2, Numbers DEF Before, Still
    <3> QED
      BY <3>3, <3>4, <3>5
  <2> QED
    BY <2>1, <2>2
<1>11. \A i \in Ids : RowOK(i)'
  BY <1>1, <1>2, <1>4, <1>6 DEF SessionsInv, Typed, RowOK
<1>12. Typed'
  BY <1>1, <1>2, <1>7, <1>9, <1>10, <1>11 DEF SessionsInv, Typed, CallTypes
<1>13. Answered'
  <2>1. \A a \in answers : a.of \in Ids /\ a.of # id
    BY <1>0, <1>5 DEF SessionsInv, Typed
  <2> QED
    BY <1>2, <1>6, <2>1 DEF SessionsInv, Answered
<1>14. Chain'
  <2> SUFFICES ASSUME back = {}, NEW i \in Ids, rows'[i] # None, rows'[i].next \notin ended \cup {None}
               PROVE  /\ rows'[rows'[i].next] # None
                      /\ rows'[i].exp <= rows'[rows'[i].next].exp
                      /\ rows'[i].app = rows'[rows'[i].next].app
    BY <1>2 DEF Chain
  <2>1. i # id /\ rows'[i] = rows[i]
    BY <1>4, <1>6
  <2>2. rows[i].next \in used
    BY <2>1 DEF SessionsInv, Typed, RowOK
  <2>3. rows'[rows[i].next] = rows[rows[i].next]
    BY <1>0, <1>5, <1>6, <2>2
  <2> QED
    BY <2>1, <2>3 DEF SessionsInv, Chain
<1> QED
  BY <1>2, <1>10, <1>12, <1>13, <1>14 DEF SessionsInv, OneAnswer

-----------------------------------------------------------------------------
(* What an exchange reads and writes. *)

\* What an exchange writes.
Left(c, next) == [exp |-> Until(read[c].exp, at[c]), next |-> next, app |-> rows[asked[c]].app]

\* The step of a call whose row was held for it.
Exchanged(c, next) ==
  /\ rows' = IF rows[next] # None THEN [rows EXCEPT ![asked[c]] = Left(c, next)]
             ELSE [[rows EXCEPT ![asked[c]] = Left(c, next)] EXCEPT ![next] = Successor(read[c], at[c])]
  /\ used' = used \cup {next}
  /\ back' = IF rows[next] = None /\ next \in used THEN back \cup {next} ELSE back
  /\ answers' = answers \cup {[of |-> asked[c], next |-> next]}
  /\ handed' = handed \cup {next}
  /\ Return(c)
  /\ UNCHANGED <<now, apps, ended>>

\* A call exchanges a row it is asked to, for the successor it read or a new id.
Exchanging(c, next) ==
  /\ pc[c] = "rotate"
  /\ next \in IF read[c].next # None THEN {read[c].next} ELSE Fresh
  /\ Held(asked[c], next)

LEMMA RotateCases ==
  ASSUME NEW c \in Calls, Rotate(c)
  PROVE  \/ \E next : Exchanging(c, next) /\ Exchanged(c, next)
         \/ /\ pc' = [pc EXCEPT ![c] = "read"]
            /\ read' = [read EXCEPT ![c] = None]
            /\ at' = [at EXCEPT ![c] = 0]
            /\ UNCHANGED <<rows, used, back, answers, handed, lock, asked, now, apps, ended>>
<1>1. PICK next \in IF read[c].next # None THEN {read[c].next} ELSE Fresh :
        LET id == asked[c]
            left == IF rows[id] = None THEN None
                    ELSE [exp |-> Until(read[c].exp, at[c]), next |-> next, app |-> rows[id].app]
            told == [rows EXCEPT ![id] = left]
        IN IF Held(id, next)
           THEN /\ rows' = IF rows[next] # None THEN told
                           ELSE [told EXCEPT ![next] = Successor(read[c], at[c])]
                /\ used' = used \cup {next}
                /\ back' = IF rows[next] = None /\ next \in used THEN back \cup {next} ELSE back
                /\ answers' = answers \cup {[of |-> id, next |-> next]}
                /\ handed' = handed \cup {next}
                /\ Return(c)
           ELSE /\ pc' = [pc EXCEPT ![c] = "read"]
                /\ read' = [read EXCEPT ![c] = None]
                /\ at' = [at EXCEPT ![c] = 0]
                /\ UNCHANGED <<rows, used, back, answers, handed, lock, asked>>
  BY ZenonT(40) DEF Rotate
<1>2. pc[c] = "rotate" /\ UNCHANGED <<now, apps, ended>>
  BY DEF Rotate
<1>3. CASE Held(asked[c], next)
  <2>1. rows[asked[c]] # None
    BY <1>3 DEF Held
  <2>2. Exchanging(c, next)
    BY <1>1, <1>2, <1>3 DEF Exchanging
  <2>3. Exchanged(c, next)
    BY <1>1, <1>2, <1>3, <2>1, ZenonT(40) DEF Exchanged, Left
  <2> QED
    BY <2>2, <2>3
<1>4. CASE ~Held(asked[c], next)
  BY <1>1, <1>2, <1>4
<1> QED
  BY <1>3, <1>4

\* The row a call may write, where it never came back, is the row it read.
LEMMA RowAsRead ==
  ASSUME SessionsInv, NEW c \in Calls, NEW next, Exchanging(c, next)
  PROVE  /\ asked[c] \in Ids /\ asked[c] \in used /\ rows[asked[c]] \in Rows /\ rows[asked[c]] # None
         /\ read[c] \in Rows /\ at[c] \in 0..now /\ now \in 0..MaxNow
         /\ next \in Ids
         /\ IF read[c].next # None THEN next = read[c].next /\ next \in used
            ELSE next \notin used /\ rows[next] = None
         /\ Left(c, next) \in Rows
         /\ asked[c] \notin back =>
              /\ rows[asked[c]].exp = read[c].exp
              /\ rows[asked[c]].next = read[c].next
              /\ rows[asked[c]].app = read[c].app
              /\ read[c].next # None => Left(c, next) = rows[asked[c]]
<1> DEFINE id == asked[c]
<1>1. /\ CallOK(c) /\ Kept(c) /\ at[c] \in 0..MaxNow /\ at[c] <= now /\ now \in 0..MaxNow
      /\ rows \in [Ids -> Rows \cup {None}] /\ used \subseteq Ids
  BY DEF SessionsInv, Typed, TypeOK
<1>2. pc[c] = "rotate" /\ rows[id] # None /\ rows[id].next \in {None, next}
  BY DEF Exchanging, Held
<1>3. id \in Ids /\ id \in used /\ read[c] \in Rows /\ rows[id] \in Rows
  BY <1>1, <1>2 DEF CallOK, Reading
<1>4. at[c] \in 0..now /\ at[c] \in Nat
  BY <1>1, Numbers, SMT
<1>5. next \in Ids /\ IF read[c].next # None THEN next = read[c].next /\ next \in used
                       ELSE next \notin used /\ rows[next] = None
  <2>1. CASE read[c].next # None
    BY <1>1, <1>2, <2>1 DEF Exchanging, CallOK, Reading
  <2>2. CASE read[c].next = None
    BY <2>2, FreshFacts DEF Exchanging
  <2> QED
    BY <2>1, <2>2
<1>6. read[c].exp \in 0..(MaxNow + Lifetime) /\ rows[id].app \in Apps \cup {None}
  BY <1>3 DEF Rows
<1>7. Until(read[c].exp, at[c]) \in 0..(MaxNow + Lifetime)
  <2>1. read[c].exp \in Nat
    BY <1>6, Numbers, SMT
  <2>2. Until(read[c].exp, at[c]) \in Nat /\ Until(read[c].exp, at[c]) <= read[c].exp
    BY <1>4, <2>1, UntilFacts
  <2> QED
    BY <1>6, <2>1, <2>2, Numbers, SMT
<1>8. Left(c, next) \in Rows
  BY <1>5, <1>6, <1>7 DEF Left, Rows
<1>9. ASSUME id \notin back
      PROVE  /\ rows[id].exp = read[c].exp /\ rows[id].next = read[c].next /\ rows[id].app = read[c].app
             /\ read[c].next # None => Left(c, next) = rows[id]
  <2>1. rows[id].next = read[c].next
    <3>1. CASE read[c].next # None
      BY <1>1, <1>2, <1>9, <3>1 DEF Kept, Reading
    <3>2. CASE read[c].next = None
      <4>1. rows[id].next # None => rows[id].next \in used
        BY <1>2, <1>3 DEF SessionsInv, Typed, RowOK
      <4> QED
        BY <1>2, <1>5, <3>2, <4>1
    <3> QED
      BY <3>1, <3>2
  <2>2. rows[id].exp = read[c].exp /\ rows[id].app = read[c].app
    BY <1>1, <1>2, <1>9, <2>1 DEF Kept, Reading
  <2>3. ASSUME read[c].next # None PROVE Left(c, next) = rows[id]
    <3>1. read[c].exp <= at[c] + Grace
      BY <1>1, <1>2, <2>3 DEF CallOK, Reading
    <3>2. Until(read[c].exp, at[c]) = read[c].exp
      <4>1. read[c].exp \in Nat
        BY <1>6, Numbers, SMT
      <4> QED
        BY <1>4, <3>1, <4>1, UntilFacts
    <3> QED
      BY <1>3, <1>5, <2>1, <2>2, <2>3, <3>2 DEF Left, Rows
  <2> QED
    BY <2>1, <2>2, <2>3
<1> QED
  BY <1>1, <1>2, <1>3, <1>4, <1>5, <1>8, <1>9

\* One exchange: the row asked for is left shorter, its successor is there, and
\* a successor that had gone is one somebody signed out of.
LEMMA ExchangedKeeps ==
  ASSUME SessionsInv, NEW c \in Calls, NEW next, Exchanging(c, next), Exchanged(c, next)
  PROVE  /\ SessionsInv'
         /\ \A i \in Ids \ back' : rows[i] # None /\ rows'[i] # None => rows'[i].exp <= rows[i].exp
<1> DEFINE id == asked[c]
           left == Left(c, next)
           new == Successor(read[c], at[c])
<1>1. /\ id \in Ids /\ id \in used /\ rows[id] \in Rows /\ rows[id] # None
      /\ read[c] \in Rows /\ at[c] \in 0..now /\ now \in 0..MaxNow
      /\ next \in Ids
      /\ IF read[c].next # None THEN next = read[c].next /\ next \in used
         ELSE next \notin used /\ rows[next] = None
      /\ left \in Rows
      /\ id \notin back =>
           /\ rows[id].exp = read[c].exp /\ rows[id].next = read[c].next /\ rows[id].app = read[c].app
           /\ read[c].next # None => left = rows[id]
  BY RowAsRead
<1>2. /\ rows \in [Ids -> Rows \cup {None}] /\ used \subseteq Ids /\ back \subseteq used /\ ended \subseteq Ids
      /\ answers \subseteq [of : used, next : used] /\ handed \subseteq used
      /\ \A d \in Calls : at[d] \in 0..MaxNow /\ at[d] <= now /\ CallOK(d) /\ Kept(d) /\ Before(d)
      /\ \A i \in Ids : RowOK(i)
  BY DEF SessionsInv, Typed, TypeOK
<1>3. /\ now \in Nat /\ at[c] \in Nat /\ read[c].exp \in Nat /\ rows[id].exp \in Nat
      /\ read[c].app \in Apps \cup {None} /\ at[c] + Lifetime \in 0..(MaxNow + Lifetime)
  BY <1>1, Numbers, SMT DEF Rows
<1>4. /\ left.exp = Until(read[c].exp, at[c]) /\ left.next = next /\ left.app = rows[id].app
      /\ left.exp \in Nat /\ left.exp <= read[c].exp /\ left.exp <= at[c] + Grace
      /\ left.exp \in {read[c].exp, at[c] + Grace} /\ left # None
  <2>1. left.exp = Until(read[c].exp, at[c]) /\ left.next = next /\ left.app = rows[id].app
    BY DEF Left
  <2>2. LET e == Until(read[c].exp, at[c])
        IN e \in Nat /\ e <= read[c].exp /\ e <= at[c] + Grace /\ e \in {read[c].exp, at[c] + Grace}
    BY <1>3, UntilFacts
  <2>3. left # None
    BY <1>1, Numbers
  <2> HIDE DEF left
  <2> QED
    BY <2>1, <2>2, <2>3
<1>5. /\ new \in Rows /\ new # None /\ new.exp = at[c] + Lifetime
      /\ new.next = None /\ new.app = read[c].app
  BY <1>3, SessionIsARow, SMT DEF Successor
<1>6. /\ rows' = IF rows[next] # None THEN [rows EXCEPT ![id] = left]
                 ELSE [[rows EXCEPT ![id] = left] EXCEPT ![next] = new]
      /\ used' = used \cup {next}
      /\ back' = IF rows[next] = None /\ next \in used THEN back \cup {next} ELSE back
      /\ answers' = answers \cup {[of |-> id, next |-> next]}
      /\ handed' = handed \cup {next}
      /\ UNCHANGED <<now, apps, ended>>
  BY DEF Exchanged
<1>7. /\ CallTypes' /\ \A d \in Calls \ {c} : Still(d)
      /\ at'[c] <= now /\ CallOK(c)' /\ Kept(c)' /\ Before(c)'
  BY <1>6, ReturnFacts DEF Exchanged
<1> HIDE DEF id, left, new
<1>8. /\ rows' \in [Ids -> Rows \cup {None}] /\ rows'[id] = left
      /\ \A i \in Ids \ {id, next} : rows'[i] = rows[i]
      /\ IF rows[next] = None THEN rows'[next] = new /\ next # id
         ELSE next # id => rows'[next] = rows[next]
  BY <1>1, <1>2, <1>5, <1>6
<1>9. back \subseteq back' /\ back' \subseteq used /\ (next \in used /\ rows[next] = None => next \in back')
  BY <1>2, <1>6
<1>10. id \notin back => left.exp <= rows[id].exp
  BY SMTT(30), <1>1, <1>3, <1>4
<1>11. TypeOK'
  BY <1>1, <1>2, <1>6, <1>7, <1>8 DEF SessionsInv, Typed, TypeOK, CallTypes
<1>12. ASSUME NEW i \in Ids PROVE RowOK(i)'
  <2>1. CASE i = id
    <3>1. left.exp <= now + Grace
      BY SMTT(30), <1>1, <1>3, <1>4, Numbers
    <3> QED
      BY <1>1, <1>4, <1>6, <1>8, <2>1, <3>1 DEF RowOK
  <2>2. CASE i = next /\ i # id
    BY SMTT(30), <1>1, <1>2, <1>5, <1>6, <1>8, <2>2 DEF RowOK
  <2>3. CASE i \notin {id, next}
    BY SMTT(30), <1>2, <1>6, <1>8, <2>3 DEF RowOK
  <2> QED
    BY <2>1, <2>2, <2>3
<1>13. ASSUME NEW d \in Calls, d # c PROVE (at[d] <= now)' /\ CallOK(d)'
  BY <1>2, <1>6, <1>7, <1>13 DEF Still, CallOK, Reading
<1>14. ASSUME NEW d \in Calls, d # c PROVE Kept(d)'
  <2> SUFFICES ASSUME Reading(d), asked[d] \notin back', rows'[asked[d]] # None
               PROVE  /\ rows'[asked[d]].app = read[d].app
                      /\ rows'[asked[d]].exp <= read[d].exp
                      /\ read[d].next # None => rows'[asked[d]].next = read[d].next
                      /\ rows'[asked[d]].next = read[d].next => rows'[asked[d]].exp = read[d].exp
    BY SMTT(30), <1>7, <1>14 DEF Kept, Reading, Still
  <2>1. asked[d] \in used /\ asked[d] \in Ids /\ asked[d] \notin back /\ Kept(d)
    BY <1>2, <1>9 DEF CallOK, Reading
  <2>2. CASE asked[d] # id
    <3>1. rows'[asked[d]] = rows[asked[d]]
      BY <1>8, <1>9, <2>1, <2>2
    <3> QED
      BY <2>1, <3>1 DEF Kept
  <2>3. CASE asked[d] = id /\ read[c].next # None
    <3>1. rows'[asked[d]] = rows[asked[d]]
      BY <1>1, <1>8, <2>1, <2>3
    <3> QED
      BY <2>1, <3>1 DEF Kept
  <2>4. CASE asked[d] = id /\ read[c].next = None
    <3>1. /\ rows[id].next = None /\ read[d].next = None
          /\ rows[id].exp = read[d].exp /\ rows[id].app = read[d].app
      BY <1>1, <2>1, <2>4 DEF Kept
    <3>2. next # None
      BY <1>1, Numbers
    <3> QED
      BY <1>4, <1>8, <1>10, <2>1, <2>4, <3>1, <3>2
  <2> QED
    BY SMTT(30), <2>2, <2>3, <2>4
<1>15. ASSUME NEW d \in Calls, d # c PROVE Before(d)'
  <2> SUFFICES ASSUME pc[d] = "rotate", NEW i \in Ids \ back', rows'[i] # None, rows'[i].next = asked[d]
               PROVE  rows'[i].exp <= at[d] + Grace
    BY <1>7, <1>15 DEF Before, Still
  <2>1. asked[d] \in used /\ asked[d] # None /\ i \notin back /\ Before(d)
    BY <1>2, <1>9, Numbers DEF CallOK
  <2>2. CASE i = id
    <3>1. next \in used /\ read[c].next # None
      BY <1>1, <1>4, <1>8, <2>1, <2>2
    <3>2. rows'[i] = rows[i]
      BY <1>1, <1>8, <2>1, <2>2, <3>1
    <3> QED
      BY <2>1, <3>2 DEF Before
  <2>3. CASE i # id
    <3>1. rows'[i] = rows[i]
      BY SMTT(30), <1>5, <1>8, <2>1, <2>3
    <3> QED
      BY <2>1, <3>1 DEF Before
  <2> QED
    BY <2>2, <2>3
<1>16. answers' \subseteq [of : used', next : used']
  BY <1>1, <1>2, <1>6, SMT
<1>17. ASSUME NEW a \in answers, a.of = id, id \notin back PROVE a.next = next
  <2>1. rows[id].next = a.next /\ a.next \in used
    BY <1>1, <1>2, <1>17 DEF SessionsInv, Answered
  <2> QED
    BY <1>1, <1>2, <1>17, <2>1, Numbers
<1>18. Answered'
  <2> SUFFICES ASSUME NEW a \in answers', a.of \notin back', rows'[a.of] # None
               PROVE  rows'[a.of].next = a.next
    BY DEF Answered
  <2>1. CASE a.of = id
    BY <1>4, <1>6, <1>8, <1>9, <1>17, <2>1, SMT
  <2>2. CASE a.of # id
    <3>1. a \in answers /\ a.of \in used /\ a.of \in Ids
      BY <1>2, <1>6, <2>2, SMT
    <3>2. rows'[a.of] = rows[a.of]
      BY <1>8, <1>9, <2>2, <3>1
    <3> QED
      BY <1>9, <3>1, <3>2 DEF SessionsInv, Answered
  <2> QED
    BY <2>1, <2>2
<1>19. OneAnswer'
  BY <1>6, <1>9, <1>17, SMT DEF SessionsInv, OneAnswer
<1>20. back' # {} => back' \cap ended' # {}
  <2>1. CASE back # {}
    BY <1>6, <1>9, <2>1 DEF SessionsInv
  <2>2. CASE back = {} /\ back' # {}
    <3>1. rows[next] = None /\ next \in used /\ next \in back'
      BY <1>6, <2>2
    <3>2. rows[id].next = next /\ next # None
      BY <1>1, <2>2, <3>1, Numbers
    <3>3. next \in ended
      BY <1>1, <2>2, <3>1, <3>2 DEF SessionsInv, Chain
    <3> QED
      BY <1>6, <3>1, <3>3
  <2> QED
    BY <2>1, <2>2
<1>21. Chain'
  <2> SUFFICES ASSUME back' = {}, NEW i \in Ids, rows'[i] # None, rows'[i].next \notin ended \cup {None}
               PROVE  /\ rows'[rows'[i].next] # None
                      /\ rows'[i].exp <= rows'[rows'[i].next].exp
                      /\ rows'[i].app = rows'[rows'[i].next].app
    BY <1>6 DEF Chain
  <2>0. back = {} /\ ~(next \in used /\ rows[next] = None)
    BY <1>9
  <2>1. CASE read[c].next # None
    <3>1. \A j \in Ids : rows'[j] = rows[j]
      BY <1>1, <1>8, <2>0, <2>1
    <3>2. rows[i].next \in Ids
      BY <1>2, <3>1 DEF RowOK
    <3> QED
      BY <2>0, <3>1, <3>2, SMT DEF SessionsInv, Chain
  <2>2. CASE read[c].next = None
    <3>1. next \notin used /\ rows'[next] = new /\ next # id
      BY <1>1, <1>8, <2>2
    <3>2. CASE i = id
      BY <1>1, <1>3, <1>4, <1>5, <1>8, <2>0, <3>1, <3>2, Numbers, SMT
    <3>3. CASE i # id
      <4>1. i # next /\ rows'[i] = rows[i]
        BY SMTT(30), <1>5, <1>8, <3>1, <3>3
      <4>2. /\ rows[i].next \in used /\ rows[i].next \in Ids /\ rows[rows[i].next] # None
            /\ rows[i].exp <= rows[rows[i].next].exp /\ rows[i].app = rows[rows[i].next].app
        BY SMTT(30), <1>2, <2>0, <4>1 DEF SessionsInv, Chain, RowOK
      <4>3. CASE rows[i].next # id
        BY SMTT(30), <1>8, <3>1, <4>1, <4>2, <4>3
      <4>4. CASE rows[i].next = id
        <5>1. rows[i].exp <= at[c] + Grace
          BY <1>2, <2>0, <4>1, <4>4 DEF Before, Exchanging, id
        <5> QED
          BY SMTT(30), <1>1, <1>4, <1>8, <2>0, <4>1, <4>2, <4>4, <5>1
      <4> QED
        BY <4>3, <4>4
    <3> QED
      BY <3>2, <3>3
  <2> QED
    BY SMTT(30), <2>1, <2>2
<1>22. Typed'
  BY <1>7, <1>9, <1>11, <1>12, <1>13, <1>16, <1>6 DEF Typed, CallTypes
<1>23. SessionsInv'
  BY SMTT(30), <1>7, <1>14, <1>15, <1>18, <1>19, <1>20, <1>21, <1>22 DEF SessionsInv
<1>24. ASSUME NEW i \in Ids \ back', rows[i] # None, rows'[i] # None PROVE rows'[i].exp <= rows[i].exp
  <2>1. CASE i = id
    BY <1>8, <1>9, <1>10, <2>1
  <2>2. CASE i # id
    <3>1. rows'[i] = rows[i] /\ rows[i] \in Rows
      BY <1>2, <1>8, <1>24, <2>2
    <3> QED
      BY <3>1, Numbers, SMT DEF Rows
  <2> QED
    BY <2>1, <2>2
<1> QED
  BY <1>23, <1>24

LEMMA RotateKeeps ==
  ASSUME SessionsInv, NEW c \in Calls, Rotate(c)
  PROVE  /\ SessionsInv'
         /\ \A i \in Ids \ back' : rows[i] # None /\ rows'[i] # None => rows'[i].exp <= rows[i].exp
<1>1. CASE \E next : Exchanging(c, next) /\ Exchanged(c, next)
  BY <1>1, ExchangedKeeps
<1>2. CASE /\ pc' = [pc EXCEPT ![c] = "read"]
           /\ read' = [read EXCEPT ![c] = None]
           /\ at' = [at EXCEPT ![c] = 0]
           /\ UNCHANGED <<rows, used, back, answers, handed, lock, asked, now, apps, ended>>
  <2>1. /\ CallTypes /\ now \in Nat /\ asked[c] \in used
        /\ \A i \in Ids : rows[i] # None => rows[i].exp \in Nat
    BY ClockIsNat, RowExp DEF SessionsInv, Typed, TypeOK, CallTypes, CallOK, Rotate
  <2>2. pc'[c] = "read" /\ at'[c] = 0
    BY <1>2, <2>1 DEF CallTypes
  <2>3. CallTypes'
    BY <1>2, <2>1, Numbers, SMT DEF CallTypes
  <2>4. \A d \in Calls \ {c} : Still(d)
    BY <1>2, <2>1 DEF CallTypes, Still
  <2>5. at'[c] <= now /\ CallOK(c)' /\ Kept(c)' /\ Before(c)'
    BY <1>2, <2>1, <2>2, SMT DEF CallOK, Kept, Before, Reading
  <2>6. SessionsInv'
    BY <1>2, <2>3, <2>4, <2>5, OneCallMoves
  <2> QED
    BY <1>2, <2>1, <2>6, SMT
<1> QED
  BY <1>1, <1>2, RotateCases

-----------------------------------------------------------------------------
(* The invariant, and what follows from it. *)

LEMMA SessionsStep ==
  ASSUME SessionsInv, [Next]_vars
  PROVE  /\ SessionsInv'
         /\ \A i \in Ids \ back' : rows[i] # None /\ rows'[i] # None => rows'[i].exp <= rows[i].exp
<1>0. \A i \in Ids : rows[i] # None => rows[i].exp \in Nat
  BY ClockIsNat, RowExp DEF SessionsInv, Typed, TypeOK
<1>1. ASSUME NEW c \in Calls, Login(c) \/ Ask(c) \/ Read(c)
      PROVE  SessionsInv' /\ rows' = rows
  BY <1>1, LoginKeeps, AskKeeps, ReadKeeps DEF Login, Ask, Read
<1>2. ASSUME NEW c \in Calls, Open(c)
      PROVE  SessionsInv' /\ \A i \in Ids : rows[i] # None => rows'[i] = rows[i]
  <2>1. PICK id \in Fresh : rows' = [rows EXCEPT ![id] = Session(now + Lifetime, read[c])]
    BY <1>2 DEF Open
  <2>2. id \in Ids /\ rows[id] = None /\ rows \in [Ids -> Rows \cup {None}]
    BY FreshFacts DEF SessionsInv, Typed, TypeOK
  <2> QED
    BY <1>2, <2>1, <2>2, OpenKeeps
<1>3. ASSUME NEW c \in Calls, Expire(c)
      PROVE  SessionsInv' /\ \A i \in Ids : rows'[i] # None => rows'[i] = rows[i]
  BY <1>3, ExpireKeeps DEF Expire
<1>4. ASSUME NEW id \in Ids, Revoke(id)
      PROVE  SessionsInv' /\ \A i \in Ids : rows'[i] # None => rows'[i] = rows[i]
  BY <1>4, RevokeKeeps DEF Revoke, SessionsInv, Typed, TypeOK
<1>5. ASSUME NEW app \in Apps, RevokeApp(app)
      PROVE  SessionsInv' /\ \A i \in Ids : rows'[i] # None => rows'[i] = rows[i]
  BY <1>5, RevokeAppKeeps DEF RevokeApp
<1>6. ASSUME NEW app \in Apps, CreateApp(app) PROVE SessionsInv' /\ rows' = rows
  BY <1>6, CreateAppKeeps DEF CreateApp
<1>7. CASE Tick
  BY <1>0, <1>7, TickKeeps, SMT DEF Tick
<1>8. CASE UNCHANGED vars
  <2>1. UNCHANGED <<now, rows, apps, lock, pc, asked, read, at, used, handed, answers, ended, back>>
    BY <1>8 DEF vars
  <2> QED
    <3>1. Typed'
      BY <2>1 DEF SessionsInv, Typed, TypeOK, CallOK, RowOK, Reading
    <3>2. \A c \in Calls : Kept(c)' /\ Before(c)'
      BY <2>1 DEF SessionsInv, Kept, Before, Reading
    <3>3. Answered' /\ OneAnswer' /\ Chain' /\ (back' # {} => back' \cap ended' # {})
      BY <2>1 DEF SessionsInv, Answered, OneAnswer, Chain
    <3>4. \A i \in Ids : rows[i] # None => rows'[i].exp <= rows[i].exp
      BY <1>0, <2>1, NoLonger
    <3> QED
      BY <3>1, <3>2, <3>3, <3>4 DEF SessionsInv
<1> QED
  BY <1>0, <1>1, <1>2, <1>3, <1>4, <1>5, <1>6, <1>7, <1>8, RotateKeeps, SMT DEF Next, Works

\* Between reading a row and writing it a call knows what else may have become
\* of it (SessionsInv): the fact the loop in rotate rests on.
THEOREM SessionsInvariance == Spec => []SessionsInv
<1>1. Init => SessionsInv
  BY SessionsInit
<1>2. SessionsInv /\ [Next]_vars => SessionsInv'
  BY SessionsStep
<1> QED
  BY <1>1, <1>2, PTL DEF Spec

\* However many servers, retries and sign-outs there are, every exchange of a
\* token arrives at the successor its row names (rotate of account.rs and of
\* store/accounts.rs); a row comes back only where one was signed out of.
THEOREM SuccessorIsOne == Spec => []OneSuccessor
<1>1. SessionsInv => OneSuccessor
  BY DEF SessionsInv, Typed, OneAnswer, Chain, OneSuccessor
<1> QED
  BY <1>1, SessionsInvariance, PTL

\* No exchange lengthens the token it is made with, whatever another server did
\* since the row was read (rotate, account.rs 1897-1899).
THEOREM ExchangeNeverLengthens == Spec => NeverLengthened
<1>1. SessionsInv /\ [Next]_vars =>
        [\A i \in Ids \ back' : rows[i] # None /\ rows'[i] # None => rows'[i].exp <= rows[i].exp]_vars
  BY SessionsStep
<1> QED
  BY <1>1, SessionsInvariance, PTL DEF Spec, NeverLengthened

-----------------------------------------------------------------------------
(* What the rows say of the app passwords. *)

\* The password a session was opened with is its successors' too, in the rows
\* and in what a call carries between them.
Inherited(f) ==
  /\ \A i \in Ids : rows[i] # None =>
       rows[i].app = f[i] /\ (rows[i].next # None => f[rows[i].next] = f[i])
  /\ \A c \in Calls : Reading(c) =>
       read[c].app = f[asked[c]] /\ (read[c].next # None => f[read[c].next] = f[asked[c]])

\* A session is there only while its password is, and lasts no longer than one
\* opened now.
Standing ==
  \A i \in Ids : rows[i] # None =>
    /\ ~crossed => rows[i].app \in apps \cup {None}
    /\ rows[i].exp <= now + Lifetime

RowsInv ==
  /\ SessionsInv
  /\ \E f \in [Ids -> Apps \cup {None}] : Inherited(f)
  /\ Standing

\* A row that stays is as it was or shorter, unless it came back.
Older ==
  /\ used \subseteq used' /\ handed \subseteq handed' /\ back \subseteq back'
  /\ \A i \in used \ back' : rows'[i] # None => rows[i] # None /\ rows'[i].exp <= rows[i].exp

\* Where no row is written, and a call carries on or has read a row.
LEMMA NothingWritten ==
  ASSUME RowsInv, SessionsInv',
         \A i \in Ids : rows'[i] # None => rows'[i] = rows[i],
         \A c \in Calls : Reading(c)' =>
           \/ Reading(c) /\ read'[c] = read[c] /\ asked'[c] = asked[c]
           \/ asked'[c] \in Ids /\ read'[c] = rows[asked'[c]] /\ rows[asked'[c]] # None,
         now <= now', crossed' = crossed,
         \A i \in Ids : rows'[i] # None /\ rows[i].app \in apps => rows[i].app \in apps',
         UNCHANGED <<used, handed, back>>
  PROVE  RowsInv' /\ Older
<1>1. PICK f \in [Ids -> Apps \cup {None}] : Inherited(f)
  BY DEF RowsInv
<1>2. Inherited(f)'
  BY <1>1, SMT DEF Inherited
<1>3. now \in Int /\ now' \in Int /\ used \subseteq Ids /\ \A i \in Ids : rows[i] # None => rows[i].exp \in Int
  <2>1. now \in 0..MaxNow /\ used \subseteq Ids /\ rows \in [Ids -> Rows \cup {None}]
    BY DEF RowsInv, SessionsInv, Typed, TypeOK
  <2>2. now' \in 0..MaxNow
    BY DEF SessionsInv, Typed, TypeOK
  <2>3. \A i \in Ids : rows[i] # None => rows[i] \in Rows
    BY <2>1
  <2> QED
    BY <2>1, <2>2, <2>3, ClockIsNat, RowExp
<1>4. Standing'
  <2> SUFFICES ASSUME NEW i \in Ids, rows'[i] # None
               PROVE  (~crossed' => rows'[i].app \in apps' \cup {None}) /\ rows'[i].exp <= now' + Lifetime
    BY DEF Standing
  <2>1. ~crossed => rows[i].app \in apps \cup {None}
    BY DEF RowsInv, Standing
  <2>2. ~crossed' => rows'[i].app \in apps' \cup {None}
    BY <2>1
  <2>3. rows[i].exp <= now + Lifetime
    BY DEF RowsInv, Standing
  <2> QED
    BY <1>3, <2>2, <2>3, Numbers, SMT
<1>5. Older
  BY <1>3, SMT DEF Older
<1> QED
  BY <1>1, <1>2, <1>4, <1>5 DEF RowsInv

\* A sign-in's session has its own password, and no other names it.
LEMMA OpenStands ==
  ASSUME RowsInv, NEW c \in Calls, Open(c) PROVE RowsInv' /\ Older
<1>0. /\ SessionsInv /\ SessionsInv' /\ rows \in [Ids -> Rows \cup {None}] /\ used \subseteq Ids /\ now \in 0..MaxNow
      /\ CallTypes /\ \A i \in Ids : rows[i] # None => rows[i].exp \in Int
  BY OpenKeeps, ClockIsNat, RowExp DEF RowsInv, SessionsInv, Typed, TypeOK, CallTypes
<1>1. PICK id \in Fresh :
        /\ rows' = [rows EXCEPT ![id] = Session(now + Lifetime, read[c])]
        /\ used' = used \cup {id}
        /\ handed' = handed \cup {id}
  BY DEF Open
<1>2. /\ UNCHANGED <<now, apps, asked, back>>
      /\ pc' = [pc EXCEPT ![c] = "done"] /\ read' = [read EXCEPT ![c] = None]
  BY DEF Open
<1>3. read[c] \in Apps \cup {None} /\ now + Lifetime \in 0..(MaxNow + Lifetime)
  BY <1>0, ClockIsNat DEF SessionsInv, Typed, CallOK, Open
<1> DEFINE new == Session(now + Lifetime, read[c])
<1>4. id \in Ids /\ id \notin used /\ rows[id] = None
  BY <1>0, FreshFacts
<1>5. new.exp = now + Lifetime /\ new.next = None /\ new.app = read[c]
  BY <1>3, SessionIsARow, SMT
<1>6. rows'[id] = new /\ \A i \in Ids : i # id => rows'[i] = rows[i]
  BY <1>0, <1>1, <1>4
<1> HIDE DEF new
<1>7. PICK f \in [Ids -> Apps \cup {None}] : Inherited(f)
  BY DEF RowsInv
<1>8. PICK g \in [Ids -> Apps \cup {None}] : g[id] = read[c] /\ \A i \in used : g[i] = f[i]
  <2>1. [f EXCEPT ![id] = read[c]] \in [Ids -> Apps \cup {None}]
    BY <1>3
  <2> QED
    BY <1>0, <1>4, <2>1
<1>9. Inherited(g)'
  <2>1. ASSUME NEW i \in Ids, rows'[i] # None
        PROVE  rows'[i].app = g[i] /\ (rows'[i].next # None => g[rows'[i].next] = g[i])
    <3>1. CASE i = id
      BY <1>5, <1>6, <1>8, <3>1
    <3>2. CASE i # id
      <4>1. rows'[i] = rows[i] /\ i \in used /\ (rows[i].next # None => rows[i].next \in used)
        BY <1>0, <1>6, <2>1, <3>2 DEF SessionsInv, Typed, RowOK
      <4> QED
        BY <1>7, <1>8, <2>1, <4>1, SMT DEF Inherited
    <3> QED
      BY <3>1, <3>2
  <2>2. ASSUME NEW d \in Calls, Reading(d)'
        PROVE  read'[d].app = g[asked'[d]] /\ (read'[d].next # None => g[read'[d].next] = g[asked'[d]])
    <3>1. d # c /\ Reading(d) /\ read'[d] = read[d] /\ asked'[d] = asked[d]
      BY <1>0, <1>2, <2>2 DEF Reading, CallTypes
    <3>2. asked[d] \in used /\ (read[d].next # None => read[d].next \in used)
      BY <1>0, <3>1 DEF SessionsInv, Typed, CallOK, Reading
    <3> QED
      BY <1>7, <1>8, <3>1, <3>2, SMT DEF Inherited
  <2> QED
    BY <2>1, <2>2 DEF Inherited
<1>10. Standing'
  <2> SUFFICES ASSUME NEW i \in Ids, rows'[i] # None
               PROVE  (~crossed' => rows'[i].app \in apps' \cup {None}) /\ rows'[i].exp <= now' + Lifetime
    BY DEF Standing
  <2>1. (~crossed' => ~crossed /\ read[c] \in apps \cup {None})
    BY DEF Open
  <2>2. CASE i = id
    BY <1>0, <1>2, <1>3, <1>5, <1>6, <2>1, <2>2, SMT
  <2>3. CASE i # id
    BY <1>2, <1>6, <2>1, <2>3 DEF RowsInv, Standing
  <2> QED
    BY <2>2, <2>3
<1>11. Older
  BY <1>0, <1>1, <1>2, <1>4, <1>6, SMT DEF Older
<1> QED
  BY <1>0, <1>8, <1>9, <1>10, <1>11 DEF RowsInv

\* An exchange's successor has the password of the row it succeeds, which is
\* there as it is written.
LEMMA RotateStands ==
  ASSUME RowsInv, NEW c \in Calls, Rotate(c) PROVE RowsInv' /\ Older
<1>0. /\ SessionsInv /\ SessionsInv' /\ rows \in [Ids -> Rows \cup {None}] /\ used \subseteq Ids /\ now \in 0..MaxNow
      /\ CallTypes /\ \A i \in Ids : rows[i] # None => rows[i].exp \in Int
      /\ crossed' = crossed
  <2>1. SessionsInv /\ SessionsInv' /\ crossed' = crossed
    BY RotateKeeps DEF RowsInv, Rotate
  <2>2. rows \in [Ids -> Rows \cup {None}] /\ used \subseteq Ids /\ now \in 0..MaxNow /\ CallTypes
    BY <2>1 DEF SessionsInv, Typed, TypeOK, CallTypes
  <2>3. \A i \in Ids : rows[i] # None => rows[i].exp \in Int
    BY <2>2, Numbers, SMT DEF Rows
  <2> QED BY <2>1, <2>2, <2>3
<1>1. CASE /\ pc' = [pc EXCEPT ![c] = "read"]
           /\ read' = [read EXCEPT ![c] = None]
           /\ at' = [at EXCEPT ![c] = 0]
           /\ UNCHANGED <<rows, used, back, answers, handed, lock, asked, now, apps, ended>>
  <2>1. \A d \in Calls : Reading(d)' => Reading(d) /\ read'[d] = read[d] /\ asked'[d] = asked[d]
    BY <1>0, <1>1 DEF Reading, CallTypes
  <2>2. now <= now' /\ UNCHANGED <<rows, apps, used, handed, back>>
    BY <1>0, <1>1, SMT
  <2> QED
    BY <1>0, <2>1, <2>2, NothingWritten
<1>2. ASSUME NEW next, Exchanging(c, next), Exchanged(c, next) PROVE RowsInv' /\ Older
  <2> DEFINE id == asked[c]
             left == Left(c, next)
             new == Successor(read[c], at[c])
  <2>1. /\ id \in Ids /\ id \in used /\ rows[id] \in Rows /\ rows[id] # None
        /\ read[c] \in Rows /\ at[c] \in 0..now /\ next \in Ids
        /\ IF read[c].next # None THEN next = read[c].next /\ next \in used
           ELSE next \notin used /\ rows[next] = None
    BY <1>0, <1>2, RowAsRead
  <2>2. /\ left.app = rows[id].app /\ left.next = next
        /\ left.exp <= now + Lifetime /\ left.exp \in Int
    <3>1. read[c].exp \in Nat /\ at[c] \in Nat /\ at[c] <= now /\ now \in Nat
      BY <1>0, <2>1, Numbers, SMT DEF Rows
    <3>2. Until(read[c].exp, at[c]) \in Nat /\ Until(read[c].exp, at[c]) <= at[c] + Grace
      BY <3>1, UntilFacts
    <3>3. left.exp = Until(read[c].exp, at[c]) /\ left.next = next /\ left.app = rows[id].app
      BY DEF Left
    <3> HIDE DEF left
    <3> QED
      BY <3>1, <3>2, <3>3, Numbers, SMT
  <2>3. new.app = read[c].app /\ new.next = None /\ new.exp <= now + Lifetime
    BY <1>0, <2>1, Numbers, SMT DEF Successor, Session
  <2>4. /\ used' = used \cup {next} /\ handed' = handed \cup {next}
        /\ back' = IF rows[next] = None /\ next \in used THEN back \cup {next} ELSE back
        /\ UNCHANGED <<now, apps>>
        /\ rows' = IF rows[next] # None THEN [rows EXCEPT ![id] = left]
                   ELSE [[rows EXCEPT ![id] = left] EXCEPT ![next] = new]
        /\ pc' = [pc EXCEPT ![c] = "done"] /\ asked' = [asked EXCEPT ![c] = None] /\ read' = [read EXCEPT ![c] = None]
    BY <1>2 DEF Exchanged, Return
  <2> HIDE DEF left, new
  <2>5. /\ \A i \in Ids : i \notin {id, next} => rows'[i] = rows[i]
        /\ rows[next] # None => rows'[id] = left /\ (next # id => rows'[next] = rows[next])
        /\ rows[next] = None => rows'[next] = new /\ next # id /\ rows'[id] = left
    BY <1>0, <2>1, <2>4
  <2>6. PICK f \in [Ids -> Apps \cup {None}] : Inherited(f)
    BY DEF RowsInv
  <2>7. Reading(c) /\ rows[id].app = f[id] /\ read[c].app = f[id] /\ (read[c].next # None => f[read[c].next] = f[id])
    BY <1>2, <2>1, <2>6 DEF Inherited, Reading, Exchanging
  <2>8. PICK g \in [Ids -> Apps \cup {None}] : g[next] = f[id] /\ \A i \in used : g[i] = f[i]
    <3>1. [f EXCEPT ![next] = f[id]] \in [Ids -> Apps \cup {None}]
      BY <2>1
    <3> QED
      BY <1>0, <2>1, <2>7, <3>1
  <2> HIDE DEF id
  <2>9. Inherited(g)'
    <3>1. ASSUME NEW i \in Ids, rows'[i] # None
          PROVE  rows'[i].app = g[i] /\ (rows'[i].next # None => g[rows'[i].next] = g[i])
      <4>1. CASE rows'[i] = rows[i]
        <5>1. i \in used /\ (rows[i].next # None => rows[i].next \in used)
          BY <1>0, <3>1, <4>1 DEF SessionsInv, Typed, RowOK
        <5> QED
          BY <2>6, <2>8, <3>1, <4>1, <5>1, SMT DEF Inherited
      <4>2. CASE i = id /\ rows'[i] = left
        BY <2>1, <2>2, <2>7, <2>8, <4>2
      <4>3. CASE i = next /\ rows'[i] = new
        BY <2>3, <2>7, <2>8, <4>3
      <4> QED
        BY <2>5, <4>1, <4>2, <4>3
    <3>2. ASSUME NEW d \in Calls, Reading(d)'
          PROVE  read'[d].app = g[asked'[d]] /\ (read'[d].next # None => g[read'[d].next] = g[asked'[d]])
      <4>1. d # c /\ Reading(d) /\ read'[d] = read[d] /\ asked'[d] = asked[d]
        BY <1>0, <2>4, <3>2 DEF Reading, CallTypes
      <4>2. asked[d] \in used /\ (read[d].next # None => read[d].next \in used)
        BY <1>0, <4>1 DEF SessionsInv, Typed, CallOK, Reading
      <4> QED
        BY <2>6, <2>8, <4>1, <4>2, SMT DEF Inherited
    <3> QED
      BY <3>1, <3>2 DEF Inherited
  <2>10. Standing'
    <3> SUFFICES ASSUME NEW i \in Ids, rows'[i] # None
                 PROVE  (~crossed' => rows'[i].app \in apps' \cup {None}) /\ rows'[i].exp <= now' + Lifetime
      BY DEF Standing
    <3>1. ~crossed' => ~crossed
      BY <1>0
    <3>2. ~crossed => rows[id].app \in apps \cup {None}
      BY <2>1 DEF RowsInv, Standing
    <3>3. CASE rows'[i] = rows[i]
      BY <2>4, <3>1, <3>3 DEF RowsInv, Standing
    <3>4. CASE rows'[i] \in {left, new}
      BY <2>2, <2>3, <2>4, <2>7, <3>1, <3>2, <3>4
    <3> QED
      BY <2>5, <3>3, <3>4
  <2>11. Older
    <3>1. \A i \in Ids \ back' : rows[i] # None /\ rows'[i] # None => rows'[i].exp <= rows[i].exp
      BY <1>0, RotateKeeps
    <3>2. \A i \in used \ back' : rows'[i] # None => rows[i] # None
      BY <1>0, <2>1, <2>4, <2>5
    <3> QED
      BY <1>0, <2>4, <3>1, <3>2 DEF Older
  <2> QED
    BY <1>0, <2>9, <2>10, <2>11 DEF RowsInv
<1> QED
  BY <1>1, <1>2, RotateCases

LEMMA RowsStep ==
  ASSUME RowsInv, [Next]_vars PROVE RowsInv' /\ Older
<1>0. /\ SessionsInv /\ SessionsInv' /\ CallTypes /\ now \in Nat /\ rows \in [Ids -> Rows \cup {None}]
      /\ \A c \in Calls : pc[c] \in {"read", "expire", "rotate"} => asked[c] \in Ids
  <2>1. SessionsInv /\ SessionsInv'
    BY SessionsStep DEF RowsInv
  <2>2. CallTypes /\ now \in Nat /\ rows \in [Ids -> Rows \cup {None}]
    BY <2>1, Numbers, SMT DEF SessionsInv, Typed, TypeOK, CallTypes
  <2>3. \A c \in Calls : pc[c] \in {"read", "expire", "rotate"} => asked[c] \in Ids
    BY <2>1 DEF SessionsInv, Typed, TypeOK, CallOK
  <2> QED
    BY <2>1, <2>2, <2>3
<1>1. ASSUME NEW c \in Calls, Login(c) \/ Ask(c)
      PROVE  RowsInv' /\ Older
  <2>1. \A d \in Calls : Reading(d)' => Reading(d) /\ read'[d] = read[d] /\ asked'[d] = asked[d]
    BY <1>0, <1>1 DEF Login, Ask, Reading, CallTypes
  <2>2. UNCHANGED <<now, rows, apps, used, handed, back, crossed>>
    BY <1>1 DEF Login, Ask
  <2> QED
    BY <1>0, <2>1, <2>2, NothingWritten, SMT
<1>2. ASSUME NEW c \in Calls, Read(c) PROVE RowsInv' /\ Older
  <2>1. \A d \in Calls : Reading(d)' =>
          \/ Reading(d) /\ read'[d] = read[d] /\ asked'[d] = asked[d]
          \/ asked'[d] \in Ids /\ read'[d] = rows[asked'[d]] /\ rows[asked'[d]] # None
    BY <1>0, <1>2, SMT DEF Read, Return, Reading, CallTypes
  <2>2. UNCHANGED <<now, rows, apps, used, handed, back, crossed>>
    BY <1>2 DEF Read
  <2> QED
    BY <1>0, <2>1, <2>2, NothingWritten, SMT
<1>3. ASSUME NEW c \in Calls, Expire(c) PROVE RowsInv' /\ Older
  <2>1. \A d \in Calls : Reading(d)' => Reading(d) /\ read'[d] = read[d] /\ asked'[d] = asked[d]
    BY <1>0, <1>3, SMT DEF Expire, Return, Reading, CallTypes
  <2>2. /\ UNCHANGED <<now, apps, used, handed, back, crossed>>
        /\ \A i \in Ids : rows'[i] # None => rows'[i] = rows[i]
    BY <1>3 DEF Expire
  <2> QED
    BY <1>0, <2>1, <2>2, NothingWritten, SMT
<1>4. ASSUME NEW id \in Ids, Revoke(id) PROVE RowsInv' /\ Older
  <2>1. UNCHANGED <<now, apps, used, handed, back, crossed, pc, asked, read>>
    BY <1>4 DEF Revoke, call
  <2>2. \A i \in Ids : rows'[i] # None => rows'[i] = rows[i]
    BY <1>0, <1>4 DEF Revoke
  <2> QED
    BY <1>0, <2>1, <2>2, NothingWritten, SMT DEF Reading
<1>5. ASSUME NEW app \in Apps, RevokeApp(app) PROVE RowsInv' /\ Older
  <2>1. UNCHANGED <<now, used, handed, back, crossed, pc, asked, read>>
    BY <1>5 DEF RevokeApp, call
  <2>2. \A i \in Ids : rows'[i] # None => rows'[i] = rows[i] /\ rows[i].app # app
    BY <1>5 DEF RevokeApp
  <2>3. apps' = apps \ {app}
    BY <1>5 DEF RevokeApp
  <2> QED
    BY <1>0, <2>1, <2>2, <2>3, NothingWritten, SMT DEF Reading
<1>6. ASSUME NEW app \in Apps, CreateApp(app) PROVE RowsInv' /\ Older
  <2>1. UNCHANGED <<now, rows, used, handed, back, crossed, pc, asked, read>> /\ apps \subseteq apps'
    BY <1>6 DEF CreateApp, call
  <2> QED
    BY <1>0, <2>1, NothingWritten, SMT DEF Reading
<1>7. CASE Tick
  <2>1. UNCHANGED <<rows, apps, used, handed, back, crossed, pc, asked, read>> /\ now <= now'
    BY <1>0, <1>7, SMT DEF Tick, call
  <2> QED
    BY <1>0, <2>1, NothingWritten DEF Reading
<1>8. CASE UNCHANGED vars
  <2>1. UNCHANGED <<now, rows, apps, used, handed, back, crossed, pc, asked, read>>
    BY <1>8 DEF vars
  <2> QED
    BY <1>0, <2>1, NothingWritten, SMT DEF Reading
<1> QED
  BY <1>1, <1>2, <1>3, <1>4, <1>5, <1>6, <1>7, <1>8, OpenStands, RotateStands DEF Next, Works

-----------------------------------------------------------------------------
(* The methods in front of the rows. *)

LEMMA AccessStepIsAStep ==
  ASSUME SessionsInv, [AccessNext]_allVars PROVE [Next]_vars
<1>1. ASSUME NEW c \in Calls, SignsIn(c) \/ Exchanges(c) \/ Rotates(c) \/ Mint(c) PROVE [Next]_vars
  BY <1>1 DEF SignsIn, Exchanges, Rotates, Mint, Next
<1>2. CASE DeletesSession
  <2>1. PICK id : Revoke(id)
    BY <1>2 DEF DeletesSession
  <2>2. id \in Ids
    BY <2>1 DEF Revoke, SessionsInv, Typed, TypeOK
  <2> QED
    BY <2>1, <2>2 DEF Next
<1>3. CASE CreatesAppPassword \/ RevokesAppPassword
  BY <1>3 DEF CreatesAppPassword, RevokesAppPassword, Next
<1>4. CASE Tick
  BY <1>4 DEF Next
<1>5. CASE UNCHANGED allVars
  BY <1>5 DEF allVars
<1> QED
  BY <1>1, <1>2, <1>3, <1>4, <1>5 DEF AccessNext

\* The methods in front of the rows (server/session.rs, server/app_password.rs)
\* take no step the rows do not: every behaviour of Access is one of Sessions.
THEOREM AccessImplementsSessions == AccessSpec => Spec
<1>1. AccessInit => Init /\ SessionsInv
  BY SessionsInit DEF AccessInit
<1>2. SessionsInv /\ [AccessNext]_allVars => [Next]_vars
  BY AccessStepIsAStep
<1>3. SessionsInv /\ [Next]_vars => SessionsInv'
  BY SessionsStep
<1> QED
  BY <1>1, <1>2, <1>3, PTL DEF AccessSpec, Spec

-----------------------------------------------------------------------------
(* What the tokens say of the rows. *)

\* An access token has a row nowhere: once its app password is gone it runs out
\* by itself, unless a call was to answer with it then.
Outlived(t) ==
  t.app \in Apps \ apps /\ gone[t.app] # None =>
    t.exp <= Seconds(gone[t.app] + AccessLifetime) \/ t.app \in late \/ crossed

\* A token handed out.  A refresh token runs out no sooner than its row.
TokenOK(t) ==
  /\ t.aud = "here" /\ t.service = FALSE /\ t.exp \in Int /\ t.app \in Apps \cup {None}
  /\ \/ t.typ = "at+jwt" /\ t.scope = ScopeOf(t.app) /\ t.exp <= Seconds(now + AccessLifetime) /\ Outlived(t)
     \/ /\ t.typ = "refresh+jwt" /\ t.scope = "refresh" /\ t.jti \in handed
        /\ rows[t.jti] # None /\ t.jti \notin back => Seconds(rows[t.jti].exp) <= t.exp

\* A session a call is to answer with.
DueOK(c) ==
  due[c] # None =>
    /\ due[c] \in [id : handed, app : Apps \cup {None}]
    /\ due[c].app \in Apps \ apps => due[c].app \in late \/ crossed

AccessInv ==
  /\ RowsInv
  /\ due = [c \in Calls |-> due[c]]
  /\ gone \in [Apps -> (0..now) \cup {None}]
  /\ \A c \in Calls : DueOK(c)
  /\ \A t \in tokens : TokenOK(t)

LEMMA SecondsFacts ==
  ASSUME NEW a \in Int, NEW b \in Int
  PROVE  /\ Seconds(a) \in Int
         /\ a <= b => Seconds(a) <= Seconds(b)
         /\ a + Second <= b => Seconds(a) < Seconds(b)
BY AccessAssumption, SMT DEF Seconds

LEMMA ScopeFacts ==
  ASSUME NEW app \in Apps \cup {None}
  PROVE  ScopeOf(app) \in STANDARD /\ (ScopeOf(app) = "access" => app = None)
BY AccessAssumption DEF ScopeOf, STANDARD

\* What a step may do to the app passwords and to what is due.
LEMMA TokensStand ==
  ASSUME AccessInv, RowsInv', Older, now <= now', late \subseteq late', crossed => crossed',
         due' = [c \in Calls |-> due'[c]],
         gone' \in [Apps -> (0..now') \cup {None}],
         \A app \in Apps : gone'[app] = IF app \in apps \ apps' THEN now ELSE gone[app],
         \A c \in Calls :
           \/ due'[c] = due[c] /\ (due[c] # None /\ due[c].app \in apps \ apps' => due[c].app \in late')
           \/ DueOK(c)',
         \A t \in tokens' \ tokens : TokenOK(t)'
  PROVE  AccessInv'
<1>0. /\ now \in Nat /\ now' \in Nat /\ handed \subseteq Ids /\ handed \subseteq used
      /\ \A i \in Ids : rows[i] # None => rows[i].exp \in Int
      /\ \A i \in Ids : rows'[i] # None => rows'[i].exp \in Int
  BY ClockIsNat, RowExp DEF AccessInv, RowsInv, SessionsInv, Typed, TypeOK
<1>1. ASSUME NEW c \in Calls PROVE DueOK(c)'
  <2>1. DueOK(c)
    BY DEF AccessInv
  <2> QED
    BY <2>1 DEF DueOK, Older
<1>2. ASSUME NEW t \in tokens PROVE TokenOK(t)'
  <2>0. TokenOK(t)
    BY DEF AccessInv
  <2>1. CASE t.typ = "at+jwt" /\ t.scope = ScopeOf(t.app) /\ t.exp <= Seconds(now + AccessLifetime) /\ Outlived(t)
    <3>1. Seconds(now + AccessLifetime) <= Seconds(now' + AccessLifetime) /\ t.exp \in Int
          /\ Seconds(now + AccessLifetime) \in Int /\ Seconds(now' + AccessLifetime) \in Int
      BY <1>0, <2>0, SecondsFacts, AccessAssumption, SMT DEF TokenOK
    <3>2. ASSUME t.app \in Apps \ apps', gone'[t.app] # None
          PROVE  t.exp <= Seconds(gone'[t.app] + AccessLifetime) \/ t.app \in late' \/ crossed'
      <4>1. CASE t.app \in apps
        BY <2>1, <3>2, <4>1
      <4>2. CASE t.app \notin apps
        BY <2>1, <3>2, <4>2 DEF Outlived
      <4> QED
        BY <4>1, <4>2
    <3>3. Outlived(t)'
      BY <3>2 DEF Outlived
    <3> QED
      BY <2>0, <2>1, <3>1, <3>3, SMT DEF TokenOK
  <2>2. CASE /\ t.typ = "refresh+jwt" /\ t.scope = "refresh" /\ t.jti \in handed
             /\ rows[t.jti] # None /\ t.jti \notin back => Seconds(rows[t.jti].exp) <= t.exp
    <3>1. ASSUME rows'[t.jti] # None, t.jti \notin back' PROVE Seconds(rows'[t.jti].exp) <= t.exp
      <4>1. rows[t.jti] # None /\ rows'[t.jti].exp <= rows[t.jti].exp /\ t.jti \notin back /\ t.jti \in Ids
        BY <1>0, <2>2, <3>1 DEF Older
      <4>2. Seconds(rows'[t.jti].exp) <= Seconds(rows[t.jti].exp)
            /\ Seconds(rows[t.jti].exp) \in Int /\ Seconds(rows'[t.jti].exp) \in Int
        BY <1>0, <3>1, <4>1, SecondsFacts
      <4> QED
        BY <2>0, <2>2, <4>1, <4>2, SMT DEF TokenOK
    <3> QED
      BY <2>0, <2>2, <3>1 DEF TokenOK, Older
  <2> QED
    BY <2>0, <2>1, <2>2 DEF TokenOK
<1> QED
  BY <1>1, <1>2 DEF AccessInv

\* A session's tokens, as they are minted.
LEMMA PairOK ==
  ASSUME AccessInv, NEW s \in [id : handed, app : Apps \cup {None}], NEW t \in Pair(s),
         s.app \in Apps \ apps => s.app \in late \/ crossed
  PROVE  TokenOK(t)
<1>0. now \in Nat /\ handed \subseteq Ids /\ s.id \in handed /\ s.app \in Apps \cup {None}
  BY ClockIsNat, RowExp DEF AccessInv, RowsInv, SessionsInv, Typed, TypeOK
<1>1. CASE t = Token("at+jwt", ScopeOf(s.app), None, AccessLifetime, s.app)
  <2>1. /\ t.typ = "at+jwt" /\ t.scope = ScopeOf(s.app) /\ t.aud = "here" /\ t.service = FALSE
        /\ t.exp = Seconds(now + AccessLifetime) /\ t.app = s.app
    BY <1>1 DEF Token
  <2> QED
    BY <1>0, <2>1, SecondsFacts, AccessAssumption, SMT DEF TokenOK, Outlived
<1>2. CASE t = Token("refresh+jwt", "refresh", s.id, Lifetime, s.app)
  <2>1. /\ t.typ = "refresh+jwt" /\ t.scope = "refresh" /\ t.aud = "here" /\ t.service = FALSE
        /\ t.exp = Seconds(now + Lifetime) /\ t.app = s.app /\ t.jti = s.id
    BY <1>2 DEF Token
  <2>2. ASSUME rows[s.id] # None PROVE Seconds(rows[s.id].exp) <= Seconds(now + Lifetime)
    <3>1. rows[s.id].exp \in Int /\ rows[s.id].exp <= now + Lifetime
      <4>1. s.id \in Ids /\ rows[s.id] \in Rows
        BY <1>0, <2>2 DEF AccessInv, RowsInv, SessionsInv, Typed, TypeOK
      <4> QED
        BY <2>2, <4>1, RowExp DEF AccessInv, RowsInv, Standing
    <3> QED
      BY <1>0, <3>1, SecondsFacts, Numbers, SMT
  <2>3. t.exp \in Int
    BY <1>0, <2>1, SecondsFacts, Numbers, SMT
  <2> QED
    BY <1>0, <2>1, <2>2, <2>3 DEF TokenOK
<1> QED
  BY <1>1, <1>2 DEF Pair

LEMMA AccessStep ==
  ASSUME AccessInv, [AccessNext]_allVars PROVE AccessInv'
<1>0. RowsInv' /\ Older
  BY AccessStepIsAStep, RowsStep DEF AccessInv, RowsInv
<1>1. /\ now \in Nat /\ now' \in Nat /\ apps \subseteq Apps /\ used \subseteq Ids /\ handed' \subseteq used'
      /\ due = [c \in Calls |-> due[c]] /\ gone \in [Apps -> (0..now) \cup {None}]
      /\ \A c \in Calls : DueOK(c) /\ CallOK(c)
  BY <1>0, ClockIsNat, RowExp DEF AccessInv, RowsInv, SessionsInv, Typed, TypeOK
<1>2. ASSUME UNCHANGED accessVars, now <= now', apps \subseteq apps', crossed' = crossed
      PROVE  AccessInv'
  <2>1. due' = due /\ gone' = gone /\ late' = late /\ tokens' = tokens
    BY <1>2 DEF accessVars
  <2>2. gone' \in [Apps -> (0..now') \cup {None}]
    BY <1>1, <1>2, <2>1, SMT
  <2> QED
    BY <1>0, <1>1, <1>2, <2>1, <2>2, TokensStand
<1>3. ASSUME NEW c \in Calls, UNCHANGED <<now, apps, tokens, gone, late>>, crossed => crossed',
             NEW s, due' = [due EXCEPT ![c] = s], s \in [id : handed', app : Apps \cup {None}],
             s.app \in Apps \ apps => crossed'
      PROVE  AccessInv'
  <2>1. due' = [d \in Calls |-> due'[d]] /\ due'[c] = s /\ \A d \in Calls \ {c} : due'[d] = due[d]
    BY <1>1, <1>3
  <2>2. DueOK(c)'
    BY <1>3, <2>1 DEF DueOK
  <2> QED
    BY <1>0, <1>1, <1>3, <2>1, <2>2, TokensStand, SMT
<1>4. ASSUME NEW c \in Calls, SignsIn(c) PROVE AccessInv'
  <2>1. CASE Login(c) /\ UNCHANGED accessVars
    BY <1>1, <1>2, <2>1, SMT DEF Login
  <2>2. CASE /\ Open(c) /\ UNCHANGED <<tokens, gone, late>>
             /\ \E id \in used' \ used : due' = [due EXCEPT ![c] = [id |-> id, app |-> read[c]]]
    <3>1. PICK id \in used' \ used : due' = [due EXCEPT ![c] = [id |-> id, app |-> read[c]]]
      BY <2>2
    <3>2. id \in handed' /\ UNCHANGED <<now, apps>>
      BY <2>2 DEF Open
    <3>3. read[c] \in Apps \cup {None}
      BY <1>1, <2>2 DEF CallOK, Open
    <3>4. (crossed => crossed') /\ (read[c] \in Apps \ apps => crossed')
      <4>1. crossed' = (crossed \/ read[c] \notin apps \cup {None})
        BY <2>2 DEF Open
      <4> QED
        BY <4>1, Numbers
    <3> QED
      BY <1>3, <2>2, <3>1, <3>2, <3>3, <3>4
  <2> QED
    BY <1>4, <2>1, <2>2 DEF SignsIn
<1>5. ASSUME NEW c \in Calls, Exchanges(c) PROVE AccessInv'
  BY <1>1, <1>2, <1>5, SMT DEF Exchanges, Ask
<1>6. ASSUME NEW c \in Calls, Rotates(c) PROVE AccessInv'
  <2>0. UNCHANGED <<now, apps, crossed, tokens, gone, late>>
    BY <1>6 DEF Rotates, Works, Read, Expire, Rotate
  <2>1. CASE UNCHANGED due
    BY <1>1, <1>2, <2>0, <2>1, SMT DEF accessVars
  <2>2. CASE pc[c] = "rotate" /\ pc'[c] = "done"
    <3>1. Rotate(c)
      BY <1>6, <2>2 DEF Rotates, Works, Read, Expire
    <3>2. PICK next : Exchanging(c, next) /\ Exchanged(c, next)
      <4>1. pc \in [Calls -> {"idle", "open", "read", "expire", "rotate", "done"}]
        BY DEF AccessInv, RowsInv, SessionsInv, Typed
      <4> QED
        BY <2>2, <3>1, <4>1, RotateCases
    <3>3. PICK id \in IF read[c].next # None THEN {read[c].next} ELSE used' \ used :
            due' = [due EXCEPT ![c] = [id |-> id, app |-> read[c].app]]
      BY <1>6, <2>2 DEF Rotates
    <3>4. id = next /\ next \in handed'
      BY <3>2, <3>3 DEF Exchanging, Exchanged, Fresh
    <3>5. /\ read[c] \in Rows /\ asked[c] \in Ids /\ rows[asked[c]] # None
      BY <3>2, RowAsRead DEF AccessInv, RowsInv
    <3>6. read[c].app = rows[asked[c]].app
      BY <3>2, <3>5 DEF AccessInv, RowsInv, Inherited, Reading, Exchanging
    <3>7. read[c].app \in Apps \cup {None} /\ (read[c].app \in Apps \ apps => crossed')
      <4>1. ~crossed => read[c].app \in apps \cup {None}
        BY <3>5, <3>6 DEF AccessInv, RowsInv, Standing
      <4>2. read[c].app \in Apps \cup {None}
        BY <3>5 DEF Rows
      <4>3. ~crossed' => read[c].app \in apps \cup {None}
        BY <2>0, <4>1
      <4> QED
        BY <4>2, <4>3, Numbers
    <3> QED
      BY <1>3, <2>0, <3>3, <3>4, <3>7
  <2> QED
    BY <1>6, <2>1, <2>2 DEF Rotates
<1>7. ASSUME NEW c \in Calls, Mint(c) PROVE AccessInv'
  <2>0. UNCHANGED <<now, rows, apps, handed, crossed, back, gone, late>> /\ due[c] # None
    BY <1>7 DEF Mint, vars
  <2>1. due' = [due EXCEPT ![c] = None] /\ tokens' = tokens \cup Pair(due[c])
    BY <1>7 DEF Mint
  <2>2. due' = [d \in Calls |-> due'[d]] /\ due'[c] = None /\ \A d \in Calls \ {c} : due'[d] = due[d]
    BY <1>1, <2>1
  <2>3. DueOK(c)'
    BY <2>2 DEF DueOK
  <2>4. ASSUME NEW t \in tokens' \ tokens PROVE TokenOK(t)'
    <3>1. TokenOK(t)
      BY <1>1, <2>0, <2>1, PairOK DEF DueOK
    <3> QED
      BY <2>0, <3>1 DEF TokenOK, Outlived, Seconds
  <2>5. /\ now <= now' /\ late \subseteq late' /\ (crossed => crossed')
        /\ gone' \in [Apps -> (0..now') \cup {None}]
        /\ \A app \in Apps : gone'[app] = IF app \in apps \ apps' THEN now ELSE gone[app]
        /\ apps \ apps' = {}
    BY <1>1, <2>0, NoLonger
  <2> QED
    BY <1>0, <2>2, <2>3, <2>4, <2>5, TokensStand
<1>8. CASE RevokesAppPassword
  <2>1. PICK app \in Apps :
          /\ RevokeApp(app)
          /\ gone' = [gone EXCEPT ![app] = now]
          /\ late' = IF \E c \in Calls : due[c] # None /\ due[c].app = app THEN late \cup {app} ELSE late
    BY <1>8 DEF RevokesAppPassword
  <2>2. due' = due /\ tokens' = tokens /\ now' = now /\ crossed' = crossed /\ app \in apps /\ apps' = apps \ {app}
    BY <1>8, <2>1 DEF RevokesAppPassword, RevokeApp
  <2>3. gone' \in [Apps -> (0..now') \cup {None}] /\ \A a \in Apps : gone'[a] = IF a \in apps \ apps' THEN now ELSE gone[a]
    BY <1>1, <2>1, <2>2, SMT
  <2>4. late \subseteq late' /\ \A c \in Calls : due[c] # None /\ due[c].app \in apps \ apps' => due[c].app \in late'
    BY <2>1, <2>2
  <2>5. now <= now' /\ (crossed => crossed') /\ due' = [c \in Calls |-> due'[c]] /\ tokens' \ tokens = {}
    BY <1>1, <2>2, NoLonger
  <2>6. \A c \in Calls : due'[c] = due[c] /\ (due[c] # None /\ due[c].app \in apps \ apps' => due[c].app \in late')
    BY <2>2, <2>4
  <2> QED
    BY <1>0, <2>3, <2>4, <2>5, <2>6, TokensStand
<1>9. CASE DeletesSession \/ CreatesAppPassword \/ (Tick /\ UNCHANGED accessVars)
  <2>1. UNCHANGED accessVars
    BY <1>9 DEF DeletesSession, CreatesAppPassword
  <2>2. now <= now' /\ apps \subseteq apps' /\ crossed' = crossed
    BY <1>1, <1>9, SMT DEF DeletesSession, CreatesAppPassword, Tick, Revoke, CreateApp
  <2> QED
    BY <1>2, <2>1, <2>2
<1>10. CASE UNCHANGED allVars
  <2>1. UNCHANGED accessVars /\ apps \subseteq apps' /\ crossed' = crossed /\ now' = now
    BY <1>10 DEF allVars, vars
  <2> QED
    BY <1>1, <1>2, <2>1, NoLonger
<1> QED
  BY <1>4, <1>5, <1>6, <1>7, <1>8, <1>9, <1>10 DEF AccessNext

LEMMA AccessInvInit == AccessInit => AccessInv
<1> SUFFICES ASSUME AccessInit PROVE AccessInv
  OBVIOUS
<1>0. SessionsInv /\ Init
  BY SessionsInit DEF AccessInit
<1>1. PICK app \in Apps \cup {None} :
        /\ app \in apps \cup {None}
        /\ rows = [[i \in Ids |-> None] EXCEPT ![1] = [Session(Grace - 1, app) EXCEPT !.next = 2],
                                            ![2] = Session(Lifetime - 1, app)]
  BY <1>0 DEF Init
<1> DEFINE one == [exp |-> Grace - 1, next |-> 2, app |-> app]
           two == [exp |-> Lifetime - 1, next |-> None, app |-> app]
<1>2. rows = [i \in Ids |-> IF i = 1 THEN one ELSE IF i = 2 THEN two ELSE None]
  BY <1>1, Numbers, SMT DEF Session
<1>3. /\ now = 0 /\ handed = {1, 2} /\ 1 \in Ids /\ 2 \in Ids /\ \A i \in Ids : rows[i] # None => i \in {1, 2}
      /\ rows[1].exp = Grace - 1 /\ rows[1].next = 2 /\ rows[1].app = app
      /\ rows[2].exp = Lifetime - 1 /\ rows[2].next = None /\ rows[2].app = app
      /\ \A c \in Calls : ~Reading(c)
  BY <1>0, <1>2, Numbers, SMT DEF Init, Reading
<1>4. PICK f \in [Ids -> Apps \cup {None}] : \A i \in Ids : f[i] = app
  <2>1. [i \in Ids |-> app] \in [Ids -> Apps \cup {None}]
    OBVIOUS
  <2> QED
    BY <2>1
<1>5. Inherited(f)
  BY <1>3, <1>4 DEF Inherited
<1>6. Standing
  BY <1>1, <1>3, Numbers, SMT DEF Standing
<1>7. ASSUME NEW t \in tokens PROVE TokenOK(t)
  <2>0. PICK id \in handed :
          \E u \in Pair([id |-> id, app |-> rows[id].app]) :
            t = [u EXCEPT !.exp = Seconds((IF u.typ = "at+jwt" THEN AccessLifetime ELSE Lifetime) - 1)]
    BY <1>7, SMT DEF AccessInit
  <2>1. PICK u \in Pair([id |-> id, app |-> rows[id].app]) :
          t = [u EXCEPT !.exp = Seconds((IF u.typ = "at+jwt" THEN AccessLifetime ELSE Lifetime) - 1)]
    BY <2>0
  <2>2. rows[id].app = app /\ id \in {1, 2} /\ rows[id].exp <= Lifetime - 1 /\ rows[id].exp \in Int
    BY <1>3, Numbers, SMT
  <2>3. CASE u = Token("at+jwt", ScopeOf(app), None, AccessLifetime, app)
    <3>1. /\ t.typ = "at+jwt" /\ t.scope = ScopeOf(app) /\ t.aud = "here" /\ t.service = FALSE
          /\ t.exp = Seconds(AccessLifetime - 1) /\ t.app = app
      BY <2>1, <2>3 DEF Token
    <3>2. t.exp \in Int /\ t.exp <= Seconds(now + AccessLifetime)
      BY <1>3, <3>1, SecondsFacts, AccessAssumption, SMT
    <3> QED
      BY <1>1, <3>1, <3>2, Numbers DEF TokenOK, Outlived
  <2>4. CASE u = Token("refresh+jwt", "refresh", id, Lifetime, app)
    <3>1. /\ t.typ = "refresh+jwt" /\ t.scope = "refresh" /\ t.aud = "here" /\ t.service = FALSE
          /\ t.exp = Seconds(Lifetime - 1) /\ t.app = app /\ t.jti = id
      BY <2>1, <2>4 DEF Token
    <3>2. t.exp \in Int /\ Seconds(rows[id].exp) <= t.exp
      BY <2>2, <3>1, SecondsFacts, Numbers, SMT
    <3> QED
      BY <1>1, <3>1, <3>2 DEF TokenOK
  <2> QED
    BY <2>1, <2>2, <2>3, <2>4 DEF Pair
<1> QED
  BY <1>0, <1>3, <1>4, <1>5, <1>6, <1>7 DEF AccessInit, AccessInv, RowsInv, DueOK

LEMMA AccessInvariance == AccessSpec => []AccessInv
<1>1. AccessInit => AccessInv
  BY AccessInvInit
<1>2. AccessInv /\ [AccessNext]_allVars => AccessInv'
  BY AccessStep
<1> QED
  BY <1>1, <1>2, PTL DEF AccessSpec

\* What a request carries that an extractor lets through was handed out here.
LEMMA OffersFacts ==
  ASSUME AccessInv, NEW offer \in Offers
  PROVE  /\ Bears(offer) => offer.token \in tokens \cup Elsewhere
         /\ Bears(offer) /\ offer.token \in Elsewhere => ~Access(offer) /\ ~Full(offer)
         /\ offer.token \in tokens => TokenOK(offer.token)
<1>1. offer.token \in tokens => TokenOK(offer.token)
  BY DEF AccessInv
<1>2. Bears(offer) => offer.token \in tokens \cup Elsewhere
  BY SMT DEF Offers, Bearer, Bears
<1>3. ASSUME NEW t \in Elsewhere
      PROVE  t.typ # "at+jwt" \/ t.aud # "here" \/ t.service \/ t.scope \notin STANDARD
  <2> DEFINE Signed(typ, scope) == Token(typ, scope, None, Lifetime, None)
  <2>1. PICK u \in {[Signed("at+jwt", "access") EXCEPT !.aud = "there"],
                    [Signed("at+jwt", "access") EXCEPT !.service = TRUE],
                    Signed("at+jwt", "takendown"), Signed("at+jwt", "signupQueued"),
                    Signed("refresh+jwt", "refresh")} :
          t = [u EXCEPT !.app = "elsewhere"]
    BY DEF Elsewhere
  <2>2. CASE u = [Signed("at+jwt", "access") EXCEPT !.aud = "there"]
    BY <2>1, <2>2 DEF Token
  <2>3. CASE u = [Signed("at+jwt", "access") EXCEPT !.service = TRUE]
    BY <2>1, <2>3 DEF Token
  <2>4. CASE u \in {Signed("at+jwt", "takendown"), Signed("at+jwt", "signupQueued"), Signed("refresh+jwt", "refresh")}
    BY <2>1, <2>4, SMT DEF Token, STANDARD
  <2> QED
    BY <2>1, <2>2, <2>3, <2>4
<1> QED
  BY <1>1, <1>2, <1>3 DEF Access, Full, verify_access, Verify, STANDARD, FULL

\* An app password, privileged or not, never opens a full session, however often
\* its tokens are exchanged and on whichever server; a request is let in with a
\* token minted here and for what it is (auth.rs, Manager::mint).
THEOREM PasswordAloneIsFull == AccessSpec => []FullIsThePassword
<1>1. AccessInv => FullIsThePassword
  <2> SUFFICES ASSUME AccessInv, NEW offer \in Offers
               PROVE  /\ Full(offer) => offer.token.app = None
                      /\ Access(offer) => offer.token \in tokens /\ ~Closing(offer)
                      /\ Refresh(offer) => Closing(offer)
    BY DEF FullIsThePassword
  <2>1. Full(offer) => offer.token.app = None
    BY OffersFacts, ScopeFacts DEF Full, verify_access, Verify, FULL, TokenOK
  <2>2. Access(offer) => offer.token \in tokens /\ ~Closing(offer)
    BY OffersFacts DEF Access, Closing, verify_access, verify_refresh, Verify
  <2>3. Refresh(offer) => Closing(offer)
    BY DEF Refresh, Closing, verify_refresh, Verify
  <2> QED
    BY <2>1, <2>2, <2>3
<1> QED
  BY <1>1, AccessInvariance, PTL

\* An app password taken away takes its sessions along for good, and what it
\* opened is let in no longer than an access token lasts, unless a call was
\* half-way (Accounts::revoke_app_password, auth.rs).
THEOREM RevokedIsOver == AccessSpec => []RevokedRunsOut
<1>1. AccessInv => RevokedRunsOut
  <2> SUFFICES ASSUME AccessInv PROVE RevokedRunsOut
    OBVIOUS
  <2>1. ~crossed => \A i \in Ids : rows[i] # None => rows[i].app \in apps \cup {None}
    BY DEF AccessInv, RowsInv, Standing
  <2>2. ASSUME NEW offer \in Offers, Access(offer), offer.token.app # None,
               offer.token.app \notin apps, gone[offer.token.app] # None,
               offer.token.app \notin late, ~crossed
        PROVE  now < gone[offer.token.app] + AccessLifetime
    <3> DEFINE t == offer.token
    <3>1. TokenOK(t) /\ t.typ = "at+jwt" /\ ~RunOut(t)
      BY <2>2, OffersFacts DEF Access, verify_access, Verify
    <3>2. t.app \in Apps /\ Outlived(t) /\ t.exp \in Int
      BY <2>2, <3>1 DEF TokenOK
    <3>3. t.exp <= Seconds(gone[t.app] + AccessLifetime) /\ t.exp > Seconds(now)
          /\ now \in Nat /\ gone[t.app] \in Nat
      <4>1. now \in 0..MaxNow /\ gone[t.app] \in 0..now
        BY <2>2, <3>2 DEF AccessInv, RowsInv, SessionsInv, Typed, TypeOK
      <4>2. now \in Nat /\ gone[t.app] \in Nat
        BY <4>1, ClockIsNat, WithinIsNat
      <4>3. Seconds(now) \in Int
        BY <4>2, SecondsFacts, SMTT(30)
      <4>4. t.exp > Seconds(now)
        BY <3>1, <3>2, <4>3, SMT DEF RunOut
      <4> QED
        BY <2>2, <3>2, <4>2, <4>4 DEF Outlived
    <3> QED
      BY <3>2, <3>3, SecondsFacts, AccessAssumption, SMT
  <2> QED
    BY <2>1, <2>2 DEF RevokedRunsOut
<1> QED
  BY <1>1, AccessInvariance, PTL

\* Whoever holds a session's refresh token can end the session while its row
\* stands, and exchange the token until the row's last second (auth.rs, Refresh
\* and Closing).
THEOREM SessionsCanBeClosed == AccessSpec => []HoldersCanClose
<1>1. AccessInv => HoldersCanClose
  <2> SUFFICES ASSUME AccessInv, NEW offer \in Offers, Bears(offer), offer.token \in tokens,
                      offer.token.typ = "refresh+jwt", rows[offer.token.jti] # None
               PROVE  /\ Closing(offer)
                      /\ rows[offer.token.jti].exp >= now + Second /\ offer.token.jti \notin back => Refresh(offer)
    BY DEF HoldersCanClose
  <2> DEFINE t == offer.token
  <2>1. TokenOK(t) /\ now \in Nat /\ handed \subseteq Ids
    BY ClockIsNat, RowExp DEF AccessInv, RowsInv, SessionsInv, Typed, TypeOK
  <2>2. t.jti \in Ids /\ t.jti # None /\ t.aud = "here" /\ t.service = FALSE /\ t.scope = "refresh" /\ t.exp \in Int
    BY <2>1, Numbers DEF TokenOK
  <2>3. Closing(offer)
    BY <2>2 DEF Closing, verify_refresh, Verify
  <2>4. ASSUME rows[t.jti].exp >= now + Second, t.jti \notin back PROVE ~RunOut(t)
    <3>1. rows[t.jti].exp \in Int
      BY <2>2, ClockIsNat, RowExp DEF AccessInv, RowsInv, SessionsInv, Typed, TypeOK
    <3>2. Seconds(rows[t.jti].exp) <= t.exp
      BY <2>1, <2>4 DEF TokenOK
    <3>3. Seconds(now) < Seconds(rows[t.jti].exp) /\ Seconds(now) \in Int /\ Seconds(rows[t.jti].exp) \in Int
      BY <2>1, <2>4, <3>1, SecondsFacts, AccessAssumption, SMT
    <3> QED
      BY <2>2, <3>2, <3>3, SMT DEF RunOut
  <2> QED
    BY <2>2, <2>3, <2>4 DEF Refresh, verify_refresh, Verify
<1> QED
  BY <1>1, AccessInvariance, PTL

=============================================================================
