--------------------------- MODULE ListingsProofs ---------------------------
(***************************************************************************)
(* What ORDER BY and LIMIT make of a query's rows, and what Listings       *)
(* promises, for any collections, keys, blobs and accounts and any size of *)
(* a page: the pages of a listing repeat nothing, are in order, and miss   *)
(* nothing that was there all along.                                       *)
(***************************************************************************)
EXTENDS Listings, FiniteSetTheorems, NaturalsInduction, TLAPS

USE Zenon

-----------------------------------------------------------------------------
(* ORDER BY and LIMIT. *)

\* A strict order of the rows in which any two of them have a place.
Orders(before, rows) ==
  /\ \A a \in rows : <<a, a>> \notin before
  /\ \A a, b, c \in rows : <<a, b>> \in before /\ <<b, c>> \in before => <<a, c>> \in before
  /\ \A a, b \in rows : a # b => <<a, b>> \in before \/ <<b, a>> \in before

\* Rows one after the other, as the order has them.
InLine(s, n, before) == \A i, j \in 1..n : i < j => <<s[i], s[j]>> \in before

LEMMA Least ==
  ASSUME NEW T, T \subseteq Nat, T # {}
  PROVE  \E x \in T : \A y \in T : x <= y
<1>1. PICK x \in T : \A y \in T : ~(<<y, x>> \in OpToRel(<, Nat))
  BY NatLessThanWellFounded, WFMin
<1>2. \A y \in T : ~(y < x)
  BY <1>1 DEF OpToRel
<1> QED BY <1>2, SMT

\* The rows before this one, and so its place.
Preceding(rows, before, x) == {y \in rows : <<y, x>> \in before}

LEMMA PlacesDiffer ==
  ASSUME NEW rows, IsFiniteSet(rows), NEW before, Orders(before, rows),
         NEW x \in rows, NEW y \in rows, <<x, y>> \in before
  PROVE  /\ Cardinality(Preceding(rows, before, x)) \in Nat
         /\ Cardinality(Preceding(rows, before, y)) \in Nat
         /\ Cardinality(Preceding(rows, before, x)) < Cardinality(Preceding(rows, before, y))
<1> DEFINE X == Preceding(rows, before, x)
           Y == Preceding(rows, before, y)
<1>1. X \in SUBSET Y /\ x \in Y /\ x \notin X /\ Y \in SUBSET rows
  BY DEF Preceding, Orders
<1>2. IsFiniteSet(Y) /\ Cardinality(Y) \in Nat
  BY <1>1, FS_Subset, FS_CardinalityType
<1>3. IsFiniteSet(X) /\ Cardinality(X) <= Cardinality(Y) /\ (Cardinality(Y) = Cardinality(X) => X = Y)
  BY <1>1, <1>2, FS_Subset
<1>4. Cardinality(X) \in Nat /\ Cardinality(X) # Cardinality(Y)
  BY <1>1, <1>3, FS_CardinalityType
<1> QED BY <1>2, <1>3, <1>4, SMT

\* Every row has a place of its own, from the first to the last.
LEMMA Placed ==
  ASSUME NEW rows, IsFiniteSet(rows), NEW before, Orders(before, rows)
  PROVE  \E s \in [1..Cardinality(rows) -> rows] : InLine(s, Cardinality(rows), before)
<1> DEFINE n == Cardinality(rows)
           place == [x \in rows |-> Cardinality(Preceding(rows, before, x)) + 1]
<1>1. n \in Nat
  BY FS_CardinalityType
<1>2. ASSUME NEW x \in rows PROVE place[x] \in 1..n /\ place[x] = Cardinality(Preceding(rows, before, x)) + 1
  <2>1. Preceding(rows, before, x) \in SUBSET rows /\ x \notin Preceding(rows, before, x)
    BY DEF Preceding, Orders
  <2>2. /\ IsFiniteSet(Preceding(rows, before, x))
        /\ Cardinality(Preceding(rows, before, x)) <= n
        /\ n # Cardinality(Preceding(rows, before, x))
    BY <2>1, FS_Subset
  <2>3. Cardinality(Preceding(rows, before, x)) \in Nat
    BY <2>2, FS_CardinalityType
  <2> QED BY <1>1, <2>2, <2>3, SMT
<1>3. ASSUME NEW x \in rows, NEW y \in rows, <<x, y>> \in before PROVE place[x] < place[y]
  BY <1>2, <1>3, PlacesDiffer, SMT
<1>4. place \in [rows -> 1..n]
  BY <1>2
<1>5. ASSUME NEW x \in rows, NEW y \in rows, place[x] = place[y] PROVE x = y
  <2>1. place[x] \in Int /\ place[y] \in Int
    BY <1>2, SMT
  <2>2. ~(place[x] < place[y]) /\ ~(place[y] < place[x])
    BY <1>5, <2>1, SMT
  <2> QED BY <1>3, <2>2 DEF Orders
<1> HIDE DEF place
<1>6. place \in Injection(rows, 1..n)
  BY <1>4, <1>5 DEF Injection, IsInjective
<1>7. IsFiniteSet(1..n) /\ Cardinality(1..n) = n
  BY <1>1, FS_Interval, SMT
<1>8. place \in Surjection(rows, 1..n)
  BY <1>6, <1>7, FS_Injection
<1>9. \A i \in 1..n : \E x \in rows : place[x] = i
  BY <1>8 DEF Surjection
<1> DEFINE s == [i \in 1..n |-> CHOOSE x \in rows : place[x] = i]
<1>10. \A i \in 1..n : s[i] \in rows /\ place[s[i]] = i
  BY <1>9
<1>11. s \in [1..n -> rows]
  BY <1>10
<1> HIDE DEF s
<1>12. ASSUME NEW i \in 1..n, NEW j \in 1..n, i < j PROVE <<s[i], s[j]>> \in before
  <2>1. ~(j < i) /\ i # j
    BY <1>1, <1>12, SMT
  <2>2. <<s[j], s[i]>> \notin before
    BY <1>3, <1>10, <2>1
  <2>3. s[i] # s[j]
    BY <1>10, <2>1
  <2> QED BY <1>10, <2>2, <2>3 DEF Orders
<1> QED BY <1>11, <1>12 DEF InLine

OnceEach(s, n) == \A i, j \in 1..n : s[i] = s[j] => i = j
AllThere(s, n, rows) == \A x \in rows : \E i \in 1..n : s[i] = x

\* A line has nobody twice, and one as long as there are rows leaves none out.
LEMMA LineIsAll ==
  ASSUME NEW rows, IsFiniteSet(rows), NEW before, Orders(before, rows),
         NEW s \in [1..Cardinality(rows) -> rows], InLine(s, Cardinality(rows), before)
  PROVE  OnceEach(s, Cardinality(rows)) /\ AllThere(s, Cardinality(rows), rows)
<1> DEFINE n == Cardinality(rows)
<1>1. n \in Nat
  BY FS_CardinalityType
<1>2. ASSUME NEW i \in 1..n, NEW j \in 1..n, s[i] = s[j] PROVE i = j
  <2>1. i \in Int /\ j \in Int
    BY <1>1, SMT
  <2>2. ~(i < j) /\ ~(j < i)
    <3>1. s[i] \in rows /\ <<s[i], s[i]>> \notin before
      BY DEF Orders
    <3> QED BY <1>2, <3>1 DEF InLine
  <2> QED BY <2>1, <2>2, SMT
<1>3. s \in Injection(1..n, rows)
  BY <1>2 DEF Injection, IsInjective
<1>4. IsFiniteSet(1..n) /\ Cardinality(1..n) = n
  BY <1>1, FS_Interval, SMT
<1>5. s \in Surjection(1..n, rows)
  BY <1>3, <1>4, FS_Injection
<1> QED BY <1>2, <1>5 DEF Surjection, OnceEach, AllThere

\* ORDER BY: what comes back is every row, once, in order.
LEMMA OrderedIs ==
  ASSUME NEW rows, IsFiniteSet(rows), NEW before, Orders(before, rows)
  PROVE  /\ Ordered(rows, before) \in [1..Cardinality(rows) -> rows]
         /\ InLine(Ordered(rows, before), Cardinality(rows), before)
         /\ AllThere(Ordered(rows, before), Cardinality(rows), rows)
<1>1. /\ Ordered(rows, before) \in [1..Cardinality(rows) -> rows]
      /\ InLine(Ordered(rows, before), Cardinality(rows), before)
  BY Placed DEF Ordered, InLine
<1> QED BY <1>1, LineIsAll

LEMMA SamePlaces ==
  ASSUME NEW rows, IsFiniteSet(rows), NEW before, Orders(before, rows),
         NEW s \in [1..Cardinality(rows) -> rows], InLine(s, Cardinality(rows), before)
  PROVE  \A i \in 1..Cardinality(rows) : s[i] = Ordered(rows, before)[i]
<1> DEFINE n == Cardinality(rows)
           t == Ordered(rows, before)
           D == {i \in 1..n : s[i] # t[i]}
<1>1. n \in Nat
  BY FS_CardinalityType
<1>2. t \in [1..n -> rows] /\ InLine(t, n, before)
  BY OrderedIs
<1> HIDE DEF t
<1>3. OnceEach(s, n) /\ OnceEach(t, n) /\ AllThere(s, n, rows) /\ AllThere(t, n, rows)
  BY <1>2, LineIsAll
<1>4. SUFFICES ASSUME D # {} PROVE FALSE
  BY DEF t
<1>5. D \subseteq Nat
  BY <1>1, SMT
<1>6. PICK i \in D : \A j \in D : i <= j
  BY <1>4, <1>5, Least
<1>7. i \in 1..n /\ s[i] # t[i] /\ s[i] \in rows /\ t[i] \in rows
  BY <1>2, <1>6
<1>8. PICK j \in 1..n : t[j] = s[i]
  BY <1>3, <1>7 DEF AllThere
<1>9. PICK k \in 1..n : s[k] = t[i]
  BY <1>3, <1>7 DEF AllThere
<1>10. j \in D /\ k \in D /\ j # i /\ k # i
  BY <1>3, <1>7, <1>8, <1>9 DEF OnceEach
<1>11. i < j /\ i < k
  <2>1. i <= j /\ i <= k
    BY <1>6, <1>10
  <2>2. i \in Int /\ j \in Int /\ k \in Int
    BY <1>1, <1>7, SMT
  <2> QED BY <1>10, <2>1, <2>2, SMT
<1>12. <<t[i], s[i]>> \in before /\ <<s[i], t[i]>> \in before
  BY <1>2, <1>7, <1>8, <1>9, <1>11 DEF InLine
<1> QED BY <1>7, <1>12 DEF Orders

\* There is one way to put rows in order.
LEMMA OneOrder ==
  ASSUME NEW rows, IsFiniteSet(rows), NEW before, Orders(before, rows),
         NEW s \in [1..Cardinality(rows) -> rows], InLine(s, Cardinality(rows), before)
  PROVE  s = Ordered(rows, before)
<1>1. Ordered(rows, before) \in [1..Cardinality(rows) -> rows]
  BY OrderedIs
<1>2. \A i \in 1..Cardinality(rows) : s[i] = Ordered(rows, before)[i]
  BY SamePlaces
<1>3. s = [i \in 1..Cardinality(rows) |-> s[i]]
  OBVIOUS
<1>4. Ordered(rows, before) = [i \in 1..Cardinality(rows) |-> Ordered(rows, before)[i]]
  BY <1>1
<1>5. [i \in 1..Cardinality(rows) |-> s[i]] = [i \in 1..Cardinality(rows) |-> Ordered(rows, before)[i]]
  BY <1>2
<1> QED BY <1>3, <1>4, <1>5

\* A function on the first numbers is a sequence.
LEMMA LineIsSeq ==
  ASSUME NEW S, NEW n \in Nat, NEW s \in [1..n -> S]
  PROVE  s \in Seq(S) /\ Len(s) = n
BY SMT

LEMMA SeqIs ==
  ASSUME NEW S, NEW s \in Seq(S)
  PROVE  s = [i \in 1..Len(s) |-> s[i]]
<1>1. s \in [1..Len(s) -> S]
  BY SMT
<1> QED BY <1>1

\* LIMIT: the beginning of what there is, or all of it where that is short.
LEMMA LimitedIs ==
  ASSUME NEW S, NEW rows \in Seq(S), NEW n \in Nat
  PROVE  /\ Limited(rows, n) \in Seq(S)
         /\ Len(Limited(rows, n)) = IF Len(rows) > n THEN n ELSE Len(rows)
         /\ \A i \in 1..Len(Limited(rows, n)) : Limited(rows, n)[i] = rows[i]
BY SMT DEF Limited

\* A page: rows in order, all of them where it is short, and nothing left out
\* before its end where it is full.
PageOf(page, rows, before, n) ==
  /\ page \in Seq(rows)
  /\ Len(page) <= n
  /\ InLine(page, Len(page), before)
  /\ Len(page) < n => AllThere(page, Len(page), rows)
  /\ Len(page) = n => \A x \in rows : (\E i \in 1..n : page[i] = x) \/ <<page[n], x>> \in before

LEMMA PageIs ==
  ASSUME NEW rows, IsFiniteSet(rows), NEW before, Orders(before, rows), NEW n \in Nat \ {0}
  PROVE  PageOf(Limited(Ordered(rows, before), n), rows, before, n)
<1> DEFINE all == Ordered(rows, before)
           N == Cardinality(rows)
           page == Limited(all, n)
<1>1. N \in Nat
  BY FS_CardinalityType
<1>2. all \in [1..N -> rows] /\ InLine(all, N, before) /\ AllThere(all, N, rows)
  BY OrderedIs
<1> HIDE DEF all, N
<1>3. all \in Seq(rows) /\ Len(all) = N
  BY <1>1, <1>2, LineIsSeq
<1>4. /\ page \in Seq(rows)
      /\ Len(page) = IF N > n THEN n ELSE N
      /\ \A i \in 1..Len(page) : page[i] = all[i]
  BY <1>3, LimitedIs
<1> HIDE DEF page
<1>5. Len(page) \in Nat /\ Len(page) <= n /\ Len(page) <= N /\ (Len(page) < n => Len(page) = N)
  BY <1>1, <1>4, SMT
<1>6. \A i \in 1..Len(page) : i \in 1..N
  BY <1>1, <1>5, SMT
<1>7. InLine(page, Len(page), before)
  BY <1>2, <1>4, <1>6 DEF InLine
<1>8. Len(page) < n => AllThere(page, Len(page), rows)
  BY <1>2, <1>4, <1>5 DEF AllThere
<1>9. ASSUME Len(page) = n, NEW x \in rows, ~\E i \in 1..n : page[i] = x
      PROVE  <<page[n], x>> \in before
  <2>1. PICK j \in 1..N : all[j] = x
    BY <1>2 DEF AllThere
  <2>2. j \notin 1..n
    BY <1>4, <1>9, <2>1
  <2>3. n \in 1..N /\ n \in 1..Len(page) /\ n < j
    BY <1>1, <1>5, <1>9, <2>2, SMT
  <2> QED BY <1>2, <1>4, <2>1, <2>3 DEF InLine
<1>10. PageOf(page, rows, before, n)
  BY <1>4, <1>5, <1>7, <1>8, <1>9 DEF PageOf
<1> QED BY <1>10 DEF page, all

\* A query that goes on from a row finds what comes after it.
Onward(rows, before, line, m) == {x \in rows : m = 0 \/ <<line[m], x>> \in before}

LEMMA RestIs ==
  ASSUME NEW rows, IsFiniteSet(rows), NEW before, Orders(before, rows),
         NEW m \in 0..Cardinality(rows), NEW within,
         \A a, b \in Onward(rows, before, Ordered(rows, before), m) :
           <<a, b>> \in within <=> <<a, b>> \in before
  PROVE  Ordered(Onward(rows, before, Ordered(rows, before), m), within)
           = SubSeq(Ordered(rows, before), m + 1, Cardinality(rows))
<1> DEFINE all == Ordered(rows, before)
           N == Cardinality(rows)
           rest == Onward(rows, before, all, m)
           t == SubSeq(all, m + 1, N)
<1>1. N \in Nat /\ m \in Nat /\ m <= N /\ N - m \in Nat
  BY FS_CardinalityType, SMT
<1>2. all \in [1..N -> rows] /\ InLine(all, N, before) /\ AllThere(all, N, rows)
  BY OrderedIs
<1>3. OnceEach(all, N)
  BY <1>2, LineIsAll
<1> HIDE DEF all, N
<1>4. all \in Seq(rows) /\ Len(all) = N
  BY <1>1, <1>2, LineIsSeq
<1>5. /\ t \in Seq(rows) /\ Len(t) = N - m
      /\ \A i \in 1..(N - m) : t[i] = all[m + i]
  BY <1>1, <1>4, SMT
<1> HIDE DEF t
<1>6. \A i \in 1..(N - m) : m + i \in 1..N
  BY <1>1, SMT
<1>7. \A i \in 1..(N - m) : t[i] \in rest
  <2> SUFFICES ASSUME NEW i \in 1..(N - m) PROVE t[i] \in rest
    OBVIOUS
  <2>1. t[i] = all[m + i] /\ m + i \in 1..N /\ t[i] \in rows
    BY <1>2, <1>5, <1>6
  <2>2. m = 0 \/ (m \in 1..N /\ m < m + i)
    BY <1>1, SMT
  <2>3. m = 0 \/ <<all[m], t[i]>> \in before
    BY <1>2, <2>1, <2>2 DEF InLine
  <2> QED BY <2>1, <2>3 DEF Onward
<1>8. \A x \in rest : \E i \in 1..(N - m) : t[i] = x
  <2> SUFFICES ASSUME NEW x \in rest PROVE \E i \in 1..(N - m) : t[i] = x
    OBVIOUS
  <2>1. x \in rows /\ (m = 0 \/ <<all[m], x>> \in before)
    BY DEF Onward
  <2>2. PICK j \in 1..N : all[j] = x
    BY <1>2, <2>1 DEF AllThere
  <2>3. j > m
    <3>1. CASE m = 0
      BY <3>1, SMT
    <3>2. CASE m # 0 /\ <<all[m], x>> \in before
      <4>1. m \in 1..N /\ all[m] \in rows
        BY <1>1, <1>2, <3>2, SMT
      <4>2. <<x, all[m]>> \notin before /\ x # all[m]
        BY <2>1, <3>2, <4>1 DEF Orders
      <4>3. j # m /\ ~(j < m)
        BY <1>2, <2>2, <4>1, <4>2 DEF InLine
      <4> QED BY <1>1, <4>3, SMT
    <3> QED BY <2>1, <3>1, <3>2
  <2>4. j - m \in 1..(N - m) /\ m + (j - m) = j
    BY <1>1, <2>3, SMT
  <2> QED BY <1>5, <2>2, <2>4, SMT
<1> HIDE DEF rest
<1>9. t \in [1..(N - m) -> rest]
  <2>1. t \in [1..(N - m) -> rows]
    BY <1>1, <1>5, SMT
  <2> QED BY <1>7, <2>1
<1>10. \A i, j \in 1..(N - m) : i < j => <<t[i], t[j]>> \in before
  <2>1. \A i, j \in 1..(N - m) : i < j => m + i < m + j
    BY <1>1, SMT
  <2> QED BY <1>2, <1>5, <1>6, <2>1 DEF InLine
<1>11. rest \in SUBSET rows
  BY DEF rest, Onward
<1>12. IsFiniteSet(rest)
  BY <1>11, FS_Subset
<1>13. Orders(within, rest)
  BY <1>11 DEF Orders, rest, all
<1>14. Cardinality(rest) = N - m
  <2>1. \A i, j \in 1..(N - m) : t[i] = t[j] => i = j
    <3>1. \A i, j \in 1..(N - m) : m + i = m + j => i = j
      BY <1>1, SMT
    <3> QED BY <1>3, <1>5, <1>6, <3>1 DEF OnceEach
  <2>2. t \in Injection(1..(N - m), rest)
    BY <1>9, <2>1 DEF Injection, IsInjective
  <2>3. t \in Surjection(1..(N - m), rest)
    BY <1>8, <1>9 DEF Surjection
  <2>4. ExistsBijection(1..(N - m), rest)
    BY <2>2, <2>3 DEF ExistsBijection, Bijection
  <2> QED BY <1>1, <2>4, FS_CountingElements
<1>15. InLine(t, Cardinality(rest), within)
  BY <1>7, <1>10, <1>14 DEF InLine, rest, all
<1>16. t = Ordered(rest, within)
  BY <1>9, <1>12, <1>13, <1>14, <1>15, OneOrder
<1> QED BY <1>16 DEF t, rest, all, N

\* A number is a multiple and what is left over, in one way.
LEMMA Split ==
  ASSUME NEW b \in Nat \ {0}, NEW c \in Nat, NEW k \in 0..(b - 1)
  PROVE  (c * b + k) \div b = c /\ (c * b + k) % b = k
BY SMT

\* One sequence after another, place by place.
Joins(both, one, more) ==
  /\ Len(one) \in Nat /\ Len(more) \in Nat /\ Len(both) = Len(one) + Len(more)
  /\ \A i \in 1..Len(one) : both[i] = one[i]
  /\ \A i \in 1..Len(more) : both[Len(one) + i] = more[i]
  /\ \A i \in 1..Len(both) :
       i \in 1..Len(one) \/ (i - Len(one) \in 1..Len(more) /\ both[i] = more[i - Len(one)])

LEMMA Longer ==
  ASSUME NEW S, NEW one \in Seq(S), NEW more \in Seq(S)
  PROVE  one \o more \in Seq(S) /\ Joins(one \o more, one, more)
BY SMT DEF Joins

-----------------------------------------------------------------------------
(* Listings: the invariant. *)

Kinds == {"newest", "oldest", "blobs", "missing", "repos"}

\* Accounts as the table can hold them: their time is one that stamp wrote.
Accounts == {a \in [did : Dids, at : 0..MaxClock] : Stamp(a.at) = a.at}

\* What can ever be on a listing.
Listable ==
  IF kind \in {"newest", "oldest"} THEN {Uri(Wanted, k) : k \in Rkeys}
  ELSE IF kind \in {"blobs", "missing"} THEN Blobs
  ELSE Accounts

There == Contents(kind, newer, record, record_blob, blob, actor)

\* The tables: a record has an address of this repository and a revision, a
\* blob is named by a record that is there, an account by a stamped time.
TablesInv ==
  /\ kind \in Kinds
  /\ newer \in Nat /\ writes \in Nat /\ clock \in 0..MaxClock
  /\ \A r \in record : r.uri \in Uris(kind) /\ r.rev \in Nat \ {0}
  /\ \A n \in record_blob : n.blob \in Blobs /\ \E r \in record : r.uri = n.uri
  /\ actor \subseteq Accounts /\ joining \subseteq Accounts

\* The row the client's cursor stands for.
Edge == listed[Len(listed)]

\* The walk: a cursor stands for the last row shown, and whatever has been
\* there all along is either shown or comes after it.
WalkInv ==
  /\ steady \subseteq There /\ There \subseteq ever
  /\ listed \in Seq(Listable)
  /\ ListedOnceInOrder
  /\ cursor = <<>> /\ ~finished => listed = <<>>
  /\ cursor # <<>> => /\ ~finished /\ listed # <<>> /\ cursor = CursorOf(Edge)
                      /\ \A x \in steady : x \in Shown \/ InOrder(Edge, x)
  /\ NothingSteadyIsMissed

-----------------------------------------------------------------------------
(* Listings: addresses and times. *)

LEMMA LaterMultiple ==
  ASSUME NEW b \in Nat, NEW c \in Nat, NEW w \in Nat, c < w
  PROVE  c * b + b <= w * b
<1>1. w = c + 1 + (w - c - 1) /\ w - c - 1 \in Nat
  BY SMT
<1>2. PICK e \in Nat : w = c + 1 + e
  BY <1>1, SMT
<1>3. w * b = c * b + b + e * b /\ e * b \in Nat
  BY <1>2, SMT
<1> QED BY <1>3, SMT

\* An address gives back its collection and its key.
LEMMA AddressIs ==
  ASSUME NEW c \in Collections, NEW k \in Rkeys
  PROVE  /\ Uri(c, k) \in Nat /\ Uri(c, k) = Prefix(c) + k
         /\ CollectionOf(Uri(c, k)) = c /\ KeyOf(Uri(c, k)) = k
<1>1. c \in Nat /\ Del \in Nat /\ k \in 1..(Del - 1)
  BY ListingsAssumption
<1>2. Del + 1 \in Nat \ {0} /\ k \in 0..((Del + 1) - 1) /\ c * (Del + 1) \in Nat
  BY <1>1, SMT
<1>3. (c * (Del + 1) + k) \div (Del + 1) = c /\ (c * (Del + 1) + k) % (Del + 1) = k
  BY <1>1, <1>2, Split, SMT
<1>4. Uri(c, k) = c * (Del + 1) + k /\ c * (Del + 1) + k \in Nat
  BY <1>1, <1>2, SMT DEF Uri, Prefix
<1> QED BY <1>3, <1>4 DEF Uri, Prefix, CollectionOf, KeyOf

\* A collection is the range of the index between its prefix and DEL.
LEMMA RangeIs ==
  ASSUME NEW c \in Collections, NEW k \in Rkeys
  PROVE  /\ Prefix(Wanted) \in Nat /\ Del \in Nat
         /\ (Uri(c, k) >= Prefix(Wanted) /\ Uri(c, k) < Prefix(Wanted) + Del) <=> c = Wanted
<1>1. c \in Nat /\ Wanted \in Nat /\ Del \in Nat /\ k \in 1..(Del - 1)
  BY ListingsAssumption
<1>2. Del + 1 \in Nat /\ c * (Del + 1) \in Nat /\ Wanted * (Del + 1) \in Nat
  BY <1>1, SMT
<1>3. CASE c < Wanted
  <2>1. c * (Del + 1) + (Del + 1) <= Wanted * (Del + 1)
    BY <1>1, <1>2, <1>3, LaterMultiple, SMT
  <2> DEFINE x == c * (Del + 1)
             y == Wanted * (Del + 1)
  <2>2. x + k < y
    <3> HIDE DEF x, y
    <3> QED BY <1>1, <1>2, <2>1, SMT DEF x, y
  <2>3. Uri(c, k) = x + k /\ Prefix(Wanted) = y
    BY DEF Uri, Prefix
  <2> HIDE DEF x, y
  <2> QED BY <1>1, <1>2, <1>3, <2>2, <2>3, SMT DEF x, y
<1>4. CASE c > Wanted
  <2>1. Wanted * (Del + 1) + (Del + 1) <= c * (Del + 1)
    BY <1>1, <1>2, <1>4, LaterMultiple, SMT
  <2> DEFINE x == c * (Del + 1)
             y == Wanted * (Del + 1)
  <2>2. x + k >= y + Del
    <3> HIDE DEF x, y
    <3> QED BY <1>1, <1>2, <2>1, SMT DEF x, y
  <2>3. Uri(c, k) = x + k /\ Prefix(Wanted) = y
    BY DEF Uri, Prefix
  <2> HIDE DEF x, y
  <2> QED BY <1>1, <1>2, <1>4, <2>2, <2>3, SMT DEF x, y
<1>5. CASE c = Wanted
  BY <1>1, <1>2, <1>5, SMT DEF Uri, Prefix
<1> QED BY <1>1, <1>3, <1>4, <1>5, SMT

\* What stamp writes is a whole number of milliseconds, which is what a cursor
\* carries, and never later than the clock.
LEMMA StampIs ==
  ASSUME NEW t \in 0..MaxClock
  PROVE  Stamp(t) \in 0..MaxClock /\ Stamp(Stamp(t)) = Stamp(t)
<1>1. Fine \in Nat \ {0} /\ MaxClock \in Nat /\ t \in Nat
  BY ListingsAssumption, SMT
<1>2. t \div Fine \in Nat /\ t % Fine \in 0..(Fine - 1) /\ t = (t \div Fine) * Fine + (t % Fine)
  BY <1>1, SMT
<1> DEFINE q == t \div Fine
<1>3. q \in Nat /\ q * Fine \in Nat /\ q * Fine <= t
  <2> HIDE DEF q
  <2>1. q \in Nat /\ q * Fine \in Nat
    BY <1>1, <1>2, SMT DEF q
  <2> QED BY <1>1, <1>2, <2>1, SMT DEF q
<1> HIDE DEF q
<1>4. (q * Fine + 0) \div Fine = q
  BY <1>1, <1>3, Split, SMT
<1>5. (q * Fine) \div Fine = q
  BY <1>1, <1>3, <1>4, SMT
<1>6. Stamp(t) = q * Fine
  BY DEF Stamp, q
<1>7. Stamp(q * Fine) = q * Fine
  BY <1>5 DEF Stamp
<1> QED BY <1>1, <1>3, <1>6, <1>7, SMT

-----------------------------------------------------------------------------
(* Listings: what can be listed, and in which order. *)

\* Listable and InOrder, listing by listing.
LEMMA ByKind ==
  /\ kind \in {"newest", "oldest"} => Listable = {Uri(Wanted, k) : k \in Rkeys}
  /\ kind \in {"blobs", "missing"} => Listable = Blobs
  /\ kind = "repos" => Listable = Accounts
BY SMT DEF Listable

LEMMA OrderByKind ==
  ASSUME NEW a, NEW b
  PROVE  /\ kind = "newest" => (InOrder(a, b) <=> a > b)
         /\ kind \in {"oldest", "blobs", "missing"} => (InOrder(a, b) <=> a < b)
         /\ kind = "repos" => (InOrder(a, b) <=> Before(a, b))
BY SMT DEF InOrder

LEMMA ContentsByKind ==
  /\ kind \in {"newest", "oldest"} => There = {r.uri : r \in {r \in record : CollectionOf(r.uri) = Wanted}}
  /\ kind = "blobs" =>
       There = {n.blob : n \in {n \in record_blob : \E r \in record : r.uri = n.uri /\ r.rev > newer}}
  /\ kind = "missing" => There = {n.blob : n \in record_blob} \ blob
  /\ kind = "repos" => There = actor
BY SMT DEF There, Contents

LEMMA ListableFinite == kind \in Kinds => IsFiniteSet(Listable)
<1> SUFFICES ASSUME kind \in Kinds PROVE IsFiniteSet(Listable)
  OBVIOUS
<1>1. CASE kind \in {"newest", "oldest"}
  <2>1. IsFiniteSet(1..(Del - 1))
    BY ListingsAssumption, FS_Interval, SMT
  <2>2. IsFiniteSet(Rkeys)
    BY <2>1, ListingsAssumption, FS_Subset
  <2> DEFINE T == {Uri(Wanted, k) : k \in Rkeys}
             f == [k \in Rkeys |-> Uri(Wanted, k)]
  <2>3. f \in Surjection(Rkeys, T)
    BY DEF Surjection
  <2> HIDE DEF f, T
  <2>4. IsFiniteSet(T)
    BY <2>2, <2>3, FS_Surjection
  <2> QED BY <1>1, <2>4, ByKind DEF T
<1>2. CASE kind \in {"blobs", "missing"}
  BY <1>2, ByKind, ListingsAssumption
<1>3. CASE kind = "repos"
  <2>1. IsFiniteSet(0..MaxClock)
    BY ListingsAssumption, FS_Interval, SMT
  <2>2. IsFiniteSet(Dids \X (0..MaxClock))
    BY <2>1, ListingsAssumption, FS_Product
  <2> DEFINE T == [did : Dids, at : 0..MaxClock]
             f == [p \in Dids \X (0..MaxClock) |-> [did |-> p[1], at |-> p[2]]]
  <2>3. f \in [Dids \X (0..MaxClock) -> T]
    BY SMT
  <2>4. \A a \in T : <<a.did, a.at>> \in Dids \X (0..MaxClock) /\ f[<<a.did, a.at>>] = a
    BY SMT
  <2> HIDE DEF f, T
  <2>5. f \in Surjection(Dids \X (0..MaxClock), T)
    BY <2>3, <2>4 DEF Surjection
  <2>6. IsFiniteSet(T)
    BY <2>2, <2>5, FS_Surjection
  <2>7. Accounts \in SUBSET T
    BY DEF Accounts, T
  <2>8. IsFiniteSet(Accounts)
    BY <2>6, <2>7, FS_Subset
  <2> QED BY <1>3, <2>8, ByKind
<1> QED BY <1>1, <1>2, <1>3 DEF Kinds

\* The pairs of these rows that a listing has one after the other.
Sooner(rows) == {p \in rows \X rows : InOrder(p[1], p[2])}

\* The order of an index puts any two of its rows one after the other.
LEMMA InOrderOrders ==
  ASSUME kind \in Kinds, NEW rows, rows \subseteq Listable
  PROVE  Orders(Sooner(rows), rows)
<1>0. \A a, b \in rows : <<a, b>> \in Sooner(rows) <=> InOrder(a, b)
  BY DEF Sooner
<1>1. SUFFICES /\ \A a \in rows : ~InOrder(a, a)
               /\ \A a, b, c \in rows : InOrder(a, b) /\ InOrder(b, c) => InOrder(a, c)
               /\ \A a, b \in rows : a # b => InOrder(a, b) \/ InOrder(b, a)
  BY <1>0 DEF Orders
<1>2. CASE kind # "repos"
  <2>1. \A a \in rows : a \in Nat
    <3>1. CASE kind \in {"newest", "oldest"}
      <4>1. \A k \in Rkeys : Uri(Wanted, k) \in Nat
        BY AddressIs, ListingsAssumption
      <4> QED BY <3>1, <4>1, ByKind
    <3>2. CASE kind \in {"blobs", "missing"}
      BY <3>2, ByKind, ListingsAssumption
    <3> QED BY <1>2, <3>1, <3>2 DEF Kinds
  <2>2. CASE kind = "newest"
    <3>1. \A a, b \in rows : InOrder(a, b) <=> a > b
      BY <2>2, OrderByKind
    <3> QED BY <2>1, <3>1, SMT
  <2>3. CASE kind # "newest"
    <3>1. \A a, b \in rows : InOrder(a, b) <=> a < b
      BY <1>2, <2>3, OrderByKind DEF Kinds
    <3> QED BY <2>1, <3>1, SMT
  <2> QED BY <2>2, <2>3
<1>3. CASE kind = "repos"
  <2>1. \A a \in rows : a \in [did : Dids, at : 0..MaxClock]
    BY <1>3, ByKind DEF Accounts
  <2>2. \A a \in rows : a.did \in Nat /\ a.at \in Nat
    <3>1. \A a \in rows : a.did \in Dids /\ a.at \in 0..MaxClock
      BY <2>1
    <3>2. \A t \in 0..MaxClock : t \in Nat
      BY ListingsAssumption, SMT
    <3> QED BY <3>1, <3>2, ListingsAssumption
  <2>3. \A a, b \in rows : InOrder(a, b) <=> (a.at < b.at \/ (a.at = b.at /\ a.did < b.did))
    BY <1>3, OrderByKind DEF Before
  <2>4. \A a, b \in rows : a.at = b.at /\ a.did = b.did => a = b
    BY <2>1, SMT
  <2>5. \A a \in rows : ~InOrder(a, a)
    BY <2>2, <2>3, SMT
  <2>6. \A a, b, c \in rows : InOrder(a, b) /\ InOrder(b, c) => InOrder(a, c)
    BY <2>2, <2>3, SMT
  <2>7. \A a, b \in rows : a # b => InOrder(a, b) \/ InOrder(b, a)
    BY <2>2, <2>3, <2>4, SMT
  <2> QED BY <2>5, <2>6, <2>7
<1> QED BY <1>2, <1>3

-----------------------------------------------------------------------------
(* Listings: a query finds what comes after the cursor. *)

LEMMA UrisByKind ==
  /\ kind \in {"newest", "oldest"} => \A u \in Uris(kind) : \E c \in Collections, k \in Rkeys : u = Uri(c, k)
  /\ kind \in {"blobs", "missing"} => Uris(kind) = {Uri(Wanted, k) : k \in Naming}
  /\ kind = "repos" => Uris(kind) = {}
BY SMT DEF Uris

LEMMA CursorByKind ==
  ASSUME NEW row
  PROVE  /\ kind \in {"newest", "oldest"} => CursorOf(row) = <<KeyOf(row)>>
         /\ kind \in {"blobs", "missing"} => CursorOf(row) = <<row>>
         /\ kind = "repos" => CursorOf(row) = after(row)
BY SMT DEF CursorOf

LEMMA ThereListable == TablesInv => There \subseteq Listable
<1> SUFFICES ASSUME TablesInv, NEW x \in There PROVE x \in Listable
  OBVIOUS
<1>1. CASE kind \in {"newest", "oldest"}
  <2>1. PICK r \in record : CollectionOf(r.uri) = Wanted /\ x = r.uri
    BY <1>1, ContentsByKind
  <2>2. PICK c \in Collections, k \in Rkeys : r.uri = Uri(c, k)
    BY <1>1, UrisByKind DEF TablesInv
  <2>3. c = Wanted
    BY <2>1, <2>2, AddressIs
  <2> QED BY <1>1, <2>1, <2>2, <2>3, ByKind
<1>2. CASE kind \in {"blobs", "missing"}
  <2>1. \E n \in record_blob : x = n.blob
    <3>1. CASE kind = "blobs"
      <4>1. x \in {n.blob : n \in {n \in record_blob : \E r \in record : r.uri = n.uri /\ r.rev > newer}}
        BY <3>1, ContentsByKind
      <4> QED BY <4>1, SMT
    <3>2. CASE kind = "missing"
      <4>1. x \in {n.blob : n \in record_blob} \ blob
        BY <3>2, ContentsByKind
      <4> QED BY <4>1, SMT
    <3> QED BY <1>2, <3>1, <3>2
  <2> QED BY <1>2, <2>1, ByKind DEF TablesInv
<1>3. CASE kind = "repos"
  BY <1>3, ContentsByKind, ByKind DEF TablesInv
<1> QED BY <1>1, <1>2, <1>3 DEF TablesInv, Kinds

\* Where the walk has come to: what is left to be listed.
Upcoming == {x \in There : cursor = <<>> \/ InOrder(Edge, x)}

\* The cursor stands for a row that can be on this listing.
LEMMA EdgeIs ==
  ASSUME TablesInv, WalkInv, cursor # <<>>
  PROVE  Edge \in Listable /\ cursor = CursorOf(Edge)
<1>1. listed \in Seq(Listable) /\ listed # <<>> /\ cursor = CursorOf(Edge)
  BY DEF WalkInv
<1>2. listed[Len(listed)] \in Listable
  BY <1>1, SMT
<1> QED BY <1>1, <1>2 DEF Edge

LEMMA RecordFound ==
  ASSUME TablesInv, WalkInv, kind \in {"newest", "oldest"}, NEW r \in record
  PROVE  r \in records_query(cursor, kind = "oldest")
           <=> CollectionOf(r.uri) = Wanted /\ (cursor = <<>> \/ InOrder(Edge, r.uri))
<1> DEFINE P == Prefix(Wanted)
           u == r.uri
<1>1. PICK c \in Collections, k \in Rkeys : r.uri = Uri(c, k)
  BY UrisByKind DEF TablesInv
<1>2. u \in Nat /\ P \in Nat /\ Del \in Nat /\ (u >= P /\ u < P + Del <=> CollectionOf(u) = Wanted)
  BY <1>1, AddressIs, RangeIs
<1>3. CASE cursor = <<>>
  <2>1. r \in records_query(cursor, kind = "oldest") <=> u >= P /\ u < P + Del
    BY <1>3, SMT DEF records_query
  <2> QED BY <1>2, <1>3, <2>1
<1>4. CASE cursor # <<>>
  <2>1. PICK e \in Rkeys : Edge = Uri(Wanted, e)
    BY <1>4, EdgeIs, ByKind
  <2>2. Edge \in Nat /\ Edge = P + e /\ KeyOf(Edge) = e /\ Edge >= P /\ Edge < P + Del
    BY <2>1, AddressIs, RangeIs, ListingsAssumption
  <2>3. cursor = <<e>>
    BY <1>4, <2>2, EdgeIs, CursorByKind
  <2>4. CASE kind = "oldest"
    <3>1. r \in records_query(cursor, kind = "oldest") <=> u > Edge /\ u < P + Del
      <4>1. cursor[1] = e /\ cursor # <<>>
        BY <2>3, SMT
      <4> QED BY <2>2, <2>4, <4>1 DEF records_query
    <3>2. InOrder(Edge, u) <=> Edge < u
      BY <2>4, OrderByKind
    <3> HIDE DEF P, u
    <3>3. u > Edge /\ u < P + Del <=> (u >= P /\ u < P + Del) /\ Edge < u
      BY <1>2, <2>2, SMT
    <3> QED BY <1>2, <1>4, <3>1, <3>2, <3>3 DEF u
  <2>5. CASE kind = "newest"
    <3>1. r \in records_query(cursor, kind = "oldest") <=> u >= P /\ u < Edge
      <4>1. cursor[1] = e /\ cursor # <<>> /\ kind # "oldest"
        BY <2>3, <2>5, SMT
      <4> QED BY <2>2, <4>1 DEF records_query
    <3>2. InOrder(Edge, u) <=> Edge > u
      BY <2>5, OrderByKind
    <3> HIDE DEF P, u
    <3>3. u >= P /\ u < Edge <=> (u >= P /\ u < P + Del) /\ Edge > u
      BY <1>2, <2>2, SMT
    <3> QED BY <1>2, <1>4, <3>1, <3>2, <3>3 DEF u
  <2> QED BY <2>4, <2>5
<1> QED BY <1>3, <1>4

LEMMA RecordsFound ==
  ASSUME TablesInv, WalkInv, kind \in {"newest", "oldest"}
  PROVE  {r.uri : r \in records_query(cursor, kind = "oldest")} = Upcoming
<1>1. \A r \in records_query(cursor, kind = "oldest") : r \in record
  BY DEF records_query
<1>2. \A x : x \in There <=> \E r \in record : CollectionOf(r.uri) = Wanted /\ x = r.uri
  <2>1. There = {r.uri : r \in {r \in record : CollectionOf(r.uri) = Wanted}}
    BY ContentsByKind
  <2> QED BY <2>1, SMT
<1>3. \A x : x \in Upcoming <=> x \in There /\ (cursor = <<>> \/ InOrder(Edge, x))
  BY DEF Upcoming
<1>4. \A r \in record : r \in records_query(cursor, kind = "oldest")
           <=> CollectionOf(r.uri) = Wanted /\ (cursor = <<>> \/ InOrder(Edge, r.uri))
  BY RecordFound
<1>5. \A x : x \in Upcoming <=> \E r \in records_query(cursor, kind = "oldest") : x = r.uri
  BY <1>1, <1>2, <1>3, <1>4
<1> QED BY <1>5, SMT

LEMMA BlobsFound ==
  ASSUME TablesInv, WalkInv, kind = "blobs"
  PROVE  {n.blob : n \in blobs_query(cursor)} = Upcoming
<1>1. ASSUME NEW n \in record_blob
      PROVE  (newer = 0 \/ \E r \in record : r.uri = n.uri /\ r.rev > newer)
               <=> \E r \in record : r.uri = n.uri /\ r.rev > newer
  <2>1. PICK r \in record : r.uri = n.uri
    BY DEF TablesInv
  <2>2. r.rev \in Nat \ {0}
    BY DEF TablesInv
  <2>3. newer = 0 => r.rev > newer
    BY <2>2, SMT
  <2> QED BY <2>1, <2>3
<1>2. cursor # <<>> => cursor[1] = Edge
  <2>1. cursor # <<>> => cursor = <<Edge>>
    BY EdgeIs, CursorByKind
  <2> QED BY <2>1, SMT
<1>3. cursor # <<>> => \A n \in record_blob : n.blob > cursor[1] <=> InOrder(Edge, n.blob)
  <2>1. \A n \in record_blob : InOrder(Edge, n.blob) <=> Edge < n.blob
    BY OrderByKind
  <2>2. cursor # <<>> => Edge \in Nat
    BY EdgeIs, ByKind, ListingsAssumption
  <2>3. \A n \in record_blob : n.blob \in Nat
    BY ListingsAssumption DEF TablesInv
  <2> QED BY <1>2, <2>1, <2>2, <2>3, SMT
<1>4. \A x : x \in There <=>
        \E n \in record_blob : (\E r \in record : r.uri = n.uri /\ r.rev > newer) /\ x = n.blob
  <2>1. There = {n.blob : n \in {n \in record_blob : \E r \in record : r.uri = n.uri /\ r.rev > newer}}
    BY ContentsByKind
  <2> QED BY <2>1, SMT
<1>5. \A n : n \in blobs_query(cursor) <=>
        /\ n \in record_blob
        /\ newer = 0 \/ \E r \in record : r.uri = n.uri /\ r.rev > newer
        /\ cursor = <<>> \/ n.blob > cursor[1]
  BY DEF blobs_query
<1>6. \A x : x \in Upcoming <=> \E n \in blobs_query(cursor) : x = n.blob
  BY <1>1, <1>3, <1>4, <1>5 DEF Upcoming
<1> QED BY <1>6

LEMMA MissingFound ==
  ASSUME TablesInv, WalkInv, kind = "missing"
  PROVE  {n.blob : n \in missing_blobs_query(cursor)} = Upcoming
<1>2. cursor # <<>> => cursor[1] = Edge
  <2>1. cursor # <<>> => cursor = <<Edge>>
    BY EdgeIs, CursorByKind
  <2> QED BY <2>1, SMT
<1>3. cursor # <<>> => \A n \in record_blob : n.blob > cursor[1] <=> InOrder(Edge, n.blob)
  <2>1. \A n \in record_blob : InOrder(Edge, n.blob) <=> Edge < n.blob
    BY OrderByKind
  <2>2. cursor # <<>> => Edge \in Nat
    BY EdgeIs, ByKind, ListingsAssumption
  <2>3. \A n \in record_blob : n.blob \in Nat
    BY ListingsAssumption DEF TablesInv
  <2> QED BY <1>2, <2>1, <2>2, <2>3, SMT
<1>4. \A x : x \in There <=> x \notin blob /\ \E n \in record_blob : x = n.blob
  <2>1. There = {n.blob : n \in record_blob} \ blob
    BY ContentsByKind
  <2> QED BY <2>1, SMT
<1>5. \A n : n \in missing_blobs_query(cursor) <=>
        n \in record_blob /\ n.blob \notin blob /\ (cursor = <<>> \/ n.blob > cursor[1])
  BY DEF missing_blobs_query
<1>6. \A x : x \in Upcoming <=> \E n \in missing_blobs_query(cursor) : x = n.blob
  BY <1>3, <1>4, <1>5 DEF Upcoming
<1> QED BY <1>6

\* A cursor's milliseconds are all of the time an account is kept under.
LEMMA HostedFound ==
  ASSUME TablesInv, WalkInv, kind = "repos"
  PROVE  hosted_query(cursor) = Upcoming
<1>1. There = actor
  BY ContentsByKind
<1>2. ASSUME cursor # <<>> PROVE starting(cursor).at = Edge.at /\ starting(cursor).did = Edge.did
  <2>1. Stamp(Edge.at) = Edge.at /\ cursor = <<Edge.at \div Fine, Edge.did>>
    BY <1>2, EdgeIs, ByKind, CursorByKind DEF Accounts, after
  <2>2. cursor[1] = Edge.at \div Fine /\ cursor[2] = Edge.did
    BY <2>1, SMT
  <2>3. starting(cursor).at = cursor[1] * Fine /\ starting(cursor).did = cursor[2]
    BY SMT DEF starting
  <2> QED BY <2>1, <2>2, <2>3 DEF Stamp
<1>3. cursor # <<>> => \A a \in actor : Later(a, starting(cursor)) <=> InOrder(Edge, a)
  <2>1. \A a \in actor : InOrder(Edge, a) <=> Before(Edge, a)
    BY OrderByKind
  <2> QED BY <1>2, <2>1 DEF Later, Before
<1> QED BY <1>1, <1>3 DEF hosted_query, Upcoming

-----------------------------------------------------------------------------
(* Listings: every step keeps the invariant. *)

\* Whichever the listing, a page is the beginning of what is left.
LEMMA PageShown ==
  ASSUME TablesInv, WalkInv, Lists
  PROVE  ~finished /\ Answer(Limited(Ordered(Upcoming, Sooner(Upcoming)), Limit))
<1>1. CASE list_records
  <2>1. kind \in {"newest", "oldest"} /\ ~finished /\ Answer(records(cursor, kind = "oldest"))
    BY <1>1 DEF list_records
  <2>2. {r.uri : r \in records_query(cursor, kind = "oldest")} = Upcoming
    BY <2>1, RecordsFound
  <2>3. CASE kind = "oldest"
    <3>1. records(cursor, kind = "oldest") = Ascending(Upcoming)
      BY <2>2, <2>3 DEF records
    <3>2. {p \in Upcoming \X Upcoming : p[1] < p[2]} = Sooner(Upcoming)
      BY <2>3, OrderByKind DEF Sooner
    <3> QED BY <2>1, <3>1, <3>2 DEF Ascending
  <2>4. CASE kind = "newest"
    <3>1. kind # "oldest"
      BY <2>4, SMT
    <3>2. records(cursor, kind = "oldest") = Descending(Upcoming)
      BY <2>2, <3>1 DEF records
    <3>3. {p \in Upcoming \X Upcoming : p[1] > p[2]} = Sooner(Upcoming)
      BY <2>4, OrderByKind DEF Sooner
    <3> QED BY <2>1, <3>2, <3>3 DEF Descending
  <2> QED BY <2>1, <2>3, <2>4
<1>2. CASE list_blobs
  <2>1. kind = "blobs" /\ ~finished /\ Answer(blobs(cursor))
    BY <1>2 DEF list_blobs
  <2>2. blobs(cursor) = Ascending(Upcoming)
    BY <2>1, BlobsFound DEF blobs
  <2>3. {p \in Upcoming \X Upcoming : p[1] < p[2]} = Sooner(Upcoming)
    BY <2>1, OrderByKind DEF Sooner
  <2> QED BY <2>1, <2>2, <2>3 DEF Ascending
<1>3. CASE list_missing
  <2>1. kind = "missing" /\ ~finished /\ Answer(missing_blobs(cursor))
    BY <1>3 DEF list_missing
  <2>2. missing_blobs(cursor) = Ascending(Upcoming)
    BY <2>1, MissingFound DEF missing_blobs
  <2>3. {p \in Upcoming \X Upcoming : p[1] < p[2]} = Sooner(Upcoming)
    BY <2>1, OrderByKind DEF Sooner
  <2> QED BY <2>1, <2>2, <2>3 DEF Ascending
<1>4. CASE list_repos
  <2>1. kind = "repos" /\ ~finished /\ Answer(hosted(cursor))
    BY <1>4 DEF list_repos
  <2>2. {p \in Upcoming \X Upcoming : Before(p[1], p[2])} = Sooner(Upcoming)
    BY <2>1, OrderByKind DEF Sooner
  <2>3. hosted(cursor) = Limited(Ordered(Upcoming, Sooner(Upcoming)), Limit)
    BY <2>1, <2>2, HostedFound DEF hosted
  <2> QED BY <2>1, <2>3
<1> QED BY <1>1, <1>2, <1>3, <1>4 DEF Lists

LEMMA AnswerKeeps ==
  ASSUME TablesInv, WalkInv, ~finished, NEW page,
         PageOf(page, Upcoming, Sooner(Upcoming), Limit), Answer(page)
  PROVE  WalkInv'
<1>1. /\ listed' = listed \o page
      /\ finished' = (Len(page) < Limit)
      /\ cursor' = IF Len(page) < Limit THEN <<>> ELSE CursorOf(page[Len(page)])
      /\ UNCHANGED <<kind, newer, record, record_blob, blob, actor, steady, ever>>
  BY DEF Answer, Short, tables, asked
<1>2. Listable' = Listable /\ There' = There
  BY <1>1 DEF Listable, There, Contents
<1>3. /\ There \subseteq Listable /\ There \subseteq ever /\ steady \subseteq There
      /\ listed \in Seq(Listable) /\ Upcoming \subseteq There
  BY ThereListable DEF WalkInv, Upcoming
<1>4. /\ page \in Seq(Upcoming) /\ Len(page) \in Nat /\ Len(page) <= Limit /\ Limit \in Nat \ {0}
      /\ \A i \in 1..Len(page) : page[i] \in Upcoming
  <2>1. page \in Seq(Upcoming) /\ Len(page) <= Limit /\ Limit \in Nat \ {0}
    BY ListingsAssumption DEF PageOf
  <2> QED BY <2>1, SMT
<1>5. page \in Seq(Listable)
  <2>1. \A i \in 1..Len(page) : page[i] \in Listable
    BY <1>3, <1>4
  <2> QED BY <1>4, <2>1, SMT
<1>6. /\ listed' \in Seq(Listable) /\ Len(listed) \in Nat /\ Len(listed') = Len(listed) + Len(page)
      /\ \A i \in 1..Len(listed) : listed'[i] = listed[i]
      /\ \A i \in 1..Len(page) : listed'[Len(listed) + i] = page[i]
      /\ \A i \in 1..Len(listed') :
           i \in 1..Len(listed) \/ (i - Len(listed) \in 1..Len(page) /\ listed'[i] = page[i - Len(listed)])
  <2>1. listed' \in Seq(Listable) /\ Joins(listed', listed, page)
    BY <1>1, <1>3, <1>5, Longer
  <2> QED BY <2>1 DEF Joins
<1>7. /\ \A i \in 1..Len(listed) : listed[i] \in Listable
      /\ DOMAIN listed = 1..Len(listed) /\ DOMAIN listed' = 1..Len(listed')
  BY <1>3, <1>6, SMT
<1>8. Shown' = Shown \cup {page[i] : i \in 1..Len(page)}
  <2>1. \A x : x \in Shown' <=> \E i \in 1..Len(listed') : listed'[i] = x
    BY <1>7 DEF Shown
  <2>2. \A x : x \in Shown <=> \E i \in 1..Len(listed) : listed[i] = x
    BY <1>7 DEF Shown
  <2>3. /\ \A i \in 1..Len(page) : Len(listed) + i \in 1..Len(listed')
        /\ \A i \in 1..Len(listed) : i \in 1..Len(listed')
    BY <1>4, <1>6, SMT
  <2>4. ASSUME NEW x \in Shown' PROVE x \in Shown \/ \E i \in 1..Len(page) : page[i] = x
    <3>1. PICK i \in 1..Len(listed') : listed'[i] = x
      BY <2>1, <2>4
    <3> QED BY <1>6, <2>2, <3>1
  <2>5. ASSUME NEW x \in Shown PROVE x \in Shown'
    BY <1>6, <2>1, <2>2, <2>3, <2>5
  <2>6. ASSUME NEW i \in 1..Len(page) PROVE page[i] \in Shown'
    BY <1>6, <2>1, <2>3, <2>6
  <2> QED BY <2>4, <2>5, <2>6
<1>9. ASSUME NEW i \in 1..Len(listed), NEW y \in Upcoming PROVE InOrder(listed[i], y)
  <2>1. cursor # <<>> /\ listed # <<>> /\ InOrder(Edge, y)
    <3>1. cursor # <<>>
      <4>1. listed # <<>>
        BY <1>3, SMT
      <4> QED BY <4>1 DEF WalkInv
    <3> QED BY <3>1 DEF Upcoming, WalkInv
  <2>2. i < Len(listed) => InOrder(listed[i], Edge)
    <3>1. i \in DOMAIN listed /\ Len(listed) \in DOMAIN listed
      BY <1>6, <1>7, SMT
    <3> QED BY <3>1 DEF WalkInv, ListedOnceInOrder, Edge
  <2>3. i = Len(listed) => listed[i] = Edge
    BY DEF Edge
  <2>4. Orders(Sooner(Listable), Listable)
    BY InOrderOrders DEF TablesInv
  <2>5. \A a, b, c \in Listable : InOrder(a, b) /\ InOrder(b, c) => InOrder(a, c)
    <3>1. \A a, b \in Listable : <<a, b>> \in Sooner(Listable) <=> InOrder(a, b)
      BY DEF Sooner
    <3> QED BY <2>4, <3>1 DEF Orders
  <2>6. listed[i] \in Listable /\ Edge \in Listable /\ y \in Listable
    BY <1>3, <1>7, <2>1, EdgeIs
  <2>7. i < Len(listed) \/ i = Len(listed)
    BY <1>6, SMT
  <2> QED BY <2>1, <2>2, <2>3, <2>5, <2>6, <2>7
<1>10. \A i, j \in DOMAIN listed' : i < j => InOrder(listed'[i], listed'[j])
  <2> SUFFICES ASSUME NEW i \in 1..Len(listed'), NEW j \in 1..Len(listed'), i < j
               PROVE  InOrder(listed'[i], listed'[j])
    BY <1>7
  <2>1. CASE i \in 1..Len(listed) /\ j \in 1..Len(listed)
    BY <1>6, <1>7, <2>1 DEF WalkInv, ListedOnceInOrder
  <2>2. CASE i \in 1..Len(listed) /\ j - Len(listed) \in 1..Len(page) /\ listed'[j] = page[j - Len(listed)]
    BY <1>4, <1>6, <1>9, <2>2
  <2>3. CASE /\ i - Len(listed) \in 1..Len(page) /\ listed'[i] = page[i - Len(listed)]
             /\ j - Len(listed) \in 1..Len(page) /\ listed'[j] = page[j - Len(listed)]
    <3>1. i - Len(listed) < j - Len(listed)
      BY <1>6, SMT
    <3>2. <<listed'[i], listed'[j]>> \in Sooner(Upcoming)
      BY <2>3, <3>1 DEF PageOf, InLine
    <3> QED BY <3>2 DEF Sooner
  <2>4. ~(j \in 1..Len(listed) /\ i \notin 1..Len(listed))
    BY <1>6, SMT
  <2> QED BY <1>6, <2>1, <2>2, <2>3, <2>4
<1>11. Shown' \subseteq ever
  BY <1>3, <1>4, <1>8 DEF WalkInv, ListedOnceInOrder
<1>12. ListedOnceInOrder'
  BY <1>1, <1>10, <1>11 DEF ListedOnceInOrder, InOrder, Before
<1>13. \A x \in steady : x \in Shown \/ x \in Upcoming
  BY <1>3 DEF WalkInv, Upcoming
<1>14. CASE Len(page) < Limit
  <2>1. finished' /\ cursor' = <<>>
    BY <1>1, <1>14
  <2>2. \A x \in Upcoming : \E i \in 1..Len(page) : page[i] = x
    BY <1>14 DEF PageOf, AllThere
  <2>3. steady \subseteq Shown'
    BY <1>8, <1>13, <2>2
  <2> QED BY <1>1, <1>2, <1>3, <1>6, <1>12, <2>1, <2>3 DEF WalkInv, NothingSteadyIsMissed
<1>15. CASE ~(Len(page) < Limit)
  <2>1. ~finished' /\ cursor' = CursorOf(page[Limit]) /\ Len(page) = Limit
    <3>1. Len(page) = Limit
      BY <1>4, <1>15, SMT
    <3>2. cursor' = CursorOf(page[Len(page)])
      BY <1>1, <1>15
    <3>3. ~finished'
      BY <1>1, <1>15
    <3> QED BY <3>1, <3>2, <3>3
  <2>2. Edge' = page[Limit] /\ listed' # <<>>
    <3>1. Limit \in 1..Len(page) /\ Len(listed') = Len(listed) + Limit
      BY <1>4, <1>6, <2>1, SMT
    <3>2. listed'[Len(listed')] = page[Limit]
      BY <1>6, <3>1
    <3>3. Len(listed') # 0
      BY <1>4, <1>6, <3>1, SMT
    <3> QED BY <1>6, <3>2, <3>3, SMT DEF Edge
  <2>3. cursor' # <<>> /\ cursor' = CursorOf(Edge)'
    <3>1. cursor' = CursorOf(Edge)'
      BY <1>1, <2>1, <2>2 DEF CursorOf, after
    <3>2. kind \in Kinds
      BY DEF TablesInv
    <3>3. CursorOf(page[Limit]) # <<>>
      BY <3>2, CursorByKind, SMT DEF Kinds, after
    <3> QED BY <2>1, <3>1, <3>3
  <2>4. \A x \in steady : x \in Shown' \/ InOrder(page[Limit], x)
    <3>1. \A x \in Upcoming : (\E i \in 1..Limit : page[i] = x) \/ <<page[Limit], x>> \in Sooner(Upcoming)
      BY <2>1 DEF PageOf
    <3>2. \A x \in Upcoming : x \in Shown' \/ InOrder(page[Limit], x)
      BY <1>8, <2>1, <3>1 DEF Sooner
    <3> QED BY <1>8, <1>13, <3>2
  <2>5. \A x \in steady' : x \in Shown' \/ InOrder(Edge, x)'
    BY <1>1, <2>2, <2>4 DEF InOrder, Before
  <2> QED BY <1>1, <1>2, <1>3, <1>6, <1>12, <2>1, <2>2, <2>3, <2>5 DEF WalkInv, NothingSteadyIsMissed
<1> QED BY <1>14, <1>15

\* A change to the tables: what was there all along is less, what ever was more.
LEMMA ChangeKeeps ==
  ASSUME TablesInv, WalkInv, Watched, UNCHANGED <<kind, newer, cursor, listed, finished>>
  PROVE  WalkInv'
<1>1. /\ There' = Contents(kind, newer, record', record_blob', blob', actor')
      /\ Listable' = Listable /\ Shown' = Shown /\ Edge' = Edge
      /\ CursorOf(Edge)' = CursorOf(Edge)
  BY DEF There, Contents, Listable, Shown, Edge, CursorOf
<1>2. listed' \in Seq(Listable)'
  BY <1>1 DEF WalkInv
<1>3. \A i, j \in DOMAIN listed' : i < j => InOrder(listed[i], listed[j])'
  BY DEF WalkInv, ListedOnceInOrder, InOrder, Before
<1>4. CASE Begun
  <2>1. steady' = steady \cap There' /\ ever' = ever \cup There'
    BY <1>1, <1>4 DEF Watched
  <2>2. Shown' \subseteq ever'
    BY <1>1, <2>1 DEF WalkInv, ListedOnceInOrder
  <2>3. cursor' # <<>> => \A x \in steady' : x \in Shown' \/ InOrder(Edge, x)'
    BY <1>1, <2>1 DEF WalkInv, InOrder, Before
  <2>4. ListedOnceInOrder'
    BY <1>3, <2>2 DEF ListedOnceInOrder
  <2> QED BY <1>1, <1>2, <2>1, <2>3, <2>4 DEF WalkInv, NothingSteadyIsMissed
<1>5. CASE ~Begun
  <2>1. steady' = There' /\ ever' = There'
    BY <1>1, <1>5 DEF Watched
  <2>2. cursor = <<>> /\ ~finished /\ listed = <<>>
    BY <1>5 DEF Begun, WalkInv
  <2>3. Shown = {}
    <3>1. \A i \in DOMAIN listed : FALSE
      BY <2>2, SMT
    <3> QED BY <3>1 DEF Shown
  <2>4. ListedOnceInOrder'
    BY <1>1, <1>3, <2>3 DEF ListedOnceInOrder
  <2> QED BY <1>1, <1>2, <2>1, <2>2, <2>4 DEF WalkInv, NothingSteadyIsMissed
<1> QED BY <1>4, <1>5

LEMMA PutKeeps ==
  ASSUME TablesInv, NEW u \in Uris(kind), NEW named \in SUBSET Blobs, Put(u, named),
         UNCHANGED <<kind, newer, actor, joining, clock>>, writes' \in Nat
  PROVE  TablesInv'
<1>1. Rev + 1 \in Nat \ {0}
  BY SMT DEF Rev, TablesInv
<1>2. \A r \in record' : r.uri \in Uris(kind) /\ r.rev \in Nat \ {0}
  <2> SUFFICES ASSUME NEW r \in record' PROVE r.uri \in Uris(kind) /\ r.rev \in Nat \ {0}
    OBVIOUS
  <2>1. r \in record \/ r = [uri |-> u, rev |-> Rev + 1]
    BY DEF Put
  <2> QED BY <1>1, <2>1, SMT DEF TablesInv
<1>3. \A n \in record_blob' : n.blob \in Blobs /\ \E r \in record' : r.uri = n.uri
  <2> SUFFICES ASSUME NEW n \in record_blob' PROVE n.blob \in Blobs /\ \E r \in record' : r.uri = n.uri
    OBVIOUS
  <2>1. CASE n \in record_blob /\ n.uri # u
    <3>1. PICK r \in record : r.uri = n.uri
      BY <2>1 DEF TablesInv
    <3>2. r \in record'
      BY <2>1, <3>1 DEF Put
    <3> QED BY <2>1, <3>1, <3>2 DEF TablesInv
  <2>2. CASE \E b \in named : n = [uri |-> u, blob |-> b]
    <3>1. n.uri = u /\ n.blob \in Blobs
      BY <2>2, SMT
    <3>2. [uri |-> u, rev |-> Rev + 1] \in record' /\ [uri |-> u, rev |-> Rev + 1].uri = u
      BY DEF Put
    <3> QED BY <3>1, <3>2
  <2> QED BY <2>1, <2>2 DEF Put
<1> QED BY <1>2, <1>3 DEF TablesInv

LEMMA DeleteKeeps ==
  ASSUME TablesInv, NEW u, Delete(u), UNCHANGED <<kind, newer, actor, joining, clock>>, writes' \in Nat
  PROVE  TablesInv'
<1>1. /\ \A r : r \in record' <=> r \in record /\ r.uri # u
      /\ \A n : n \in record_blob' <=> n \in record_blob /\ n.uri # u
  BY DEF Delete
<1>2. \A r \in record' : r.uri \in Uris(kind) /\ r.rev \in Nat \ {0}
  BY <1>1 DEF TablesInv
<1>3. \A n \in record_blob' : n.blob \in Blobs /\ \E r \in record' : r.uri = n.uri
  BY <1>1 DEF TablesInv
<1> QED BY <1>2, <1>3 DEF TablesInv

\* Every step leaves the tables as they should be, and is a page, a change that
\* the walk sees or one that it does not.
LEMMA TablesStep ==
  ASSUME TablesInv, [WalkNext]_walkVars
  PROVE  /\ TablesInv'
         /\ \/ Lists
            \/ Watched /\ UNCHANGED <<kind, newer, cursor, listed, finished>>
            \/ UNCHANGED <<kind, newer, cursor, listed, finished, steady, ever, record, record_blob, blob, actor>>
<1>0. writes \in Nat /\ writes + 1 \in Nat
  BY SMT DEF TablesInv
<1>1. CASE ChangeRecords
  <2>1. /\ Watched /\ UNCHANGED <<kind, newer, cursor, listed, finished, actor, joining, clock>>
        /\ writes' \in Nat
    BY <1>0, <1>1 DEF ChangeRecords, asked, walk
  <2>2. CASE \E u \in Uris(kind), named \in SUBSET Blobs :
               Put(u, IF kind \in {"blobs", "missing"} THEN named ELSE {})
    <3>1. PICK u \in Uris(kind), named \in SUBSET Blobs : Put(u, named)
      <4>1. PICK u \in Uris(kind), named \in SUBSET Blobs :
               Put(u, IF kind \in {"blobs", "missing"} THEN named ELSE {})
        BY <2>2
      <4>2. (IF kind \in {"blobs", "missing"} THEN named ELSE {}) \in SUBSET Blobs
        OBVIOUS
      <4> QED BY <4>1, <4>2
    <3> QED BY <2>1, <3>1, PutKeeps
  <2>3. CASE \E u \in Uris(kind) : Delete(u)
    BY <2>1, <2>3, DeleteKeeps
  <2>4. CASE \E b \in Blobs : Upload(b)
    BY <2>1, <2>4 DEF Upload, TablesInv
  <2> QED BY <1>1, <2>1, <2>2, <2>3, <2>4 DEF ChangeRecords
<1>2. CASE \E d \in Dids : Join(d)
  <2>1. PICK d \in Dids : Join(d)
    BY <1>2
  <2>2. /\ joining' = joining \cup {[did |-> d, at |-> Stamp(clock)]}
        /\ UNCHANGED <<kind, newer, cursor, listed, finished, steady, ever, record, record_blob, blob, actor, clock, writes>>
    BY <2>1 DEF Join, asked, walk
  <2>3. Stamp(clock) \in 0..MaxClock /\ Stamp(Stamp(clock)) = Stamp(clock)
    BY StampIs DEF TablesInv
  <2>4. [did |-> d, at |-> Stamp(clock)] \in Accounts
    BY <2>3 DEF Accounts
  <2> QED BY <2>2, <2>4 DEF TablesInv
<1>3. CASE \E a \in joining : Joined(a)
  <2>1. PICK a \in joining : Joined(a)
    BY <1>3
  <2> QED BY <2>1 DEF Joined, TablesInv, asked, walk
<1>4. CASE \E a \in actor : Undone(a)
  <2>1. PICK a \in actor : Undone(a)
    BY <1>4
  <2> QED BY <1>0, <2>1 DEF Undone, TablesInv, asked, walk
<1>5. CASE Clock
  <2>1. /\ clock' \in 0..MaxClock
        /\ UNCHANGED <<kind, newer, cursor, listed, finished, steady, ever, record, record_blob, blob, actor, joining, writes>>
    <3>1. clock < MaxClock /\ clock' = clock + 1 /\ clock \in 0..MaxClock /\ MaxClock \in Nat
      BY <1>5, ListingsAssumption DEF Clock, TablesInv
    <3>2. clock' \in 0..MaxClock
      BY <3>1, SMT
    <3> QED BY <1>5, <3>2 DEF Clock, asked, walk
  <2> QED BY <2>1 DEF TablesInv
<1>6. CASE Lists
  <2>1. UNCHANGED <<kind, newer, record, record_blob, blob, actor, joining, clock, writes>>
    BY <1>6 DEF Lists, list_records, list_blobs, list_missing, list_repos, Answer, tables, asked
  <2> QED BY <1>6, <2>1 DEF TablesInv
<1>7. CASE UNCHANGED walkVars
  <2>1. UNCHANGED <<kind, newer, cursor, listed, finished, steady, ever, record, record_blob, blob, actor, joining, clock, writes>>
    BY <1>7 DEF walkVars, tables, asked, walk
  <2> QED BY <2>1 DEF TablesInv
<1> QED BY <1>1, <1>2, <1>3, <1>4, <1>5, <1>6, <1>7 DEF WalkNext

LEMMA WalkStarts == WalkInit => TablesInv /\ WalkInv
<1> SUFFICES ASSUME WalkInit PROVE TablesInv /\ WalkInv
  OBVIOUS
<1>0. kind \in Kinds
  BY SMT DEF WalkInit, Kinds
<1>1. /\ actor = {} /\ joining = {} /\ clock = 0 /\ writes = 0
      /\ cursor = <<>> /\ listed = <<>> /\ ~finished
      /\ steady = There /\ ever = There
  BY DEF WalkInit, There
<1>2. newer \in Nat /\ writes \in Nat /\ clock \in 0..MaxClock
  BY ListingsAssumption, SMT DEF WalkInit
<1>3. PICK us \in SUBSET Uris(kind) : record = {[uri |-> u, rev |-> 1] : u \in us}
  <2>1. record \in {{[uri |-> u, rev |-> 1] : u \in us} : us \in SUBSET Uris(kind)}
    BY SMTT(30) DEF WalkInit
  <2> QED BY <2>1
<1>4. \A r \in record : r.uri \in Uris(kind) /\ r.rev \in Nat \ {0}
  BY <1>3, SMT
<1>5. record_blob \subseteq {[uri |-> r.uri, blob |-> b] : r \in record, b \in Blobs}
  BY SMT DEF WalkInit
<1>6. \A n \in record_blob : n.blob \in Blobs /\ \E r \in record : r.uri = n.uri
  BY <1>5, SMT
<1>7. TablesInv
  BY <1>0, <1>1, <1>2, <1>4, <1>6 DEF TablesInv
<1>8. Shown = {} /\ listed \in Seq(Listable) /\ \A i \in DOMAIN listed : FALSE
  BY <1>1, SMT DEF Shown
<1> QED BY <1>1, <1>7, <1>8 DEF WalkInv, ListedOnceInOrder, NothingSteadyIsMissed

LEMMA WalkStep == TablesInv /\ WalkInv /\ [WalkNext]_walkVars => TablesInv' /\ WalkInv'
<1> SUFFICES ASSUME TablesInv, WalkInv, [WalkNext]_walkVars PROVE TablesInv' /\ WalkInv'
  OBVIOUS
<1>1. TablesInv'
  BY TablesStep
<1>2. CASE Lists
  <2> DEFINE page == Limited(Ordered(Upcoming, Sooner(Upcoming)), Limit)
  <2>1. ~finished /\ Answer(page)
    BY <1>2, PageShown
  <2>2. Upcoming \in SUBSET Listable /\ kind \in Kinds
    BY ThereListable DEF Upcoming, TablesInv
  <2>3. IsFiniteSet(Upcoming)
    BY <2>2, ListableFinite, FS_Subset
  <2>4. Orders(Sooner(Upcoming), Upcoming)
    BY <2>2, InOrderOrders
  <2>5. PageOf(page, Upcoming, Sooner(Upcoming), Limit)
    BY <2>3, <2>4, ListingsAssumption, PageIs
  <2> HIDE DEF page
  <2> QED BY <1>1, <2>1, <2>5, AnswerKeeps
<1>3. CASE Watched /\ UNCHANGED <<kind, newer, cursor, listed, finished>>
  BY <1>1, <1>3, ChangeKeeps
<1>4. CASE UNCHANGED <<kind, newer, cursor, listed, finished, steady, ever, record, record_blob, blob, actor>>
  <2>1. /\ There' = There /\ Listable' = Listable /\ Shown' = Shown /\ Edge' = Edge
        /\ CursorOf(Edge)' = CursorOf(Edge)
    BY <1>4 DEF There, Contents, Listable, Shown, Edge, CursorOf
  <2>2. ListedOnceInOrder' /\ (cursor' # <<>> => \A x \in steady' : x \in Shown' \/ InOrder(Edge, x)')
    BY <1>4, <2>1 DEF WalkInv, ListedOnceInOrder, InOrder, Before
  <2> QED BY <1>1, <1>4, <2>1, <2>2 DEF WalkInv, NothingSteadyIsMissed
<1> QED BY <1>2, <1>3, <1>4, TablesStep

LEMMA Walks == WalkSpec => [](TablesInv /\ WalkInv)
BY WalkStarts, WalkStep, PTL DEF WalkSpec

\* However a table changes between two pages, a listing shows no row twice, none
\* out of order and none that was never there: listRecords either way, listBlobs,
\* listMissingBlobs and listRepos, at any page size.
THEOREM ListingsAreInOrder == WalkSpec => []ListedOnceInOrder
<1>1. WalkInv => ListedOnceInOrder
  BY DEF WalkInv
<1> QED BY <1>1, Walks, PTL

\* A client that stops at a page without a cursor has been shown every row that
\* was there from the first page to the last.
THEOREM ListingsMissNothing == WalkSpec => []NothingSteadyIsMissed
<1>1. WalkInv => NothingSteadyIsMissed
  BY DEF WalkInv
<1> QED BY <1>1, Walks, PTL

=============================================================================
