-------------------------- MODULE OrderedScanProofs --------------------------
(***************************************************************************)
(* What a read in index order gives, for every table, page size and        *)
(* interleaving with other sessions: each row once, none passed over, in   *)
(* order, as long as the pages are counted in the same rows.  The lemmas   *)
(* go from ranks, which are what a page counts, to what a page takes, to   *)
(* the steps of the read.                                                  *)
(***************************************************************************)
EXTENDS OrderedScan, FiniteSetTheorems, TLAPS

(* The rows the properties speak of.                                       *)
Untouched == Present(view) \ touched

(* Until it ends, the statement and the others have changed a row only     *)
(* where it was touched, or given and then deleted.  A statement that      *)
(* moves rows is read in advance.                                          *)
Stable ==
  \A i \in Id \ touched :
    /\ own[i] \in {None, view[i]} \/ (own[i] = Gone /\ i \in given)
    /\ tab[i] = view[i] \/ (tab[i] = Gone /\ i \in given)

(* The rows loaded and not given, in order after the last one given.       *)
Loaded(rows) ==
  /\ \A p \in rows : p[1] \notin touched => view[p[1]] = p[2] /\ p[1] \notin given
  /\ \A p, q \in rows : p[1] = q[1] => p = q
  /\ last # None => \A p \in rows : ~Before(p[2], last[1])

(* The rows given: all that come before the last one, and, of its key, the *)
(* ids Pager keeps with it.                                                *)
Passing ==
  /\ last # None =>
       /\ last[2] \subseteq given
       /\ \A i \in Untouched : Before(view[i], last[1]) => i \in given
  /\ \A i \in given \ touched :
       /\ i \in Present(view) /\ last # None
       /\ ~Before(last[1], view[i])
       /\ view[i] = last[1] => i \in last[2]
  /\ again \subseteq touched

AllLoaded(rows) == \A i \in Untouched : i \in given \/ <<i, view[i]>> \in rows

(* The pages so far took the first n of the rows they were counted in, and *)
(* those that follow come no earlier than any row taken.                   *)
Paged(in, n, rows) ==
  /\ in \in Rows
  /\ \A i \in Id \ touched : in[i] = view[i]
  /\ \A i \in Present(in) :
       Rank(in, i) < n <=> (i \in given \/ \E p \in rows : p[1] = i)
  /\ \A j \in Present(in) : Rank(in, j) >= n =>
       /\ \A p \in rows : ~Before(in[j], p[2])
       /\ last # None => ~Before(in[j], last[1])

(* Nothing has been read yet.                                              *)
Fresh == given = {} /\ buf = {} /\ last = None /\ again = {}

ReadSound ==
  /\ Loaded(buf) /\ Passing
  /\ done => AllLoaded(buf)
  /\ pc = "ended" => AllLoaded({})
  /\ ~done /\ offset = 0 => Fresh
  /\ ~done /\ offset > 0 => Paged(counted, offset, buf)

(* The inductive invariant.                                                *)
IInv ==
  /\ TypeOK
  /\ ~done => offset <= Cardinality(Id)
  /\ start \in {None, view}
  /\ pc = "closed" => /\ tab = view /\ own = [i \in Id |-> None] /\ start = None
                      /\ Fresh /\ offset = 0 /\ ~done
  /\ pc # "closed" => start = view
  /\ pc = "given" => cur \in given
  /\ how.pk /\ pc # "closed" => done
  /\ ~how.pk => Stable
  /\ ~shifted => ReadSound

-----------------------------------------------------------------------------
(* Ranks.                                                                  *)

LEMMA InjectiveBound ==
  ASSUME NEW S, IsFiniteSet(S), NEW T, IsFiniteSet(T), NEW f \in [S -> T],
         \A x, y \in S : f[x] = f[y] => x = y
  PROVE  Cardinality(S) <= Cardinality(T)
<1>1. Cardinality(S) \in Nat /\ Cardinality(T) \in Nat
  BY FS_CardinalityType
<1>2. ~(Cardinality(T) < Cardinality(S))
  BY FS_PigeonHole
<1> QED BY <1>1, <1>2

LEMMA IntervalSize ==
  ASSUME NEW a \in Int, NEW n \in Nat, NEW b \in Int, b = a + n - 1
  PROVE  IsFiniteSet(a .. b) /\ Cardinality(a .. b) = n
<1>1. IsFiniteSet(a .. b) /\ Cardinality(a .. b) = IF a > b THEN 0 ELSE b - a + 1
  BY FS_Interval
<1> QED BY <1>1

(* Index order is a strict total order of the rows there are.              *)
LEMMA AheadOrders ==
  ASSUME NEW rows \in Rows, how \in Statement
  PROVE  /\ \A i \in Present(rows) : rows[i] \in Int /\ i \in Int /\ i \in Id
         /\ \A i \in Present(rows) : ~Ahead(rows, i, i)
         /\ \A i, j \in Present(rows) :
              /\ i # j => Ahead(rows, i, j) \/ Ahead(rows, j, i)
              /\ Ahead(rows, i, j) => ~Before(rows[j], rows[i])
         /\ \A i, j, k \in Present(rows) :
              Ahead(rows, i, j) /\ Ahead(rows, j, k) => Ahead(rows, i, k)
<1>1. \A i \in Present(rows) : rows[i] \in Int /\ i \in Int /\ i \in Id
  BY OrderedScanConstants DEF Present, Rows
<1>2. how.desc \in BOOLEAN
  BY DEF Statement
<1> QED BY <1>1, <1>2 DEF Ahead, Before

LEMMA RankOrders ==
  ASSUME NEW rows \in Rows, how \in Statement
  PROVE  /\ \A i \in Present(rows) :
              Rank(rows, i) \in Nat /\ Rank(rows, i) < Cardinality(Id)
         /\ \A i, j \in Present(rows) :
              Ahead(rows, i, j) => Rank(rows, i) < Rank(rows, j)
         /\ \A i, j \in Present(rows) : Rank(rows, i) = Rank(rows, j) => i = j
<1> DEFINE ahead(i) == {j \in Present(rows) : Ahead(rows, j, i)}
<1>1. IsFiniteSet(Id) /\ Cardinality(Id) \in Nat /\ Present(rows) \subseteq Id
  BY OrderedScanConstants, FS_CardinalityType DEF Present
<1>2. ASSUME NEW i \in Present(rows)
      PROVE  Rank(rows, i) \in Nat /\ Rank(rows, i) < Cardinality(Id)
  <2>1. ahead(i) \in SUBSET Id /\ i \notin ahead(i) /\ i \in Id
    BY <1>1, AheadOrders
  <2>2. IsFiniteSet(ahead(i)) /\ Cardinality(ahead(i)) \in Nat
        /\ Cardinality(ahead(i)) <= Cardinality(Id)
        /\ Cardinality(Id) # Cardinality(ahead(i))
    <3> HIDE DEF ahead
    <3> QED BY <1>1, <2>1, FS_Subset, FS_CardinalityType
  <2> QED BY <1>1, <2>2 DEF Rank
<1>3. ASSUME NEW i \in Present(rows), NEW j \in Present(rows), Ahead(rows, i, j)
      PROVE  Rank(rows, i) < Rank(rows, j)
  <2>1. ahead(i) \in SUBSET ahead(j) /\ i \notin ahead(i) /\ i \in ahead(j)
    BY <1>3, AheadOrders
  <2>2. ahead(j) \in SUBSET Id
    BY <1>1
  <2>3. /\ IsFiniteSet(ahead(j)) /\ IsFiniteSet(ahead(i))
        /\ Cardinality(ahead(j)) \in Nat /\ Cardinality(ahead(i)) \in Nat
        /\ Cardinality(ahead(i)) <= Cardinality(ahead(j))
        /\ Cardinality(ahead(i)) # Cardinality(ahead(j))
    <3> HIDE DEF ahead
    <3>1. IsFiniteSet(ahead(j))
      BY <1>1, <2>2, FS_Subset
    <3> QED BY <2>1, <3>1, FS_Subset, FS_CardinalityType
  <2>4. Rank(rows, i) = Cardinality(ahead(i)) /\ Rank(rows, j) = Cardinality(ahead(j))
    BY DEF Rank
  <2> HIDE DEF ahead
  <2> QED BY <2>3, <2>4
<1>4. ASSUME NEW i \in Present(rows), NEW j \in Present(rows), i # j
      PROVE  Rank(rows, i) # Rank(rows, j)
  <2>1. Ahead(rows, i, j) \/ Ahead(rows, j, i)
    BY <1>4, AheadOrders
  <2> QED BY <1>2, <1>3, <2>1
<1> QED BY <1>2, <1>3, <1>4

(* Every rank below a row's is a row's.                                    *)
LEMMA RankFills ==
  ASSUME NEW rows \in Rows, how \in Statement, NEW j \in Present(rows),
         NEW m \in Nat, m <= Rank(rows, j)
  PROVE  \E k \in Present(rows) : Rank(rows, k) = m
<1> SUFFICES ASSUME \A k \in Present(rows) : Rank(rows, k) # m PROVE FALSE
  OBVIOUS
<1> DEFINE n == Rank(rows, j)
           ahead == {k \in Present(rows) : Ahead(rows, k, j)}
           top == n - 1
           T == (0 .. top) \ {m}
           f == [k \in ahead |-> Rank(rows, k)]
<1>1. n \in Nat /\ m < n /\ n = Cardinality(ahead)
  <2>1. n \in Nat /\ n # m
    BY RankOrders
  <2> QED BY <2>1 DEF Rank
<1>2. \A k \in ahead : Rank(rows, k) \in Nat /\ Rank(rows, k) < n /\ Rank(rows, k) # m
  BY RankOrders
<1>3. f \in [ahead -> T]
  BY <1>1, <1>2
<1>4. \A x, y \in ahead : f[x] = f[y] => x = y
  BY RankOrders
<1>5. IsFiniteSet(ahead)
  <2>1. ahead \in SUBSET Id /\ IsFiniteSet(Id)
    BY OrderedScanConstants DEF Present
  <2> HIDE DEF ahead
  <2> QED BY <2>1, FS_Subset
<1>6. IsFiniteSet(T) /\ Cardinality(T) = n - 1
  <2>1. top \in Int /\ top = 0 + n - 1 /\ m \in 0 .. top
    BY <1>1
  <2>0. n \in Nat /\ 0 \in Int
    BY <1>1
  <2> HIDE DEF top, n, ahead, f, T
  <2>2. IsFiniteSet(0 .. top) /\ Cardinality(0 .. top) = n
    BY <2>1, <2>0, IntervalSize
  <2> DEFINE S == 0 .. top
  <2>3. IsFiniteSet(S) /\ Cardinality(S) = n /\ m \in S /\ T = S \ {m}
    BY <2>1, <2>2 DEF T
  <2> HIDE DEF S
  <2>4. IsFiniteSet(S \ {m}) /\ Cardinality(S \ {m}) = Cardinality(S) - 1
    BY <2>3, FS_RemoveElement
  <2> QED BY <2>3, <2>4
<1> HIDE DEF f, T, n, ahead
<1>7. Cardinality(ahead) <= Cardinality(T)
  BY <1>3, <1>4, <1>5, <1>6, InjectiveBound
<1> QED BY <1>1, <1>6, <1>7

-----------------------------------------------------------------------------
(* What a page takes.                                                      *)

LEMMA PageTakes ==
  ASSUME TypeOK, NEW rows \in Rows, offset <= Cardinality(Id)
  PROVE  /\ \A p \in Page(rows) : p[1] \in Present(rows) /\ p[2] = rows[p[1]]
         /\ \A j \in Present(rows) :
              <<j, rows[j]>> \in Page(rows) <=>
                Rank(rows, j) >= offset /\ Rank(rows, j) < offset + page
         /\ IsFiniteSet(Page(rows)) /\ Cardinality(Page(rows)) \in Nat
         /\ offset + Cardinality(Page(rows)) <= Cardinality(Id)
         /\ Cardinality(Page(rows)) <= page
         /\ \A j \in Present(rows) :
              Rank(rows, j) < offset + page <=>
                Rank(rows, j) < offset + Cardinality(Page(rows))
         /\ Cardinality(Page(rows)) < page =>
              \A j \in Present(rows) : Rank(rows, j) < offset + page
<1> DEFINE P == Page(rows)
           N == Cardinality(Id)
<1>1. /\ offset \in Nat /\ page \in Nat /\ page >= 1 /\ how \in Statement
      /\ N \in Nat /\ IsFiniteSet(Id)
  BY OrderedScanConstants, FS_CardinalityType DEF TypeOK
<1>2. \A p \in P : /\ p[1] \in Present(rows) /\ p[2] = rows[p[1]] /\ p = <<p[1], rows[p[1]]>>
                   /\ Rank(rows, p[1]) >= offset /\ Rank(rows, p[1]) < offset + page
  BY DEF Page
<1>3. \A j \in Present(rows) :
        <<j, rows[j]>> \in P <=> Rank(rows, j) >= offset /\ Rank(rows, j) < offset + page
  BY DEF Page
<1>4. IsFiniteSet(P)
  <2> DEFINE S == {j \in Present(rows) : Rank(rows, j) >= offset /\ Rank(rows, j) < offset + page}
             g == [j \in S |-> <<j, rows[j]>>]
  <2>1. S \in SUBSET Id
    BY DEF Present
  <2>2. IsFiniteSet(S)
    <3> HIDE DEF S
    <3> QED BY <1>1, <2>1, FS_Subset
  <2>3. g \in Surjection(S, P)
    BY DEF Page, Surjection
  <2> HIDE DEF g, S
  <2> QED BY <2>2, <2>3, FS_Surjection
<1> HIDE DEF P
<1>5. Cardinality(P) \in Nat
  BY <1>4, FS_CardinalityType
<1> DEFINE f == [p \in P |-> Rank(rows, p[1])]
<1>6. \A x, y \in P : f[x] = f[y] => x = y
  BY <1>1, <1>2, RankOrders
<1>7. \A p \in P : f[p] \in Nat /\ f[p] >= offset /\ f[p] < offset + page /\ f[p] < N
  BY <1>1, <1>2, RankOrders
<1>8. Cardinality(P) <= page
  <2> DEFINE top == offset + page - 1
  <2>1. f \in [P -> offset .. top]
    BY <1>1, <1>7
  <2>2. IsFiniteSet(offset .. top) /\ Cardinality(offset .. top) = page
    <3>1. offset \in Int /\ page \in Nat /\ top \in Int /\ top = offset + page - 1
      BY <1>1
    <3> HIDE DEF top, f, N
    <3> QED BY <3>1, IntervalSize
  <2> HIDE DEF top
  <2> HIDE DEF f
  <2> QED BY <1>4, <1>6, <2>1, <2>2, InjectiveBound
<1>9. offset + Cardinality(P) <= N
  <2> DEFINE top == N - 1
             n == N - offset
  <2>1. f \in [P -> offset .. top]
    BY <1>1, <1>7
  <2>2. IsFiniteSet(offset .. top) /\ Cardinality(offset .. top) = n
    <3>1. offset \in Int /\ n \in Nat /\ top \in Int /\ top = offset + n - 1
      BY <1>1
    <3> HIDE DEF top, f, n, N
    <3> QED BY <3>1, IntervalSize
  <2> HIDE DEF top, n
  <2>3. Cardinality(P) <= Cardinality(offset .. top)
    <3> HIDE DEF f
    <3> QED BY <1>4, <1>6, <2>1, <2>2, InjectiveBound
  <2> QED BY <1>1, <1>5, <2>2, <2>3 DEF n
<1>10. ASSUME NEW j \in Present(rows), Cardinality(P) < page
       PROVE  Rank(rows, j) < offset + Cardinality(P)
  <2> SUFFICES ASSUME Rank(rows, j) >= offset + Cardinality(P) PROVE FALSE
    BY <1>1, <1>5, RankOrders
  <2> DEFINE c == Cardinality(P)
             M == offset .. offset + c
             row(m) == CHOOSE k \in Present(rows) : Rank(rows, k) = m
             g == [m \in M |-> <<row(m), rows[row(m)]>>]
  <2>1. c \in Nat /\ c < page /\ Rank(rows, j) \in Nat /\ Rank(rows, j) >= offset + c
    BY <1>1, <1>5, <1>10, RankOrders
  <2> HIDE DEF c
  <2>2. \A m \in M : row(m) \in Present(rows) /\ Rank(rows, row(m)) = m
    <3>1. ASSUME NEW m \in M PROVE \E k \in Present(rows) : Rank(rows, k) = m
      BY <1>1, <2>1, RankFills
    <3> QED BY <3>1
  <2> HIDE DEF row
  <2>3. g \in [M -> P]
    BY <1>1, <1>3, <2>1, <2>2
  <2>4. \A x, y \in M : g[x] = g[y] => x = y
    BY <2>2
  <2>5. IsFiniteSet(M) /\ Cardinality(M) = c + 1
    BY <1>1, <2>1, FS_Interval
  <2>6. Cardinality(M) <= Cardinality(P)
    <3> HIDE DEF g, M
    <3> QED BY <1>4, <2>3, <2>4, <2>5, InjectiveBound
  <2> QED BY <2>1, <2>5, <2>6 DEF c
<1>11. \A j \in Present(rows) :
         Rank(rows, j) < offset + page <=> Rank(rows, j) < offset + Cardinality(P)
  BY <1>1, <1>5, <1>8, <1>10, RankOrders
<1>12. Cardinality(P) < page => \A j \in Present(rows) : Rank(rows, j) < offset + page
  BY <1>10, <1>11
<1> QED BY <1>2, <1>3, <1>4, <1>5, <1>8, <1>9, <1>11, <1>12 DEF P

-----------------------------------------------------------------------------
(* What the statement sees of a row nobody else touched.                   *)

LEMMA SeenRows ==
  ASSUME TypeOK
  PROVE  Seen \in Rows
<1> SUFFICES ASSUME NEW i \in Id PROVE Seen[i] \in Key \cup {Gone}
  BY DEF Seen, Rows
<1>1. own[i] \in Key \cup {Gone, None} /\ view[i] \in Key \cup {Gone} /\ tab[i] \in Key \cup {Gone}
  BY DEF TypeOK, Rows
<1> QED BY <1>1 DEF Seen

LEMMA SeenUntouched ==
  ASSUME IInv, ~how.pk, NEW i \in Id \ touched
  PROVE  Seen[i] = view[i] \/ (Seen[i] = Gone /\ i \in given)
<1>1. /\ own[i] \in {None, view[i]} \/ (own[i] = Gone /\ i \in given)
      /\ tab[i] = view[i] \/ (tab[i] = Gone /\ i \in given)
  BY DEF IInv, Stable
<1> QED BY <1>1 DEF Seen

(* Values of rows are numbers, in either order.                            *)
LEMMA Values ==
  ASSUME TypeOK
  PROVE  /\ how.desc \in BOOLEAN
         /\ \A i \in Present(view) : view[i] \in Int /\ i \in Id
         /\ last # None => last[1] \in Int /\ last[1] \in Key /\ last[2] \subseteq Id
         /\ \A p \in Id \X Key : p[1] \in Id /\ p[2] \in Int /\ p[2] # Gone
         /\ None # Gone
  BY OrderedScanConstants DEF TypeOK, Statement, Rows, Present

-----------------------------------------------------------------------------
(* A row given keeps the read sound, if what it is taken from is loaded in *)
(* order and holds, or is followed by, every row still to come.            *)

LEMMA GiveSound ==
  ASSUME TypeOK, Passing, NEW B \in SUBSET (Id \X Key), Loaded(B), Give(B),
         UNCHANGED <<how, view, touched>>,
         done' => AllLoaded(B),
         offset' \in Nat,
         ~done' => offset' > 0 /\ Paged(counted', offset', B)
  PROVE  ReadSound' /\ (last # None => ~Before(last'[1], last[1]))
<1>1. PICK p \in Heads(B) :
        /\ buf' = B \ {p}
        /\ last' = IF last # None /\ last[1] = p[2]
                     THEN <<p[2], last[2] \cup {p[1]}>> ELSE <<p[2], {p[1]}>>
        /\ given' = given \cup {p[1]}
        /\ again' = again \cup (given \cap {p[1]})
        /\ pc' = "given"
  BY DEF Give
<1>2. /\ p \in B /\ p \in Id \X Key /\ p[1] \in Id /\ p[2] \in Key /\ p[2] \in Int
      /\ \A q \in B : ~Before(q[2], p[2])
      /\ p[1] \notin touched => view[p[1]] = p[2] /\ p[1] \notin given
      /\ \A q \in B : q[1] = p[1] => q = p
      /\ last # None => ~Before(p[2], last[1])
  BY <1>1, Values DEF Heads, Loaded
<1>3. /\ last' # None /\ last'[1] = p[2] /\ p[1] \in last'[2]
      /\ last # None /\ last[1] = p[2] => last'[2] = last[2] \cup {p[1]}
      /\ ~(last # None /\ last[1] = p[2]) => last'[2] = {p[1]}
  <2>1. None \notin Key \X SUBSET Id
    BY OrderedScanConstants
  <2>2. last[2] \cup {p[1]} \in SUBSET Id \/ last = None
    BY <1>2, Values
  <2> QED BY <1>1, <1>2, <2>1, <2>2
<1>4. how.desc \in BOOLEAN /\ Present(view) \subseteq Id
  BY Values DEF Present
<1>5. ASSUME NEW i \in Untouched
      PROVE  /\ view[i] \in Int /\ i \in Id \ touched
             /\ Before(view[i], p[2]) => i \in given
  <2>1. view[i] \in Int /\ i \in Id \ touched /\ view[i] # Gone
    BY Values DEF Untouched, Present
  <2>2. CASE done'
    <3>1. i \in given \/ <<i, view[i]>> \in B
      BY <2>2 DEF AllLoaded
    <3> QED BY <1>2, <2>1, <3>1
  <2>3. CASE ~done'
    <3>1. counted'[i] = view[i] /\ i \in Present(counted')
      BY <2>1, <2>3 DEF Paged, Present
    <3>2. \/ i \in given
          \/ \E q \in B : q[1] = i
          \/ ~Before(counted'[i], p[2])
      <4>1. \/ Rank(counted', i) < offset'
            \/ Rank(counted', i) >= offset'
        <5>1. counted' \in Rows /\ how \in Statement /\ offset' \in Int
          BY <2>3, Values DEF TypeOK, Paged
        <5> QED BY <3>1, <5>1, RankOrders
      <4> QED BY <1>2, <2>3, <3>1, <4>1 DEF Paged
    <3>3. \A q \in B : q[1] = i => q[2] = view[i]
      BY <2>1 DEF Loaded
    <3> QED BY <1>2, <2>1, <3>1, <3>2, <3>3
  <2> QED BY <2>1, <2>2, <2>3
<1>6. Passing'
  <2>1. last'[2] \subseteq given'
    BY <1>1, <1>3 DEF Passing
  <2>2. ASSUME NEW i \in given' \ touched
        PROVE  /\ i \in Present(view) /\ view[i] \in Int
               /\ ~Before(p[2], view[i])
               /\ view[i] = p[2] => i \in last'[2]
    <3>1. CASE i = p[1]
      <4>1. view[i] = p[2] /\ p[2] # Gone /\ i \in Id
        BY <1>2, <2>2, <3>1, Values
      <4> QED BY <1>2, <1>3, <1>4, <3>1, <4>1 DEF Before, Present
    <3>2. CASE i # p[1]
      <4>1. /\ i \in Present(view) /\ last # None
            /\ ~Before(last[1], view[i])
            /\ view[i] = last[1] => i \in last[2]
        BY <1>1, <2>2, <3>2 DEF Passing
      <4>2. view[i] \in Int /\ last[1] \in Int /\ ~Before(p[2], last[1])
        BY <1>2, <4>1, Values
      <4>3. view[i] = p[2] => last[1] = p[2]
        BY <1>2, <1>4, <4>1, <4>2 DEF Before
      <4>4. ~Before(p[2], view[i])
        BY <1>2, <1>4, <4>1, <4>2 DEF Before
      <4> QED BY <1>3, <4>1, <4>2, <4>3, <4>4
    <3> QED BY <3>1, <3>2
  <2>3. again' \subseteq touched
    BY <1>1, <1>2 DEF Passing
  <2>4. \A i \in Untouched : Before(view[i], p[2]) => i \in given'
    BY <1>1, <1>5
  <2> QED BY <1>1, <1>3, <2>1, <2>2, <2>3, <2>4 DEF Passing, Before, Untouched, Present
<1>7. Loaded(buf)'
  <2>1. ASSUME NEW q \in B \ {p}
        PROVE  /\ q[1] \notin touched => view[q[1]] = q[2] /\ q[1] \notin given'
               /\ ~Before(q[2], p[2])
    BY <1>1, <1>2 DEF Loaded
  <2>2. \A q, r \in B \ {p} : q[1] = r[1] => q = r
    BY DEF Loaded
  <2> QED BY <1>1, <1>3, <2>1, <2>2 DEF Loaded, Before
<1>8. AllLoaded(B) => AllLoaded(buf)'
  BY <1>1 DEF AllLoaded, Untouched, Present
<1>9. ASSUME ~done' PROVE Paged(counted, offset, buf)'
  <2>1. Paged(counted', offset', B)
    BY <1>9
  <2>2. \A i : Rank(counted, i)' = Rank(counted', i)
    BY DEF Rank, Ahead, Before, Present
  <2>3. ASSUME NEW i \in Present(counted')
        PROVE  Rank(counted', i) < offset' <=> (i \in given' \/ \E q \in buf' : q[1] = i)
    BY <1>1, <1>2, <2>1 DEF Paged
  <2>4. ASSUME NEW j \in Present(counted'), Rank(counted', j) >= offset'
        PROVE  /\ \A q \in buf' : ~Before(counted'[j], q[2])
               /\ ~Before(counted'[j], last'[1])
    BY <1>1, <1>2, <1>3, <2>1, <2>4 DEF Paged
  <2>5. counted' \in Rows /\ \A i \in Id \ touched : counted'[i] = view[i]
    BY <2>1 DEF Paged
  <2> QED BY <2>2, <2>3, <2>4, <2>5 DEF Paged, Before, Present, Rows
<1>10. last # None => ~Before(last'[1], last[1])
  BY <1>2, <1>3
<1> QED BY <1>1, <1>6, <1>7, <1>8, <1>9, <1>10 DEF ReadSound

-----------------------------------------------------------------------------
(* What Pager::fill takes.                                                 *)

LEMMA TakenSize ==
  ASSUME TypeOK, offset <= Cardinality(Id)
  PROVE  /\ Taken \in SUBSET (Id \X Key)
         /\ Cardinality(Taken) \in Nat /\ Cardinality(Taken) <= Cardinality(Id)
         /\ Taken = {} => Cardinality(Taken) = 0
         /\ ~wrote => offset + Cardinality(Taken) <= Cardinality(Id)
         /\ Cardinality(Id) \in Nat
<1>1. Seen \in Rows
  BY SeenRows
<1>2. Cardinality(Id) \in Nat /\ IsFiniteSet(Id)
  BY OrderedScanConstants, FS_CardinalityType
<1>3. CASE wrote
  <2> DEFINE S == {i \in Present(Seen) : <<i, Seen[i]>> \in Taken}
             g == [i \in S |-> <<i, Seen[i]>>]
  <2>1. Taken = Rest(Seen)
    BY <1>3 DEF Taken
  <2>2. \A p \in Taken : p[1] \in Present(Seen) /\ p = <<p[1], Seen[p[1]]>>
    BY <2>1 DEF Rest, Pairs
  <2>3. Taken \in SUBSET (Id \X Key)
    BY <1>1, <2>2 DEF Present, Rows
  <2>4. S \in SUBSET Id
    BY DEF Present
  <2>5. g \in Surjection(S, Taken)
    <3> HIDE DEF Taken, Seen
    <3> QED BY <2>2 DEF Surjection
  <2>6. /\ Cardinality(Taken) \in Nat /\ Cardinality(Taken) <= Cardinality(Id)
        /\ Cardinality({}) = 0
    <3> HIDE DEF S, g
    <3>1. IsFiniteSet(S) /\ Cardinality(S) \in Nat /\ Cardinality(S) <= Cardinality(Id)
      BY <1>2, <2>4, FS_Subset, FS_CardinalityType
    <3>2. IsFiniteSet(Taken) /\ Cardinality(Taken) <= Cardinality(S)
      BY <2>5, <3>1, FS_Surjection
    <3> QED BY <1>2, <3>1, <3>2, FS_CardinalityType, FS_EmptySet
  <2> QED BY <1>2, <1>3, <2>3, <2>6
<1>4. CASE ~wrote
  <2>1. Taken = Page(Seen)
    BY <1>4 DEF Taken
  <2>2. /\ \A p \in Taken : p[1] \in Present(Seen) /\ p[2] = Seen[p[1]]
        /\ IsFiniteSet(Taken) /\ Cardinality(Taken) \in Nat
        /\ offset + Cardinality(Taken) <= Cardinality(Id)
    BY <1>1, <2>1, PageTakes
  <2>3. Taken \in SUBSET (Id \X Key)
    <3>1. \A p \in Taken : p = <<p[1], p[2]>>
      BY <2>1 DEF Page
    <3> QED BY <1>1, <2>2, <3>1 DEF Present, Rows
  <2>4. Cardinality({}) = 0 /\ offset \in Nat
    BY FS_EmptySet DEF TypeOK
  <2>5. Cardinality(Taken) <= Cardinality(Id)
    BY <1>2, <2>2, <2>4
  <2>6. Taken = {} => Cardinality(Taken) = 0
    BY <2>4
  <2> QED BY <1>2, <2>2, <2>3, <2>5, <2>6
<1> QED BY <1>3, <1>4

(* The rest of a read by a statement that wrote: all that is left.         *)
LEMMA RestSound ==
  ASSUME IInv, ~how.pk, Passing
  PROVE  Loaded(Rest(Seen)) /\ AllLoaded(Rest(Seen))
<1>1. Seen \in Rows /\ TypeOK
  BY SeenRows DEF IInv
<1>2. \A p \in Rest(Seen) :
        /\ p[1] \in Present(Seen) /\ p = <<p[1], Seen[p[1]]>>
        /\ p[1] \in Id /\ p[2] = Seen[p[1]] /\ p[2] \in Int /\ p[2] # Gone
        /\ last = None \/ Before(last[1], p[2]) \/ (last[1] = p[2] /\ p[1] \notin last[2])
  BY <1>1, OrderedScanConstants DEF Rest, Pairs, Present, Rows
<1>3. ASSUME NEW p \in Rest(Seen), p[1] \notin touched
      PROVE  view[p[1]] = p[2] /\ p[1] \notin given
  <2>1. view[p[1]] = p[2]
    BY <1>2, <1>3, SeenUntouched
  <2>2. p[1] \in given => /\ last # None /\ ~Before(last[1], view[p[1]])
                          /\ view[p[1]] = last[1] => p[1] \in last[2]
    BY <1>3 DEF Passing
  <2> QED BY <1>2, <1>3, <2>1, <2>2
<1>4. last # None => \A p \in Rest(Seen) : ~Before(p[2], last[1])
  BY <1>1, <1>2, Values DEF Before
<1>5. Loaded(Rest(Seen))
  BY <1>2, <1>3, <1>4 DEF Loaded
<1>6. ASSUME NEW i \in Untouched, i \notin given
      PROVE  <<i, view[i]>> \in Rest(Seen)
  <2>1. /\ i \in Id \ touched /\ view[i] # Gone /\ Seen[i] = view[i] /\ i \in Present(Seen)
        /\ view[i] \in Int
    BY <1>1, <1>6, SeenUntouched, Values DEF Untouched, Present
  <2>2. last = None \/ (last[2] \subseteq given /\ ~Before(view[i], last[1]))
    BY <1>6 DEF Passing
  <2>3. last = None \/ Before(last[1], view[i]) \/ (last[1] = view[i] /\ i \notin last[2])
    BY <1>1, <1>6, <2>1, <2>2, Values DEF Before
  <2> QED BY <2>1, <2>3 DEF Rest, Pairs
<1> QED BY <1>5, <1>6 DEF AllLoaded

(* A page counted in the rows of the pages before it goes on where they    *)
(* ended.                                                                  *)
LEMMA PageSound ==
  ASSUME IInv, ~how.pk, ~done, buf = {}, ReadSound,
         offset > 0 => Seen = counted
  PROVE  /\ Loaded(Page(Seen))
         /\ Cardinality(Page(Seen)) < page => AllLoaded(Page(Seen))
         /\ Paged(Seen, offset + Cardinality(Page(Seen)), Page(Seen))
<1>1. Seen \in Rows /\ TypeOK /\ offset <= Cardinality(Id) /\ how \in Statement
      /\ offset \in Nat
  BY SeenRows DEF IInv, TypeOK
<1>2. Paged(Seen, offset, {})
  <2>1. CASE offset > 0
    BY <2>1 DEF ReadSound
  <2>2. CASE offset = 0
    <3>1. given = {} /\ last = None
      BY <2>2 DEF ReadSound, Fresh
    <3>2. \A i \in Id \ touched : Seen[i] = view[i]
      BY <3>1, SeenUntouched
    <3>3. \A i \in Present(Seen) : ~(Rank(Seen, i) < 0)
      BY <1>1, RankOrders
    <3> HIDE DEF Seen
    <3> QED BY <1>1, <2>2, <3>1, <3>2, <3>3 DEF Paged
  <2> QED BY <1>1, <2>1, <2>2
<1> DEFINE in == Seen
           B == Page(in)
           n == offset + Cardinality(B)
<1>3. /\ \A p \in B : p[1] \in Present(in) /\ p[2] = in[p[1]]
      /\ \A j \in Present(in) :
           <<j, in[j]>> \in B <=> Rank(in, j) >= offset /\ Rank(in, j) < offset + page
      /\ \A j \in Present(in) : Rank(in, j) < offset + page <=> Rank(in, j) < n
      /\ Cardinality(B) < page => \A j \in Present(in) : Rank(in, j) < offset + page
      /\ n \in Nat /\ n >= offset
  BY <1>1, PageTakes
<1>4. \A p \in B : p = <<p[1], in[p[1]]>>
  BY DEF Page
<1>5. \A i \in Present(in) : i \in Id /\ (i \notin touched => view[i] = in[i])
  BY <1>2 DEF Present, Paged
<1>6. /\ \A i \in Present(in) : Rank(in, i) \in Nat /\ (Rank(in, i) < offset <=> i \in given)
      /\ \A j \in Present(in) : Rank(in, j) >= offset =>
           (last # None => ~Before(in[j], last[1]))
  BY <1>1, <1>2, RankOrders DEF Paged
<1>7. \A p \in B : p[1] \in Present(in) /\ p[2] = in[p[1]]
                   /\ Rank(in, p[1]) >= offset /\ Rank(in, p[1]) < n
  BY <1>3, <1>4
<1> HIDE DEF in, B, n
<1>8. Loaded(B)
  <2>1. ASSUME NEW p \in B, p[1] \notin touched
        PROVE  view[p[1]] = p[2] /\ p[1] \notin given
    BY <1>1, <1>5, <1>6, <1>7, <2>1
  <2>2. \A p, q \in B : p[1] = q[1] => p = q
    BY <1>4
  <2>3. last # None => \A p \in B : ~Before(p[2], last[1])
    BY <1>6, <1>7
  <2> QED BY <2>1, <2>2, <2>3 DEF Loaded
<1>9. ASSUME Cardinality(B) < page PROVE AllLoaded(B)
  <2>1. ASSUME NEW i \in Untouched, i \notin given
        PROVE  <<i, view[i]>> \in B
    <3>1. i \in Present(in) /\ in[i] = view[i]
      BY <1>2 DEF Paged, Untouched, Present, in
    <3> QED BY <1>1, <1>3, <1>6, <1>9, <2>1, <3>1
  <2> QED BY <2>1 DEF AllLoaded
<1>10. Paged(in, n, B)
  <2>1. ASSUME NEW i \in Present(in)
        PROVE  Rank(in, i) < n <=> (i \in given \/ \E p \in B : p[1] = i)
    <3>1. (\E p \in B : p[1] = i) => Rank(in, i) >= offset /\ Rank(in, i) < n
      BY <1>7
    <3>2. Rank(in, i) >= offset /\ Rank(in, i) < n => <<i, in[i]>> \in B
      BY <1>3
    <3>3. Rank(in, i) \in Nat /\ (Rank(in, i) < offset <=> i \in given)
      BY <1>6
    <3>4. <<i, in[i]>> \in B => \E p \in B : p[1] = i
      OBVIOUS
    <3> QED BY <1>1, <1>3, <3>1, <3>2, <3>3, <3>4
  <2>2. ASSUME NEW j \in Present(in), Rank(in, j) >= n
        PROVE  /\ \A p \in B : ~Before(in[j], p[2])
               /\ last # None => ~Before(in[j], last[1])
    <3>1. ASSUME NEW p \in B PROVE ~Before(in[j], p[2])
      <4>1. p[1] \in Present(in) /\ p[2] = in[p[1]] /\ Rank(in, p[1]) < Rank(in, j)
        BY <1>3, <1>6, <1>7, <2>2
      <4>2. in \in Rows /\ how \in Statement
        BY <1>1 DEF in
      <4>3. Rank(in, j) \in Nat /\ Rank(in, p[1]) \in Nat
        BY <1>6, <4>1
      <4>4. p[1] # j /\ ~Ahead(in, j, p[1])
        BY <4>1, <4>2, <4>3, RankOrders
      <4> QED BY <4>1, <4>2, <4>4, AheadOrders
    <3>2. Rank(in, j) >= offset
      BY <1>1, <1>3, <1>6, <2>2
    <3> QED BY <1>6, <3>1, <3>2
  <2>3. in \in Rows /\ \A i \in Id \ touched : in[i] = view[i]
    BY <1>2 DEF Paged, in
  <2> QED BY <2>1, <2>2, <2>3 DEF Paged
<1> QED BY <1>8, <1>9, <1>10 DEF in, B, n

-----------------------------------------------------------------------------
(* The steps of the read.                                                  *)

LEMMA GiveType ==
  ASSUME TypeOK, NEW B \in SUBSET (Id \X Key), Give(B)
  PROVE  /\ buf' \subseteq Id \X Key
         /\ last' \in {None} \cup (Key \X SUBSET Id)
         /\ cur' \in Id /\ cur' \in given' /\ pc' = "given"
         /\ given' \subseteq Id /\ again' \subseteq given'
<1>1. PICK p \in B :
        /\ buf' = B \ {p}
        /\ last' = IF last # None /\ last[1] = p[2]
                     THEN <<p[2], last[2] \cup {p[1]}>> ELSE <<p[2], {p[1]}>>
        /\ cur' = p[1] /\ given' = given \cup {p[1]}
        /\ again' = again \cup (given \cap {p[1]})
        /\ pc' = "given"
  BY DEF Give, Heads
<1>2. p[1] \in Id /\ p[2] \in Key /\ (last # None => last[2] \subseteq Id)
  BY Values
<1>3. last' \in Key \X SUBSET Id
  BY <1>1, <1>2
<1> QED BY <1>1, <1>2, <1>3 DEF TypeOK

(* The page grows and stays within its bounds.                             *)
LEMMA PageGrows ==
  ASSUME TypeOK
  PROVE  Smaller(page * Growth, MaxPage) \in 1 .. MaxPage
<1>1. page \in Nat /\ page >= 1 /\ Growth \in Nat /\ Growth >= 1
      /\ MaxPage \in Nat /\ MaxPage >= 1
  BY OrderedScanConstants DEF TypeOK
<1>2. page * Growth \in Nat /\ page * Growth >= 1
  BY <1>1
<1> QED BY <1>1, <1>2 DEF Smaller

LEMMA OpenSound ==
  ASSUME IInv, Open
  PROVE  IInv'
<1>1. /\ pc = "closed" /\ pc' = "reading" /\ start' = Seen
      /\ UNCHANGED <<stored, how, offset, page, last, cur, counted, given, again,
                     touched, shifted>>
      /\ TypeOK /\ tab = view /\ own = [i \in Id |-> None] /\ Fresh /\ offset = 0 /\ ~done
      /\ offset <= Cardinality(Id)
  BY DEF Open, IInv
<1>2. Seen = view
  <2>1. \A i \in Id : Seen[i] = view[i]
    BY <1>1 DEF Seen
  <2>2. Seen \in Rows /\ view \in Rows
    BY <1>1, SeenRows DEF TypeOK
  <2> HIDE DEF Seen
  <2> QED BY <2>1, <2>2 DEF Rows
<1>3. IF how.pk THEN buf' = Pairs(view) /\ done' = TRUE ELSE UNCHANGED <<buf, done>>
  BY <1>2 DEF Open, TakesAtOpen
<1>4. Pairs(view) \in SUBSET (Id \X Key)
  BY <1>1 DEF Pairs, Present, TypeOK, Rows
<1>5. TypeOK'
  BY <1>1, <1>2, <1>3, <1>4 DEF TypeOK, stored, Rows, Statement
<1>6. Stable'
  BY <1>1 DEF Stable, stored, TypeOK, Rows
<1>7. Passing'
  BY <1>1 DEF Passing, Fresh, Untouched, Present
<1>8. ReadSound'
  <2>1. CASE how.pk
    <3>1. Loaded(buf)' /\ AllLoaded(buf)'
      BY <1>1, <1>3, <2>1 DEF Loaded, AllLoaded, Fresh, Untouched, Present, Pairs, Before, stored
    <3> QED BY <1>1, <1>3, <1>7, <2>1, <3>1 DEF ReadSound
  <2>2. CASE ~how.pk
    <3>1. Fresh' /\ ~done' /\ offset' = 0 /\ Loaded(buf)'
      BY <1>1, <1>3, <2>2 DEF Fresh, Loaded, Before
    <3> QED BY <1>1, <1>7, <3>1 DEF ReadSound
  <2> QED BY <2>1, <2>2
<1> QED BY <1>1, <1>2, <1>3, <1>5, <1>6, <1>8 DEF IInv, stored

(* A row is given of what is loaded, in order.                             *)
LEMMA NextOfPageSound ==
  ASSUME IInv, NextOfPage
  PROVE  IInv' /\ (~shifted' /\ last # None => ~Before(last'[1], last[1]))
<1>1. /\ pc # "closed" /\ buf # {} /\ Give(buf)
      /\ UNCHANGED <<stored, how, offset, page, done, start, counted, touched, shifted>>
      /\ TypeOK /\ start = view /\ buf \in SUBSET (Id \X Key) /\ offset \in Nat
  BY DEF NextOfPage, IInv, TypeOK
<1>2. /\ buf' \subseteq Id \X Key /\ last' \in {None} \cup (Key \X SUBSET Id)
      /\ cur' \in Id /\ cur' \in given' /\ pc' = "given"
      /\ given' \subseteq Id /\ again' \subseteq given'
  BY <1>1, GiveType
<1>3. TypeOK'
  BY <1>1, <1>2 DEF TypeOK, stored, Rows, Statement
<1>4. ~how.pk => Stable'
  <2>1. given \subseteq given'
    BY <1>1 DEF Give
  <2> QED BY <1>1, <2>1 DEF IInv, Stable, stored
<1>5. ASSUME ~shifted'
      PROVE  ReadSound' /\ (last # None => ~Before(last'[1], last[1]))
  <2>1. ReadSound
    BY <1>1, <1>5 DEF IInv
  <2>2. Loaded(buf) /\ Passing /\ (done' => AllLoaded(buf))
    BY <1>1, <2>1 DEF ReadSound
  <2>3. ~done' => offset' > 0 /\ Paged(counted', offset', buf)
    BY <1>1, <2>1 DEF ReadSound, Fresh
  <2>4. offset' \in Nat /\ UNCHANGED <<how, view, touched>>
    BY <1>1 DEF stored
  <2> QED BY <1>1, <2>2, <2>3, <2>4, GiveSound
<1> QED BY <1>1, <1>2, <1>3, <1>4, <1>5 DEF IInv, stored

(* The next page, or the rest, is taken where the read had come to.        *)
LEMMA NextPageSound ==
  ASSUME IInv, NextPage
  PROVE  IInv' /\ (~shifted' /\ last # None => ~Before(last'[1], last[1]))
<1>1. /\ pc # "closed" /\ buf = {} /\ ~done
      /\ done' = (wrote \/ Cardinality(Taken) < page)
      /\ offset' = offset + Cardinality(Taken)
      /\ page' = Smaller(page * Growth, MaxPage)
      /\ counted' = Seen
      /\ shifted' = (shifted \/ (~wrote /\ offset > 0 /\ Seen # counted))
      /\ IF Taken # {}
           THEN Give(Taken)
           ELSE pc' = "ended" /\ UNCHANGED <<buf, last, cur, given, again>>
      /\ UNCHANGED <<stored, how, start, touched>>
      /\ TypeOK /\ start = view /\ offset <= Cardinality(Id) /\ ~how.pk
      /\ wrote \in BOOLEAN
  BY DEF NextPage, Advance, IInv, TypeOK
<1>2. /\ Taken \in SUBSET (Id \X Key)
      /\ Cardinality(Taken) \in Nat /\ Cardinality(Taken) <= Cardinality(Id)
      /\ Taken = {} => Cardinality(Taken) = 0
      /\ ~wrote => offset + Cardinality(Taken) <= Cardinality(Id)
      /\ Cardinality(Id) \in Nat
  BY <1>1, TakenSize
<1>3. page \in Nat /\ page >= 1 /\ offset \in Nat
  BY <1>1 DEF TypeOK
<1>4. /\ offset' \in Nat /\ offset' <= 2 * Cardinality(Id)
      /\ ~done' => offset' <= Cardinality(Id) /\ offset' > 0
      /\ Taken = {} => done'
  <2> DEFINE c == Cardinality(Taken)
             m == Cardinality(Id)
  <2>1. /\ c \in Nat /\ m \in Nat /\ c <= m /\ (Taken = {} => c = 0)
        /\ offset' = offset + c /\ offset <= m /\ (~wrote => offset + c <= m)
        /\ done' <=> wrote \/ c < page
    BY <1>1, <1>2
  <2> HIDE DEF c, m
  <2>2. /\ offset' \in Nat /\ offset' <= 2 * m
        /\ ~done' => offset' <= m /\ offset' > 0
        /\ c = 0 => done'
    BY <1>3, <2>1
  <2> QED BY <2>1, <2>2 DEF m
<1>5. /\ buf' \subseteq Id \X Key /\ last' \in {None} \cup (Key \X SUBSET Id)
      /\ cur' \in Id \cup {None} /\ given' \subseteq Id /\ again' \subseteq given'
      /\ pc' \in {"given", "ended"} /\ (pc' = "given" => cur' \in given')
      /\ given \subseteq given'
  <2>1. CASE Taken # {}
    <3>1. Give(Taken)
      BY <1>1, <2>1
    <3> HIDE DEF Taken
    <3>2. given \subseteq given'
      BY <3>1 DEF Give
    <3> QED BY <1>1, <1>2, <3>1, <3>2, GiveType
  <2>2. CASE Taken = {}
    BY <1>1, <2>2 DEF TypeOK
  <2> QED BY <2>1, <2>2
<1>6. TypeOK'
  <2>1. counted' \in Rows /\ page' \in 1 .. MaxPage
    BY <1>1, SeenRows, PageGrows
  <2>2. done' \in BOOLEAN /\ shifted' \in BOOLEAN
    BY <1>1 DEF TypeOK
  <2>3. offset' \in 0 .. 2 * Cardinality(Id)
    BY <1>2, <1>4
  <2> QED BY <1>1, <1>5, <2>1, <2>2, <2>3 DEF TypeOK, stored, Rows, Statement
<1>7. Stable'
  BY <1>1, <1>5 DEF IInv, Stable, stored
<1>8. ASSUME ~shifted'
      PROVE  ReadSound' /\ (last # None => ~Before(last'[1], last[1]))
  <2>1. ReadSound /\ Passing
    BY <1>1, <1>8 DEF IInv, ReadSound
  <2>2. /\ Loaded(Taken) /\ (done' => AllLoaded(Taken))
        /\ ~done' => Paged(counted', offset', Taken)
    <3>1. CASE wrote
      <4>1. Taken = Rest(Seen) /\ done'
        BY <1>1, <3>1 DEF Taken
      <4>2. Loaded(Rest(Seen)) /\ AllLoaded(Rest(Seen))
        BY <1>1, <2>1, RestSound
      <4> QED BY <4>1, <4>2
    <3>2. CASE ~wrote
      <4>1. Taken = Page(Seen) /\ (offset > 0 => Seen = counted)
        BY <1>1, <1>8, <3>2 DEF Taken
      <4>2. /\ Loaded(Page(Seen))
            /\ Cardinality(Page(Seen)) < page => AllLoaded(Page(Seen))
            /\ Paged(Seen, offset + Cardinality(Page(Seen)), Page(Seen))
        BY <1>1, <2>1, <4>1, PageSound
      <4>3. (done' <=> Cardinality(Page(Seen)) < page)
            /\ counted' = Seen /\ offset' = offset + Cardinality(Page(Seen))
        BY <1>1, <3>2, <4>1
      <4> QED BY <4>1, <4>2, <4>3
    <3> QED BY <3>1, <3>2
  <2>3. UNCHANGED <<how, view, touched>>
    BY <1>1 DEF stored
  <2>4. CASE Taken # {}
    <3>1. Give(Taken)
      BY <1>1, <2>4
    <3> HIDE DEF Taken
    <3> QED BY <1>1, <1>2, <1>4, <2>1, <2>2, <2>3, <3>1, GiveSound
  <2>5. CASE Taken = {}
    <3>1. pc' = "ended" /\ UNCHANGED <<buf, last, cur, given, again>> /\ done' /\ AllLoaded({})
      BY <1>1, <1>4, <2>2, <2>5
    <3>2. AllLoaded({})' /\ AllLoaded(buf)' /\ Loaded(buf)'
      BY <1>1, <2>3, <3>1 DEF AllLoaded, Loaded, Untouched, Present
    <3>3. Passing'
      BY <2>1, <2>3, <3>1 DEF Passing, Untouched, Present, Before
    <3>4. last # None => ~Before(last'[1], last[1])
      BY <1>1, <3>1, Values DEF Before
    <3> QED BY <3>1, <3>2, <3>3, <3>4 DEF ReadSound
  <2> QED BY <2>4, <2>5
<1> QED BY <1>1, <1>4, <1>5, <1>6, <1>7, <1>8 DEF IInv, stored

LEMMA EndOfReadSound ==
  ASSUME IInv, EndOfRead
  PROVE  IInv'
<1>1. /\ pc # "closed" /\ buf = {} /\ done /\ pc' = "ended"
      /\ UNCHANGED <<stored, how, pager, cur, observers>>
      /\ TypeOK /\ offset <= 2 * Cardinality(Id)
  BY DEF EndOfRead, IInv, TypeOK
<1>2. TypeOK' /\ Stable' = Stable
  BY <1>1 DEF TypeOK, Stable, stored, pager, observers, Rows, Statement
<1>3. ASSUME ~shifted PROVE ReadSound'
  <2>1. ReadSound /\ AllLoaded({})
    BY <1>1, <1>3 DEF IInv, ReadSound
  <2>2. Loaded(buf)' /\ Passing' /\ AllLoaded({})' /\ AllLoaded(buf)'
    BY <1>1, <2>1 DEF ReadSound, Loaded, Passing, AllLoaded, Untouched, Present,
                      Before, stored, pager, observers
  <2> QED BY <1>1, <2>2 DEF ReadSound, pager
<1> QED BY <1>1, <1>2, <1>3 DEF IInv, stored, pager, observers

-----------------------------------------------------------------------------
(* Writes, the statement's and others', leave the read as it is.           *)

LEMMA ReadUndisturbed ==
  ASSUME ReadSound, how \in Statement,
         UNCHANGED <<view, how, pager, start, counted, given, again, shifted>>,
         touched \subseteq touched', pc' # "ended"
  PROVE  ReadSound'
<1>1. UNCHANGED <<view, how, offset, page, buf, done, last, counted, given, again>>
  BY DEF pager
<1>2. Loaded(buf)'
  BY <1>1 DEF ReadSound, Loaded, Before
<1>3. Passing'
  BY <1>1 DEF ReadSound, Passing, Untouched, Present, Before
<1>4. done' => AllLoaded(buf)'
  BY <1>1 DEF ReadSound, AllLoaded, Untouched, Present
<1>5. ~done' /\ offset' = 0 => Fresh'
  BY <1>1 DEF ReadSound, Fresh
<1>6. ASSUME ~done', offset' > 0 PROVE Paged(counted, offset, buf)'
  <2>1. Paged(counted, offset, buf)
    BY <1>1, <1>6 DEF ReadSound
  <2>2. \A i : Rank(counted, i)' = Rank(counted, i)
    BY <1>1 DEF Rank, Ahead, Before, Present
  <2>3. Present(counted)' = Present(counted) /\ Rows' = Rows
    BY <1>1 DEF Present, Rows
  <2> QED BY <1>1, <2>1, <2>2, <2>3 DEF Paged, Before
<1> QED BY <1>2, <1>3, <1>4, <1>5, <1>6 DEF ReadSound

(* A write of rows already given, or of one read in advance.               *)
LEMMA WrittenSound ==
  ASSUME IInv, pc = "given", NEW changed \in [Id -> Key \cup {Gone, None}],
         Written(changed),
         ~how.pk => \A i \in Id \ touched : changed[i] # None =>
                      i \in given /\ changed[i] \in {view[i], Gone}
  PROVE  IInv'
<1>1. /\ handle' = "write" /\ pc' = "reading"
      /\ UNCHANGED <<view, changes, how, pager, cur, observers>>
      /\ TypeOK
  BY DEF Written, IInv
<1>2. /\ tab' \in Rows /\ own' \in [Id -> Key \cup {Gone, None}] /\ wrote' \in BOOLEAN
      /\ \A i \in Id : (tab'[i] = tab[i] \/ (changed[i] # None /\ tab'[i] = changed[i]))
                       /\ (own'[i] = own[i] \/ (changed[i] # None /\ own'[i] = changed[i]))
  <2>1. CASE Autocommits
    <3>1. /\ tab' = [i \in Id |-> IF changed[i] # None THEN changed[i] ELSE tab[i]]
          /\ UNCHANGED <<own, wrote>>
      BY <2>1 DEF Written
    <3> QED BY <1>1, <3>1 DEF TypeOK, Rows
  <2>2. CASE ~Autocommits
    <3>1. /\ own' = [i \in Id |-> IF changed[i] # None THEN changed[i] ELSE own[i]]
          /\ wrote' = TRUE
          /\ UNCHANGED tab
      BY <2>2 DEF Written
    <3> QED BY <1>1, <3>1 DEF TypeOK, Rows
  <2> QED BY <2>1, <2>2
<1>3. TypeOK'
  BY <1>1, <1>2 DEF TypeOK, pager, observers, Rows, Statement
<1>4. ASSUME ~how.pk PROVE Stable'
  <2>1. ASSUME NEW i \in Id \ touched
        PROVE  /\ own'[i] \in {None, view[i]} \/ (own'[i] = Gone /\ i \in given)
               /\ tab'[i] = view[i] \/ (tab'[i] = Gone /\ i \in given)
    <3>1. /\ own[i] \in {None, view[i]} \/ (own[i] = Gone /\ i \in given)
          /\ tab[i] = view[i] \/ (tab[i] = Gone /\ i \in given)
      BY <1>4 DEF IInv, Stable
    <3>2. changed[i] # None => i \in given /\ changed[i] \in {view[i], Gone}
      BY <1>4
    <3> QED BY <1>2, <3>1, <3>2
  <2> QED BY <1>1, <2>1 DEF Stable, observers
<1>5. ~shifted' => ReadSound'
  <2>1. ~shifted' => ReadSound
    BY <1>1 DEF IInv, observers
  <2>2. /\ how \in Statement /\ touched \subseteq touched' /\ pc' # "ended"
        /\ UNCHANGED <<view, how, pager, start, counted, given, again, shifted>>
    BY <1>1 DEF TypeOK, observers
  <2> QED BY <2>1, <2>2, ReadUndisturbed
<1> QED BY <1>1, <1>3, <1>4, <1>5 DEF IInv, pager, observers

LEMMA NowAtUntouched ==
  ASSUME IInv, ~how.pk, pc = "given", cur \notin touched, NowAt(cur) # Gone
  PROVE  NowAt(cur) = view[cur]
<1>1. cur \in Id \ touched
  BY DEF IInv, TypeOK
<1>2. /\ own[cur] \in {None, view[cur]} \/ own[cur] = Gone
      /\ tab[cur] = view[cur] \/ tab[cur] = Gone
  BY <1>1 DEF IInv, Stable
<1> QED BY <1>2 DEF NowAt

LEMMA WritesSound ==
  ASSUME IInv, DeleteRow \/ UpdateRow \/ WriteFails \/ \E j \in Id : MoveRow(j)
  PROVE  IInv'
<1>1. /\ pc = "given" /\ cur \in given /\ cur \in Id
      /\ own \in [Id -> Key \cup {Gone, None}] /\ tab \in Rows
  BY DEF IInv, TypeOK, DeleteRow, UpdateRow, WriteFails, MoveRow
<1>2. NowAt(cur) \in Key \cup {Gone}
  BY <1>1 DEF NowAt, Rows
<1>3. CASE DeleteRow
  <2> DEFINE c == [i \in Id |-> IF i = cur THEN Gone ELSE None]
  <2>1. Written(c) /\ c \in [Id -> Key \cup {Gone, None}]
    BY <1>3 DEF DeleteRow
  <2>2. ~how.pk => \A i \in Id \ touched : c[i] # None =>
                     i \in given /\ c[i] \in {view[i], Gone}
    BY <1>1
  <2> HIDE DEF c
  <2> QED BY <1>1, <2>1, <2>2, WrittenSound
<1>4. CASE UpdateRow
  <2> DEFINE c == [i \in Id |-> IF i = cur THEN NowAt(i) ELSE None]
  <2>1. Written(c) /\ NowAt(cur) # Gone
    BY <1>4 DEF UpdateRow
  <2>2. c \in [Id -> Key \cup {Gone, None}]
    BY <1>2
  <2>3. ~how.pk => \A i \in Id \ touched : c[i] # None =>
                     i \in given /\ c[i] \in {view[i], Gone}
    BY <1>1, <2>1, NowAtUntouched
  <2> HIDE DEF c
  <2> QED BY <1>1, <2>1, <2>2, <2>3, WrittenSound
<1>5. ASSUME NEW j \in Id, MoveRow(j) PROVE IInv'
  <2> DEFINE c == [i \in Id |-> CASE i = cur -> Gone
                                  [] i = j -> NowAt(cur)
                                  [] OTHER -> None]
  <2>1. Written(c) /\ how.pk
    BY <1>5 DEF MoveRow
  <2>2. c \in [Id -> Key \cup {Gone, None}]
    <3>1. \A i \in Id : c[i] \in Key \cup {Gone, None}
      BY <1>2
    <3> QED BY <3>1
  <2> HIDE DEF c
  <2> QED BY <1>1, <2>1, <2>2, WrittenSound
<1>6. CASE WriteFails
  <2>1. /\ handle' = "write" /\ pc' = "reading"
        /\ UNCHANGED <<tab, view, own, wrote, changes, how, pager, cur, observers>>
        /\ TypeOK
    BY <1>6 DEF WriteFails, IInv
  <2>2. TypeOK' /\ Stable' = Stable
    BY <2>1 DEF TypeOK, Stable, pager, observers, Rows, Statement
  <2>3. ~shifted' => ReadSound'
    <3>1. ~shifted' => ReadSound
      BY <1>1, <2>1 DEF IInv, observers
    <3>2. /\ how \in Statement /\ touched \subseteq touched' /\ pc' # "ended"
          /\ UNCHANGED <<view, how, pager, start, counted, given, again, shifted>>
      BY <2>1 DEF TypeOK, observers
    <3> QED BY <3>1, <3>2, ReadUndisturbed
  <2> QED BY <1>1, <2>1, <2>2, <2>3 DEF IInv, pager, observers
<1> QED BY <1>3, <1>4, <1>5, <1>6

LEMMA OthersCommitSound ==
  ASSUME IInv, NEW i \in Id, NEW k \in Key \cup {Gone}, OthersCommit(i, k)
  PROVE  IInv'
<1>1. /\ pc \in {"reading", "given"} /\ changes < MaxChanges
      /\ tab' = [tab EXCEPT ![i] = k] /\ changes' = changes + 1
      /\ touched' = touched \cup {i}
      /\ UNCHANGED <<view, own, wrote, handle, how, pc, pager, cur, start, counted,
                     given, again, shifted>>
      /\ TypeOK
  BY DEF OthersCommit, IInv
<1>2. changes' \in 0 .. MaxChanges
  BY <1>1, OrderedScanConstants DEF TypeOK
<1>3. TypeOK'
  BY <1>1, <1>2 DEF TypeOK, pager, Rows, Statement
<1>4. ~how.pk => Stable'
  BY <1>1 DEF IInv, Stable, TypeOK, Rows
<1>5. ~shifted' => ReadSound'
  <2>1. ~shifted' => ReadSound
    BY <1>1 DEF IInv
  <2>2. how \in Statement /\ touched \subseteq touched' /\ pc' # "ended"
    BY <1>1 DEF TypeOK
  <2> QED BY <1>1, <2>1, <2>2, ReadUndisturbed
<1> QED BY <1>1, <1>3, <1>4, <1>5 DEF IInv, pager

-----------------------------------------------------------------------------
(* The invariant holds at first, and a step keeps it and the order.        *)

LEMMA InitInv ==
  ASSUME Init
  PROVE  IInv
<1>1. Cardinality(Id) \in Nat
  BY OrderedScanConstants, FS_CardinalityType
<1>2. TypeOK
  <2>1. offset \in 0 .. 2 * Cardinality(Id) /\ page \in 1 .. MaxPage /\ changes \in 0 .. MaxChanges
    BY <1>1, OrderedScanConstants DEF Init
  <2>2. own \in [Id -> Key \cup {Gone, None}] /\ buf \subseteq Id \X Key
    BY DEF Init
  <2> QED BY <2>1, <2>2 DEF Init, TypeOK
<1>3. Fresh /\ ReadSound
  BY <1>1 DEF Init, Fresh, ReadSound, Loaded, Passing
<1>4. Stable
  BY <1>2 DEF Init, Stable
<1> QED BY <1>1, <1>2, <1>3, <1>4 DEF Init, IInv, Fresh

LEMMA StepInv ==
  ASSUME IInv, [Next]_vars
  PROVE  IInv' /\ (~shifted' /\ last # None => ~Before(last'[1], last[1]))
<1>1. last # None => ~Before(last[1], last[1])
  BY Values DEF IInv, Before
<1>2. UNCHANGED last => (last # None => ~Before(last'[1], last[1]))
  BY <1>1
<1>3. CASE UNCHANGED vars
  <2>1. UNCHANGED <<stored, how, pc, pager, cur, observers, last>>
    BY <1>3 DEF vars, pager
  <2>2. TypeOK' = TypeOK /\ Stable' = Stable
    BY <2>1 DEF TypeOK, Stable, stored, pager, observers, Rows, Statement
  <2>3. ReadSound' = ReadSound
    BY <2>1 DEF ReadSound, Loaded, Passing, AllLoaded, Paged, Fresh, Untouched,
                Present, Rank, Ahead, Before, Rows, stored, pager, observers
  <2> QED BY <1>2, <2>1, <2>2, <2>3 DEF IInv, Fresh, stored, pager, observers
<1>4. CASE Open
  BY <1>2, <1>4, OpenSound DEF Open
<1>5. CASE NextOfPage
  BY <1>5, NextOfPageSound
<1>6. CASE NextPage
  BY <1>6, NextPageSound
<1>7. CASE EndOfRead
  BY <1>2, <1>7, EndOfReadSound DEF EndOfRead, pager
<1>8. CASE DeleteRow \/ UpdateRow \/ WriteFails \/ \E j \in Id : MoveRow(j)
  <2>1. UNCHANGED last
    BY <1>8 DEF DeleteRow, UpdateRow, WriteFails, MoveRow, Written, pager
  <2> QED BY <1>2, <1>8, <2>1, WritesSound
<1>9. ASSUME NEW i \in Id, NEW k \in Key \cup {Gone}, OthersCommit(i, k)
      PROVE  IInv' /\ UNCHANGED last
  BY <1>9, OthersCommitSound DEF OthersCommit, pager
<1> QED BY <1>2, <1>3, <1>4, <1>5, <1>6, <1>7, <1>8, <1>9 DEF Next

(* The read of a page, of the rest and of rows taken at open all keep to   *)
(* IInv (open_read, Cursor::ordered, Pager::fill, Cursor::next_row).       *)
THEOREM Invariance == Spec => []IInv
<1> USE DEF Spec
<1>1. Init => IInv
  BY InitInv
<1>2. IInv /\ [Next]_vars => IInv'
  BY StepInv
<1> QED BY <1>1, <1>2, PTL

(* The variables keep their types; the offset stays within two times the   *)
(* rows and the page within its bound.                                     *)
THEOREM TypeCorrect == Spec => []TypeOK
<1>1. IInv => TypeOK
  BY DEF IInv
<1> QED BY <1>1, Invariance, PTL

(* While pages are counted in the same rows, no row others left alone is   *)
(* given twice by Cursor::next_row, nor one the statement made itself.     *)
THEOREM GivenOnceAlways == Spec => []GivenOnce
<1>1. IInv => GivenOnce
  BY DEF IInv, GivenOnce, ReadSound, Passing
<1> QED BY <1>1, Invariance, PTL

(* Nor is one passed over, whether the pages went on or the rest was read  *)
(* in one go after the statement's own writes (Pager::fill).               *)
THEOREM NothingSkippedAlways == Spec => []NothingSkipped
<1>1. ASSUME IInv PROVE NothingSkipped
  <2> SUFFICES ASSUME ~shifted, start # None, NEW i \in Present(start) \ touched, Passed(i)
               PROVE  i \in given
    BY DEF NothingSkipped
  <2>1. start = view /\ ReadSound /\ i \in Untouched
    BY <1>1 DEF IInv, Untouched
  <2>2. CASE pc = "ended"
    BY <2>1, <2>2 DEF ReadSound, AllLoaded
  <2>3. CASE last # None /\ Before(start[i], last[1])
    BY <2>1, <2>3 DEF ReadSound, Passing
  <2> QED BY <2>2, <2>3 DEF Passed
<1> QED BY <1>1, Invariance, PTL

(* Rows are given in the order of the column, page after page and from a   *)
(* page to the rest.                                                       *)
THEOREM InOrderAlways == Spec => InOrder
<1>1. IInv /\ [Next]_vars =>
        [~shifted' /\ last # None => ~Before(last'[1], last[1])]_vars
  BY StepInv
<1> QED BY <1>1, Invariance, PTL DEF InOrder, Spec
=============================================================================
