--------------------------- MODULE IndexReadProofs ---------------------------
(***************************************************************************)
(* Theorems about IndexRead, for every key, every table of rows and every  *)
(* call MariaDB may make: a read through an index gives the rows MariaDB's *)
(* own comparison holds for the call, each once, in the order promised,    *)
(* and an empty range ends.                                                *)
(***************************************************************************)
EXTENDS IndexRead, WellFoundedInduction, TLAPS

-----------------------------------------------------------------------------
(* Values.                                                                 *)

LEMMA CellParts ==
  ASSUME NEW v \in Cell
  PROVE  /\ v.pos \in Int /\ v.byte \in Int
         /\ v = NULL => v.pos = -1 /\ v.byte = -1
         /\ v # NULL => v.pos >= 0 /\ v.byte >= 0
<1>1. CASE v = NULL
  BY <1>1 DEF NULL
<1>2. CASE v \in [pos : Nat, byte : Nat, pad : Nat]
  BY <1>2 DEF NULL
<1> QED BY <1>1, <1>2 DEF Cell

(* A value of a column against one of a key, or past the column.           *)
Comparable(p, v, w) ==
  /\ v \in Cell \ {Beyond} /\ w \in Cell
  /\ IF w = Beyond THEN v.pos < w.pos ELSE Agree(p, v, w)

(* A condition of stoolap's that can be met is met by values MariaDB has   *)
(* there; the values it leaves out are NULLs under an upper bound.         *)
LEMMA CompareHolds ==
  ASSUME NEW p, NEW v, NEW w, Comparable(p, v, w), ~KeyPartNeedsFilter(p),
         NEW op \in {"=", ">", ">=", "<", "<="}, op = "=" \/ PartSafe(p)
  PROVE  /\ Compare(v, op, w) => PosHolds(v.pos, op, w.pos)
         /\ PosHolds(v.pos, op, w.pos) =>
              Compare(v, op, w) \/ (op \in Upper /\ v = NULL /\ w # NULL)
<1>1. /\ v \in Cell /\ w \in Cell
      /\ v.pos \in Int /\ v.byte \in Int /\ w.pos \in Int /\ w.byte \in Int
      /\ v = NULL => v.pos = -1 /\ v.byte = -1
      /\ v # NULL => v.pos >= 0 /\ v.byte >= 0
      /\ w = NULL => w.pos = -1 /\ w.byte = -1
      /\ w # NULL => w.pos >= 0 /\ w.byte >= 0
  BY CellParts DEF Comparable
<1>2. Beyond # NULL
  BY IndexReadConstants
<1>3. Beyond.pos \in Int
  BY CellParts, IndexReadConstants
<1>4. /\ op = "=" => (PosHolds(v.pos, op, w.pos) <=> v.pos = w.pos)
      /\ op = ">" => (PosHolds(v.pos, op, w.pos) <=> v.pos > w.pos)
      /\ op = ">=" => (PosHolds(v.pos, op, w.pos) <=> v.pos >= w.pos)
      /\ op = "<" => (PosHolds(v.pos, op, w.pos) <=> v.pos < w.pos)
      /\ op = "<=" => (PosHolds(v.pos, op, w.pos) <=> v.pos <= w.pos)
  BY DEF PosHolds
<1>5. /\ op = "=" => (Stands(v, op, w) <=> v # NULL /\ v.byte = w.byte)
      /\ op = ">" => (Stands(v, op, w) <=> v # NULL /\ v.byte > w.byte)
      /\ op = ">=" => (Stands(v, op, w) <=> v # NULL /\ v.byte >= w.byte)
      /\ op = "<" => (Stands(v, op, w) <=> v # NULL /\ v.byte < w.byte)
      /\ op = "<=" => (Stands(v, op, w) <=> v # NULL /\ v.byte <= w.byte)
  BY DEF Stands
<1>6. /\ w = NULL => (Compare(v, op, w) <=>
                       \/ op \in {"=", "<="} /\ v = NULL
                       \/ op = ">" /\ v # NULL
                       \/ op = ">=")
      /\ w = Beyond => (Compare(v, op, w) <=> op \in Upper)
      /\ w # NULL /\ w # Beyond => (Compare(v, op, w) <=> Stands(v, op, w))
  BY <1>2 DEF Compare
<1>7. CASE w = NULL
  BY <1>1, <1>4, <1>6, <1>7
<1>8. CASE w = Beyond
  <2>1. v.pos < w.pos
    BY <1>8 DEF Comparable
  <2> QED BY <1>1, <1>2, <1>4, <1>6, <1>8, <2>1 DEF Upper
<1>9. CASE w # NULL /\ w # Beyond
  <2>1. (v.byte = w.byte <=> v.pos = w.pos)
    BY <1>9 DEF Comparable, Agree
  <2>2. op # "=" => (v.byte < w.byte <=> v.pos < w.pos)
    BY <1>9 DEF Comparable, Agree
  <2>3. CASE v = NULL
    BY <1>1, <1>4, <1>5, <1>6, <1>9, <2>3 DEF Upper
  <2>4. CASE v # NULL
    BY <1>1, <1>4, <1>5, <1>6, <1>9, <2>1, <2>2, <2>4
  <2> QED BY <2>3, <2>4
<1> QED BY <1>7, <1>8, <1>9

LEMMA NeverCompares ==
  ASSUME NEW v, NEW op \in {"=", ">", ">=", "<", "<="}, NEW w, Never(op, w)
  PROVE  ~Compare(v, op, w)
BY IndexReadConstants DEF Never, Compare, Upper

-----------------------------------------------------------------------------
(* Rows and keys.                                                          *)

(* The table and its key, which no read changes.                           *)
Stored == key \in Keys /\ rows \in Tables(key)

LEMMA RowComparable ==
  ASSUME Stored, NEW r \in rows, NEW b, KeyOf(key, b), NEW i \in DOMAIN b
  PROVE  /\ i \in Parts /\ Column(Part(i))
         /\ Comparable(Part(i), r.k[i], b[i])
         /\ r.k[i] \in Values(Part(i))
         /\ r.k[i].pos \in Int /\ b[i].pos \in Int
<1>1. b \in Seq(Cell) /\ Len(b) \in 1 .. Len(key.parts) /\ key.parts \in Seq(Kind)
  BY IndexReadConstants DEF KeyOf, Stored
<1>2. i \in Parts
  BY <1>1 DEF Parts
<1>3. Column(Part(i)) /\ r.k[i] \in Values(Part(i))
  BY <1>2, IndexReadConstants DEF Stored, Part, Parts
<1>4. r.k[i] \in Cell \ {Beyond}
  BY <1>3 DEF Column
<1>5. b[i] \in Cell
  BY <1>1
<1>6. IF b[i] = Beyond THEN r.k[i].pos < b[i].pos ELSE Agree(Part(i), r.k[i], b[i])
  BY <1>3 DEF KeyOf, Part
<1> QED BY <1>2, <1>3, <1>4, <1>5, <1>6, CellParts DEF Comparable

LEMMA KeyParts ==
  ASSUME Stored, NEW b, KeyOf(key, b)
  PROVE  /\ Len(b) \in Nat /\ Len(b) >= 1 /\ DOMAIN b = 1 .. Len(b)
         /\ DOMAIN b \subseteq Parts /\ Parts \subseteq Nat
<1>1. b \in Seq(Cell) /\ Len(b) \in 1 .. Len(key.parts) /\ key.parts \in Seq(Kind)
  BY IndexReadConstants DEF KeyOf, Stored
<1> QED BY <1>1 DEF Parts

LEMMA LeastOf ==
  ASSUME NEW T \in SUBSET Nat, T # {}
  PROVE  \E i \in T : \A j \in T : i <= j
<1> DEFINE R == OpToRel(<, Nat)
<1>1. IsWellFoundedOn(R, Nat)
  BY NatLessThanWellFounded
<1>2. \A x, y \in Nat : x < y => <<x, y>> \in R
  BY DEF OpToRel
<1> HIDE DEF R
<1>3. PICK i \in T : \A j \in T : <<j, i>> \notin R
  BY <1>1, WFMin
<1>4. ASSUME NEW j \in T PROVE i <= j
  <2>1. i \in Nat /\ j \in Nat
    OBVIOUS
  <2>2. ~(j < i)
    <3>1. <<j, i>> \notin R
      BY <1>3
    <3>2. j < i => <<j, i>> \in R
      BY <1>2, <2>1, Zenon
    <3> QED BY <3>1, <3>2
  <2> QED BY <2>1, <2>2
<1> QED BY <1>4

(* A row and a key that are not the same differ first somewhere.           *)
LEMMA FirstDifference ==
  ASSUME Stored, NEW r \in rows, NEW b, KeyOf(key, b), ~Same(r, b)
  PROVE  \E i \in DOMAIN b : SameTo(r, b, i) /\ r.k[i].pos # b[i].pos
<1> DEFINE T == {i \in DOMAIN b : r.k[i].pos # b[i].pos}
<1>1. T # {}
  BY DEF Same
<1>2. DOMAIN b = 1 .. Len(b) /\ Len(b) \in Nat
  BY KeyParts
<1>3. T \in SUBSET Nat
  BY <1>2
<1>4. PICK i \in T : \A j \in T : i <= j
  <2> HIDE DEF T
  <2> QED BY <1>1, <1>3, LeastOf
<1>5. ASSUME NEW j \in 1 .. i - 1 PROVE r.k[j].pos = b[j].pos
  BY <1>2, <1>4
<1> QED BY <1>4, <1>5 DEF SameTo

(* The ways a row can stand to a key exclude each other and are all.       *)
LEMMA LessSameMore ==
  ASSUME Stored, NEW r \in rows, NEW b, KeyOf(key, b)
  PROVE  /\ Less(r, b) \/ Same(r, b) \/ More(r, b)
         /\ ~(Less(r, b) /\ Same(r, b)) /\ ~(More(r, b) /\ Same(r, b))
         /\ ~(Less(r, b) /\ More(r, b))
<1>1. \A i \in DOMAIN b : r.k[i].pos \in Int /\ b[i].pos \in Int
  BY RowComparable
<1>2. DOMAIN b = 1 .. Len(b) /\ Len(b) \in Nat
  BY KeyParts
<1>3. ~Same(r, b) => Less(r, b) \/ More(r, b)
  <2> SUFFICES ASSUME ~Same(r, b) PROVE Less(r, b) \/ More(r, b)
    OBVIOUS
  <2>1. PICK i \in DOMAIN b : SameTo(r, b, i) /\ r.k[i].pos # b[i].pos
    BY FirstDifference
  <2>2. r.k[i].pos < b[i].pos \/ r.k[i].pos > b[i].pos
    BY <1>1, <2>1
  <2> QED BY <2>1, <2>2 DEF Less, More
<1>4. ~(Less(r, b) /\ Same(r, b)) /\ ~(More(r, b) /\ Same(r, b))
  BY <1>1 DEF Less, More, Same
<1>5. ~(Less(r, b) /\ More(r, b))
  <2> SUFFICES ASSUME NEW i \in DOMAIN b, SameTo(r, b, i), r.k[i].pos < b[i].pos,
                      NEW j \in DOMAIN b, SameTo(r, b, j), r.k[j].pos > b[j].pos
               PROVE  FALSE
    BY DEF Less, More
  <2>1. i \in Nat /\ j \in Nat /\ i >= 1 /\ j >= 1
    BY <1>2
  <2>2. CASE i < j
    BY <1>1, <2>1, <2>2 DEF SameTo
  <2>3. CASE j < i
    BY <1>1, <2>1, <2>3 DEF SameTo
  <2>4. CASE i = j
    BY <1>1, <2>4
  <2> QED BY <2>1, <2>2, <2>3, <2>4
<1> QED BY <1>3, <1>4, <1>5

-----------------------------------------------------------------------------
(* Bounds.                                                                 *)

LEMMA ImpossibleMeetsNone ==
  ASSUME NEW r, NEW b, b.op \in {"=", ">", ">=", "<", "<="}, Impossible(b)
  PROVE  ~Meets(r, b)
<1>1. b.mode # "leading"
  BY DEF Impossible, Composite
<1>2. CASE Composite(b)
  <2>1. \A leg \in DOMAIN b.k : LegNever(b, leg)
    BY <1>1, <1>2 DEF Impossible
  <2>2. ASSUME NEW leg \in DOMAIN b.k PROVE ~LegHolds(r, b, leg)
    <3>1. PICK i \in 1 .. leg : Never(LegOp(b, leg, i), b.k[i])
      BY <2>1 DEF LegNever
    <3>2. LegOp(b, leg, i) \in {"=", ">", ">=", "<", "<="}
      BY DEF LegOp
    <3>3. ~Compare(r.k[i], LegOp(b, leg, i), b.k[i])
      BY <3>1, <3>2, NeverCompares
    <3> QED BY <3>3 DEF LegHolds
  <2> QED BY <1>1, <1>2, <2>2 DEF Meets, Legs
<1>3. CASE ~Composite(b)
  <2>1. PICK i \in DOMAIN b.k \ b.skip : Never(PartOp(b, i), b.k[i])
    BY <1>1, <1>3 DEF Impossible
  <2>2. PartOp(b, i) \in {"=", ">", ">=", "<", "<="}
    BY DEF PartOp
  <2>3. ~Compare(r.k[i], PartOp(b, i), b.k[i])
    BY <2>1, <2>2, NeverCompares
  <2> QED BY <1>1, <1>3, <2>1, <2>3 DEF Meets, Lookup
<1> QED BY <1>2, <1>3

(* What a bound of a range asks of a row by MariaDB's comparison.          *)
Holds(r, k, op) ==
  CASE op = "=" -> Same(r, k)
    [] op = ">" -> More(r, k)
    [] op = ">=" -> ~Less(r, k)
    [] op = "<" -> Less(r, k)
    [] op = "<=" -> ~More(r, k)

(* A bound's leg: the parts before it the same, itself past or, the last,  *)
(* by the operator.                                                        *)
LegAsks(r, b, leg) ==
  SameTo(r, b.k, leg) /\ PosHolds(r.k[leg].pos, LegOp(b, leg, leg), b.k[leg].pos)

LEMMA LegAsksAsHolds ==
  ASSUME Stored, NEW r \in rows, NEW b, KeyOf(key, b.k),
         b.op \in {">", ">=", "<", "<="}
  PROVE  Holds(r, b.k, b.op) <=> \E leg \in DOMAIN b.k : LegAsks(r, b, leg)
<1> DEFINE n == Len(b.k)
<1>1. n \in Nat /\ n >= 1 /\ DOMAIN b.k = 1 .. n
  BY KeyParts
<1>2. \A i \in DOMAIN b.k : r.k[i].pos \in Int /\ b.k[i].pos \in Int
  BY RowComparable
<1>3. /\ Less(r, b.k) \/ Same(r, b.k) \/ More(r, b.k)
      /\ ~(Less(r, b.k) /\ Same(r, b.k)) /\ ~(More(r, b.k) /\ Same(r, b.k))
      /\ ~(Less(r, b.k) /\ More(r, b.k))
  BY LessSameMore
<1>4. Same(r, b.k) <=> SameTo(r, b.k, n) /\ r.k[n].pos = b.k[n].pos
  BY <1>1 DEF Same, SameTo
<1>5. /\ Less(r, b.k) <=>
           \E i \in DOMAIN b.k : SameTo(r, b.k, i) /\ r.k[i].pos < b.k[i].pos
      /\ More(r, b.k) <=>
           \E i \in DOMAIN b.k : SameTo(r, b.k, i) /\ r.k[i].pos > b.k[i].pos
  BY DEF Less, More
<1>6. \A leg \in DOMAIN b.k :
        LegOp(b, leg, leg) = IF leg < n THEN (IF b.op \in Upper THEN "<" ELSE ">") ELSE b.op
  <2> SUFFICES ASSUME NEW leg \in DOMAIN b.k
               PROVE  LegOp(b, leg, leg) =
                        IF leg < n THEN (IF b.op \in Upper THEN "<" ELSE ">") ELSE b.op
    OBVIOUS
  <2>1. ~(leg < leg) /\ Len(b.k) = n
    BY <1>1
  <2> QED BY <2>1 DEF LegOp
<1>7. n \in DOMAIN b.k /\ \A i \in DOMAIN b.k : ~(i < n) => i = n
  BY <1>1
<1> HIDE DEF n
<1>8. CASE b.op = ">"
  <2>1. \A leg \in DOMAIN b.k : LegOp(b, leg, leg) = ">"
    BY <1>6, <1>8 DEF Upper
  <2>2. \A leg \in DOMAIN b.k : LegAsks(r, b, leg) <=>
          SameTo(r, b.k, leg) /\ r.k[leg].pos > b.k[leg].pos
    BY <2>1 DEF LegAsks, PosHolds
  <2> QED BY <1>1, <1>5, <1>8, <2>2 DEF Holds
<1>9. CASE b.op = "<"
  <2>1. \A leg \in DOMAIN b.k : LegOp(b, leg, leg) = "<"
    BY <1>6, <1>9 DEF Upper
  <2>2. \A leg \in DOMAIN b.k : LegAsks(r, b, leg) <=>
          SameTo(r, b.k, leg) /\ r.k[leg].pos < b.k[leg].pos
    BY <2>1 DEF LegAsks, PosHolds
  <2> QED BY <1>1, <1>5, <1>9, <2>2 DEF Holds
<1>10. CASE b.op = ">="
  <2>1. \A leg \in DOMAIN b.k : LegOp(b, leg, leg) = IF leg < n THEN ">" ELSE ">="
    BY <1>6, <1>10 DEF Upper
  <2>2. \A leg \in DOMAIN b.k : leg < n => (LegAsks(r, b, leg) <=>
          SameTo(r, b.k, leg) /\ r.k[leg].pos > b.k[leg].pos)
    BY <2>1 DEF LegAsks, PosHolds
  <2>3. LegAsks(r, b, n) <=> SameTo(r, b.k, n) /\ r.k[n].pos >= b.k[n].pos
    <3>1. LegOp(b, n, n) = ">="
      BY <1>1, <1>7, <2>1
    <3> QED BY <3>1 DEF LegAsks, PosHolds
  <2>4. (\E leg \in DOMAIN b.k : LegAsks(r, b, leg)) <=> More(r, b.k) \/ Same(r, b.k)
    <3>1. ASSUME NEW leg \in DOMAIN b.k, LegAsks(r, b, leg)
          PROVE  More(r, b.k) \/ Same(r, b.k)
      <4>1. CASE leg < n
        BY <1>5, <2>2, <3>1, <4>1
      <4>2. CASE leg = n
        BY <1>2, <1>4, <1>5, <1>7, <2>3, <3>1, <4>2
      <4> QED BY <1>7, <4>1, <4>2
    <3>2. ASSUME Same(r, b.k) PROVE LegAsks(r, b, n)
      BY <1>2, <1>4, <1>7, <2>3, <3>2
    <3>3. ASSUME NEW leg \in DOMAIN b.k, SameTo(r, b.k, leg),
                 r.k[leg].pos > b.k[leg].pos
          PROVE  LegAsks(r, b, leg)
      <4>1. CASE leg < n
        BY <2>2, <3>3, <4>1
      <4>2. CASE leg = n
        BY <1>2, <2>3, <3>3, <4>2
      <4> QED BY <1>7, <4>1, <4>2
    <3> QED BY <1>5, <1>7, <3>1, <3>2, <3>3
  <2> QED BY <1>1, <1>3, <1>10, <2>4 DEF Holds
<1>11. CASE b.op = "<="
  <2>1. \A leg \in DOMAIN b.k : LegOp(b, leg, leg) = IF leg < n THEN "<" ELSE "<="
    BY <1>6, <1>11 DEF Upper
  <2>2. \A leg \in DOMAIN b.k : leg < n => (LegAsks(r, b, leg) <=>
          SameTo(r, b.k, leg) /\ r.k[leg].pos < b.k[leg].pos)
    BY <2>1 DEF LegAsks, PosHolds
  <2>3. LegAsks(r, b, n) <=> SameTo(r, b.k, n) /\ r.k[n].pos <= b.k[n].pos
    <3>1. LegOp(b, n, n) = "<="
      BY <1>1, <1>7, <2>1
    <3> QED BY <3>1 DEF LegAsks, PosHolds
  <2>4. (\E leg \in DOMAIN b.k : LegAsks(r, b, leg)) <=> Less(r, b.k) \/ Same(r, b.k)
    <3>1. ASSUME NEW leg \in DOMAIN b.k, LegAsks(r, b, leg)
          PROVE  Less(r, b.k) \/ Same(r, b.k)
      <4>1. CASE leg < n
        BY <1>5, <2>2, <3>1, <4>1
      <4>2. CASE leg = n
        BY <1>2, <1>4, <1>5, <1>7, <2>3, <3>1, <4>2
      <4> QED BY <1>7, <4>1, <4>2
    <3>2. ASSUME Same(r, b.k) PROVE LegAsks(r, b, n)
      BY <1>2, <1>4, <1>7, <2>3, <3>2
    <3>3. ASSUME NEW leg \in DOMAIN b.k, SameTo(r, b.k, leg),
                 r.k[leg].pos < b.k[leg].pos
          PROVE  LegAsks(r, b, leg)
      <4>1. CASE leg < n
        BY <2>2, <3>3, <4>1
      <4>2. CASE leg = n
        BY <1>2, <2>3, <3>3, <4>2
      <4> QED BY <1>7, <4>1, <4>2
    <3> QED BY <1>5, <1>7, <3>1, <3>2, <3>3
  <2> QED BY <1>1, <1>3, <1>11, <2>4 DEF Holds
<1> QED BY <1>8, <1>9, <1>10, <1>11

-----------------------------------------------------------------------------
(* What the conditions let through.                                        *)

Ops == {"=", ">", ">=", "<", "<="}

(* A key whose every part stoolap can look up by the operator.             *)
Served(k, op) ==
  \A i \in DOMAIN k : /\ ~KeyPartNeedsFilter(Part(i))
                      /\ op = "=" \/ PartSafe(Part(i))

LEMMA PartCompares ==
  ASSUME Stored, NEW r \in rows, NEW k, KeyOf(key, k), NEW i \in DOMAIN k,
         NEW op \in Ops, Served(k, op), NEW o \in Ops, o = "=" \/ op # "="
  PROVE  /\ Compare(r.k[i], o, k[i]) => PosHolds(r.k[i].pos, o, k[i].pos)
         /\ PosHolds(r.k[i].pos, o, k[i].pos) =>
              \/ Compare(r.k[i], o, k[i])
              \/ o \in Upper /\ r.k[i] = NULL /\ k[i] # NULL
<1>1. Comparable(Part(i), r.k[i], k[i])
  BY RowComparable
<1>2. ~KeyPartNeedsFilter(Part(i)) /\ (o = "=" \/ PartSafe(Part(i)))
  BY DEF Served
<1> QED BY <1>1, <1>2, CompareHolds DEF Ops

LEMMA EqualCompares ==
  ASSUME Stored, NEW r \in rows, NEW k, KeyOf(key, k), NEW i \in DOMAIN k,
         NEW op \in Ops, Served(k, op)
  PROVE  Compare(r.k[i], "=", k[i]) <=> r.k[i].pos = k[i].pos
<1>1. "=" \in Ops /\ "=" \notin Upper
  BY DEF Ops, Upper
<1>2. PosHolds(r.k[i].pos, "=", k[i].pos) <=> r.k[i].pos = k[i].pos
  BY DEF PosHolds
<1> QED BY <1>1, <1>2, PartCompares

(* What a lookup asks: the last part by the operator, those before it the  *)
(* same.                                                                   *)
KeyAsks(r, k, op) ==
  SameTo(r, k, Len(k)) /\ PosHolds(r.k[Len(k)].pos, op, k[Len(k)].pos)

LEMMA Positions ==
  ASSUME NEW v \in Int, NEW w \in Int
  PROVE  /\ PosHolds(v, "=", w) <=> v = w
         /\ PosHolds(v, ">", w) <=> v > w
         /\ PosHolds(v, ">=", w) <=> v >= w
         /\ PosHolds(v, "<", w) <=> v < w
         /\ PosHolds(v, "<=", w) <=> v <= w
BY DEF PosHolds

LEMMA LookupHolds ==
  ASSUME Stored, NEW r \in rows, NEW b, KeyOf(key, b.k), b.op \in Ops,
         Served(b.k, b.op), b.skip = {}
  PROVE  /\ Lookup(r, b) => KeyAsks(r, b.k, b.op)
         /\ KeyAsks(r, b.k, b.op) =>
              Lookup(r, b) \/ (b.op \in Upper /\ NullBelow(r, b.k))
<1> DEFINE n == Len(b.k)
<1>1. n \in Nat /\ n >= 1 /\ DOMAIN b.k = 1 .. n
  BY KeyParts
<1>2. Lookup(r, b) <=> \A i \in DOMAIN b.k : Compare(r.k[i], PartOp(b, i), b.k[i])
  BY DEF Lookup
<1>3. PartOp(b, n) = b.op /\ \A i \in DOMAIN b.k : i # n => PartOp(b, i) = "="
  BY DEF PartOp
<1>4. n \in DOMAIN b.k /\ \A i : i \in 1 .. n - 1 <=> i \in DOMAIN b.k /\ i # n
  BY <1>1
<1>5. SameTo(r, b.k, n) <=>
        \A i \in DOMAIN b.k : i # n => Compare(r.k[i], "=", b.k[i])
  <2>1. \A i \in DOMAIN b.k : Compare(r.k[i], "=", b.k[i]) <=> r.k[i].pos = b.k[i].pos
    BY EqualCompares
  <2> HIDE DEF n
  <2> QED BY <1>4, <2>1 DEF SameTo
<1>6. /\ Compare(r.k[n], b.op, b.k[n]) => PosHolds(r.k[n].pos, b.op, b.k[n].pos)
      /\ PosHolds(r.k[n].pos, b.op, b.k[n].pos) =>
           \/ Compare(r.k[n], b.op, b.k[n])
           \/ b.op \in Upper /\ r.k[n] = NULL /\ b.k[n] # NULL
  <2>1. b.op = "=" \/ b.op # "="
    OBVIOUS
  <2> HIDE DEF n
  <2> QED BY <1>4, <2>1, PartCompares
<1> HIDE DEF n
<1>7. Lookup(r, b) <=> SameTo(r, b.k, n) /\ Compare(r.k[n], b.op, b.k[n])
  BY <1>2, <1>3, <1>4, <1>5
<1>8. SameTo(r, b.k, n) /\ r.k[n] = NULL /\ b.k[n] # NULL => NullBelow(r, b.k)
  BY <1>4 DEF NullBelow
<1>9. KeyAsks(r, b.k, b.op) <=>
        SameTo(r, b.k, n) /\ PosHolds(r.k[n].pos, b.op, b.k[n].pos)
  BY DEF KeyAsks, n
<1> QED BY <1>6, <1>7, <1>8, <1>9

LEMMA LegHoldsAsAsked ==
  ASSUME Stored, NEW r \in rows, NEW b, KeyOf(key, b.k),
         b.op \in {">", ">=", "<", "<="}, Served(b.k, b.op), NEW leg \in DOMAIN b.k
  PROVE  /\ LegHolds(r, b, leg) => LegAsks(r, b, leg)
         /\ LegAsks(r, b, leg) =>
              LegHolds(r, b, leg) \/ (b.op \in Upper /\ NullBelow(r, b.k))
<1> DEFINE o == LegOp(b, leg, leg)
<1>1. leg \in Nat /\ leg >= 1 /\ DOMAIN b.k = 1 .. Len(b.k) /\ Len(b.k) \in Nat
  BY KeyParts
<1>2. \A i \in 1 .. leg : i # leg => LegOp(b, leg, i) = "="
  BY <1>1 DEF LegOp
<1>3. o \in {">", ">=", "<", "<="} /\ (o \in Upper <=> b.op \in Upper)
  <2>1. ~(leg < leg)
    BY <1>1
  <2> QED BY <1>1, <2>1 DEF LegOp, Upper
<1>4. /\ \A i : i \in 1 .. leg - 1 <=> i \in 1 .. leg /\ i # leg
      /\ leg \in 1 .. leg /\ 1 .. leg \subseteq DOMAIN b.k
  BY <1>1
<1>5. b.op \in Ops /\ o \in Ops /\ b.op # "="
  BY <1>3 DEF Ops
<1> HIDE DEF o
<1>6. SameTo(r, b.k, leg) <=>
        \A i \in 1 .. leg : i # leg => Compare(r.k[i], "=", b.k[i])
  <2>1. \A i \in DOMAIN b.k : Compare(r.k[i], "=", b.k[i]) <=> r.k[i].pos = b.k[i].pos
    BY <1>5, EqualCompares
  <2> QED BY <1>4, <2>1 DEF SameTo
<1>7. /\ Compare(r.k[leg], o, b.k[leg]) => PosHolds(r.k[leg].pos, o, b.k[leg].pos)
      /\ PosHolds(r.k[leg].pos, o, b.k[leg].pos) =>
           \/ Compare(r.k[leg], o, b.k[leg])
           \/ o \in Upper /\ r.k[leg] = NULL /\ b.k[leg] # NULL
  BY <1>5, PartCompares
<1>8. LegHolds(r, b, leg) <=> SameTo(r, b.k, leg) /\ Compare(r.k[leg], o, b.k[leg])
  BY <1>2, <1>4, <1>6 DEF LegHolds, o
<1>9. SameTo(r, b.k, leg) /\ r.k[leg] = NULL /\ b.k[leg] # NULL => NullBelow(r, b.k)
  BY DEF NullBelow
<1>10. LegAsks(r, b, leg) <=>
         SameTo(r, b.k, leg) /\ PosHolds(r.k[leg].pos, o, b.k[leg].pos)
  BY DEF LegAsks, o
<1> QED BY <1>3, <1>7, <1>8, <1>9, <1>10

(* The condition on the first part adds nothing to the legs.               *)
LEMMA LeadHolds ==
  ASSUME Stored, NEW r \in rows, NEW b, KeyOf(key, b.k),
         b.op \in {">", ">=", "<", "<="}, Served(b.k, b.op),
         NEW leg \in DOMAIN b.k, LegAsks(r, b, leg)
  PROVE  \/ Compare(r.k[1], LeadOp(b), b.k[1])
         \/ b.op \in Upper /\ NullBelow(r, b.k)
<1>1. leg \in Nat /\ leg >= 1 /\ DOMAIN b.k = 1 .. Len(b.k) /\ Len(b.k) >= 1
      /\ Len(b.k) \in Nat
  BY KeyParts
<1>2. 1 \in DOMAIN b.k
  BY <1>1
<1>3. r.k[1].pos \in Int /\ b.k[1].pos \in Int
  BY <1>2, RowComparable
<1>4. LeadOp(b) \in {"<=", ">="} /\ (LeadOp(b) = "<=" <=> b.op \in Upper)
  BY DEF LeadOp
<1>5. PosHolds(r.k[1].pos, LeadOp(b), b.k[1].pos)
  <2>1. CASE leg = 1
    <3>1. PosHolds(r.k[1].pos, LegOp(b, 1, 1), b.k[1].pos)
      BY <2>1 DEF LegAsks
    <3>2. LegOp(b, 1, 1) \in (IF b.op \in Upper THEN {"<", "<="} ELSE {">", ">="})
      BY <1>1 DEF LegOp, Upper
    <3>3. CASE b.op \in Upper
      <4>1. r.k[1].pos <= b.k[1].pos
        BY <1>3, <3>1, <3>2, <3>3, Positions
      <4> QED BY <1>3, <1>4, <3>3, <4>1, Positions
    <3>4. CASE b.op \notin Upper
      <4>1. r.k[1].pos >= b.k[1].pos
        BY <1>3, <3>1, <3>2, <3>4, Positions
      <4> QED BY <1>3, <1>4, <3>4, <4>1, Positions
    <3> QED BY <3>3, <3>4
  <2>2. CASE leg # 1
    <3>1. 1 \in 1 .. leg - 1
      BY <1>1, <2>2
    <3>2. r.k[1].pos = b.k[1].pos
      BY <3>1 DEF LegAsks, SameTo
    <3>3. r.k[1].pos <= b.k[1].pos /\ r.k[1].pos >= b.k[1].pos
      BY <1>3, <3>2
    <3> QED BY <1>3, <1>4, <3>3, Positions
  <2> QED BY <2>1, <2>2
<1>6. b.op \in Ops /\ LeadOp(b) \in Ops /\ b.op # "=" 
  BY <1>4 DEF Ops
<1>7. \/ Compare(r.k[1], LeadOp(b), b.k[1])
      \/ LeadOp(b) \in Upper /\ r.k[1] = NULL /\ b.k[1] # NULL
  BY <1>2, <1>5, <1>6, PartCompares
<1>8. SameTo(r, b.k, 1)
  BY DEF SameTo
<1>9. r.k[1] = NULL /\ b.k[1] # NULL => NullBelow(r, b.k)
  BY <1>2, <1>8 DEF NullBelow
<1>10. LeadOp(b) \in Upper => b.op \in Upper
  BY <1>4 DEF Upper
<1> QED BY <1>7, <1>9, <1>10

(* A bound of a range read as it stands.                                   *)
LEMMA RangeBoundHolds ==
  ASSUME Stored, NEW r \in rows, NEW b, KeyOf(key, b.k), b.op \in Ops,
         Served(b.k, b.op), b.skip = {}, b.mode = "range"
  PROVE  /\ Meets(r, b) => Holds(r, b.k, b.op)
         /\ Holds(r, b.k, b.op) => Meets(r, b) \/ (b.op \in Upper /\ NullBelow(r, b.k))
<1> DEFINE n == Len(b.k)
<1>1. n \in Nat /\ n >= 1 /\ DOMAIN b.k = 1 .. n
  BY KeyParts
<1>2. CASE n > 1 /\ b.op # "="
  <2>1. b.op \in {">", ">=", "<", "<="}
    BY <1>2 DEF Ops
  <2>2. Meets(r, b) <=> Legs(r, b)
    BY <1>2 DEF Meets, Composite
  <2>3. Holds(r, b.k, b.op) <=> \E leg \in DOMAIN b.k : LegAsks(r, b, leg)
    BY <2>1, LegAsksAsHolds
  <2>4. \A leg \in DOMAIN b.k :
          /\ LegHolds(r, b, leg) => LegAsks(r, b, leg)
          /\ LegAsks(r, b, leg) =>
               LegHolds(r, b, leg) \/ (b.op \in Upper /\ NullBelow(r, b.k))
          /\ LegAsks(r, b, leg) =>
               Compare(r.k[1], LeadOp(b), b.k[1]) \/ (b.op \in Upper /\ NullBelow(r, b.k))
    BY <2>1, LegHoldsAsAsked, LeadHolds
  <2> QED BY <2>2, <2>3, <2>4 DEF Legs
<1>3. CASE n = 1 \/ b.op = "="
  <2>1. Meets(r, b) <=> Lookup(r, b)
    <3>1. ~(n > 1 /\ b.op # "=")
      <4> HIDE DEF n
      <4> QED BY <1>1, <1>3
    <3>2. ~Composite(b)
      BY <3>1 DEF Composite
    <3> QED BY <3>2 DEF Meets
  <2>2. KeyAsks(r, b.k, b.op) <=> Holds(r, b.k, b.op)
    <3>1. CASE b.op = "="
      <4>1. KeyAsks(r, b.k, b.op) <=> SameTo(r, b.k, n) /\ r.k[n].pos = b.k[n].pos
        BY <3>1 DEF KeyAsks, PosHolds
      <4>2. SameTo(r, b.k, n) /\ r.k[n].pos = b.k[n].pos <=> Same(r, b.k)
        BY <1>1 DEF SameTo, Same
      <4> QED BY <3>1, <4>1, <4>2 DEF Holds
    <3>2. CASE b.op # "="
      <4>1. b.op \in {">", ">=", "<", "<="} /\ n = 1
        BY <1>3, <3>2 DEF Ops
      <4>2. DOMAIN b.k = {1} /\ Len(b.k) = 1
        BY <1>1, <4>1
      <4>3. LegOp(b, 1, 1) = b.op
        BY <4>2 DEF LegOp
      <4>4. Holds(r, b.k, b.op) <=> LegAsks(r, b, 1)
        BY <4>1, <4>2, LegAsksAsHolds
      <4> QED BY <4>2, <4>3, <4>4 DEF LegAsks, KeyAsks
    <3> QED BY <3>1, <3>2
  <2>3. /\ Lookup(r, b) => KeyAsks(r, b.k, b.op)
        /\ KeyAsks(r, b.k, b.op) =>
             Lookup(r, b) \/ (b.op \in Upper /\ NullBelow(r, b.k))
    BY LookupHolds
  <2> QED BY <2>1, <2>2, <2>3
<1>4. n > 1 \/ n = 1
  <2> HIDE DEF n
  <2> QED BY <1>1
<1> QED BY <1>2, <1>3, <1>4

-----------------------------------------------------------------------------
(* What a call's conditions and filters let through is what it asks.       *)

(* The bounds and the filters of a read serve the call.                    *)
Serves(call, bounds, kf, rf) ==
  /\ \A b \in bounds : b.op \in Ops
  /\ ComparedAlike(call) => \A r \in rows :
       /\ (\A b \in bounds : Meets(r, b)) /\ Keeps(r, kf, rf) => Asked(r, call)
       /\ Asked(r, call) /\ ~LeavesOut(r, call) =>
            (\A b \in bounds : Meets(r, b)) /\ Keeps(r, kf, rf)

LEMMA OpOfFlagIs ==
  /\ OpOfFlag("exact") = "=" /\ OpOfFlag("or next") = ">="
  /\ OpOfFlag("after") = ">" /\ OpOfFlag("or prev") = "<="
  /\ OpOfFlag("before") = "<"
BY DEF OpOfFlag

MapBound(call) ==
  [k |-> call.k, op |-> OpOfFlag(call.flag), mode |-> "key",
   skip |-> FilterMask(call), pad |-> PadMask(call)]

LEMMA SameAsked ==
  ASSUME Stored, NEW r \in rows, NEW k, KeyOf(key, k)
  PROVE  KeyAsks(r, k, "=") <=> Same(r, k)
<1> DEFINE n == Len(k)
<1>1. n \in Nat /\ n >= 1 /\ DOMAIN k = 1 .. n
  BY KeyParts
<1>2. KeyAsks(r, k, "=") <=> SameTo(r, k, n) /\ r.k[n].pos = k[n].pos
  BY DEF KeyAsks, PosHolds
<1> HIDE DEF n
<1>3. SameTo(r, k, n) /\ r.k[n].pos = k[n].pos <=> Same(r, k)
  BY <1>1 DEF SameTo, Same
<1> QED BY <1>2, <1>3

(* The lookup of an exact key with parts left to the filter.               *)
LEMMA FilteredLookupServes ==
  ASSUME Stored, NEW call, CallOf(key, call), call.call = "map",
         FilterMask(call) # {}
  PROVE  Serves(call, {MapBound(call)}, call.k, None)
<1> DEFINE k == call.k   b == MapBound(call)
<1>1. KeyOf(key, k) /\ call.flag = "exact"
  BY DEF CallOf, FilterMask
<1>2. /\ b.k = k /\ b.op = "=" /\ b.mode = "key"
      /\ b.skip = FilterMask(call) /\ b.pad = PadMask(call)
  BY <1>1, OpOfFlagIs DEF MapBound
<1>3. k # None
  BY <1>1, IndexReadConstants DEF KeyOf
<1> HIDE DEF b
<1>4. ASSUME NEW r \in rows PROVE Keeps(r, k, None) <=> Same(r, k)
  BY <1>3 DEF Keeps
<1>5. ASSUME NEW r \in rows PROVE Asked(r, call) <=> Same(r, k)
  BY <1>1, OpOfFlagIs, SameAsked DEF Asked, AskedKey, KeyAsks
<1>6. ASSUME NEW r \in rows, Same(r, k) PROVE Meets(r, b)
  <2> SUFFICES ASSUME NEW i \in DOMAIN k
               PROVE  IF i \in FilterMask(call)
                      THEN i \in PadMask(call) /\ Part(i).varchar /\ k[i] # NULL
                             => PadCandidate(i, r.k[i], k[i])
                      ELSE Compare(r.k[i], PartOp(b, i), k[i])
    BY <1>2 DEF Meets, Composite, Lookup
  <2>1. r.k[i].pos = k[i].pos
    BY <1>6 DEF Same
  <2>2. Comparable(Part(i), r.k[i], k[i]) /\ Column(Part(i)) /\ r.k[i] \in Values(Part(i))
    BY <1>1, RowComparable
  <2>3. r.k[i] \in Cell /\ k[i] \in Cell /\ r.k[i].byte \in Int
    BY <2>2, CellParts DEF Comparable
  <2>4. k[i] # NULL => r.k[i] # NULL
    BY <2>1, <2>3, CellParts
  <2>5. CASE i \in FilterMask(call)
    <3> SUFFICES ASSUME i \in PadMask(call), k[i] # NULL
                 PROVE  PadCandidate(i, r.k[i], k[i])
      BY <2>5
    <3>1. r.k[i].pad <= Room
      BY <2>2 DEF PadMask, Column
    <3>2. r.k[i] \in {x \in Values(Part(i)) \ {NULL} : x.pos = k[i].pos /\ x.pad <= Room}
      BY <2>1, <2>2, <2>4, <3>1
    <3>3. r.k[i].byte <= r.k[i].byte
      BY <2>3
    <3> QED BY <3>2, <3>3 DEF PadCandidate
  <2>6. CASE i \notin FilterMask(call)
    <3>1. ~KeyPartNeedsFilter(Part(i))
      BY <1>1, <2>6 DEF FilterMask
    <3>2. PartOp(b, i) = "="
      BY <1>2 DEF PartOp
    <3>3. PosHolds(r.k[i].pos, "=", k[i].pos) /\ "=" \notin Upper
      BY <2>1 DEF PosHolds, Upper
    <3> QED BY <2>2, <2>6, <3>1, <3>2, <3>3, CompareHolds
  <2> QED BY <2>5, <2>6
<1> QED BY <1>2, <1>4, <1>5, <1>6 DEF Serves, Ops, b

(* A lookup stoolap answers by itself.                                     *)
LEMMA PlainLookupServes ==
  ASSUME Stored, NEW call, CallOf(key, call), call.call = "map",
         FilterMask(call) = {}
  PROVE  Serves(call, {MapBound(call)}, None, None)
<1> DEFINE k == call.k   b == MapBound(call)   op == OpOfFlag(call.flag)
<1>1. /\ KeyOf(key, k)
      /\ call.flag \in {"exact", "or next", "after", "or prev", "before"}
  BY DEF CallOf
<1>2. op \in Ops /\ (op = "=" <=> call.flag = "exact")
  BY <1>1, OpOfFlagIs DEF Ops
<1>3. b.k = k /\ b.op = op /\ b.mode = "key" /\ b.skip = {}
  BY DEF MapBound
<1>4. ComparedAlike(call) => Served(k, op)
  <2> SUFFICES ASSUME ComparedAlike(call) PROVE Served(k, op)
    OBVIOUS
  <2>1. CASE call.flag = "exact"
    BY <1>2, <2>1 DEF FilterMask, Served
  <2>2. CASE call.flag # "exact"
    BY <1>2, <2>2 DEF ComparedAlike, Served, PartSafe
  <2> QED BY <2>1, <2>2
<1>5. \A r \in rows : Keeps(r, None, None)
  BY DEF Keeps
<1>6. \A r \in rows : /\ Asked(r, call) <=> KeyAsks(r, k, op)
                      /\ LeavesOut(r, call) <=> op \in Upper /\ NullBelow(r, k)
  BY DEF Asked, AskedKey, KeyAsks, LeavesOut
<1> HIDE DEF b, op
<1>7. \A r \in rows : Meets(r, b) <=> Lookup(r, b)
  BY <1>3 DEF Meets, Composite
<1>8. ComparedAlike(call) => \A r \in rows :
        /\ Lookup(r, b) => KeyAsks(r, k, op)
        /\ KeyAsks(r, k, op) => Lookup(r, b) \/ (op \in Upper /\ NullBelow(r, k))
  BY <1>1, <1>2, <1>3, <1>4, LookupHolds
<1>9. ComparedAlike(call) => \A r \in rows :
        /\ Meets(r, b) /\ Keeps(r, None, None) => Asked(r, call)
        /\ Asked(r, call) /\ ~LeavesOut(r, call) => Meets(r, b) /\ Keeps(r, None, None)
  <2> SUFFICES ASSUME ComparedAlike(call), NEW r \in rows
               PROVE  /\ Meets(r, b) /\ Keeps(r, None, None) => Asked(r, call)
                      /\ Asked(r, call) /\ ~LeavesOut(r, call) =>
                           Meets(r, b) /\ Keeps(r, None, None)
    OBVIOUS
  <2>1. /\ Asked(r, call) <=> KeyAsks(r, k, op)
        /\ LeavesOut(r, call) <=> op \in Upper /\ NullBelow(r, k)
        /\ Meets(r, b) <=> Lookup(r, b)
        /\ Keeps(r, None, None)
    BY <1>5, <1>6, <1>7
  <2>2. /\ Lookup(r, b) => KeyAsks(r, k, op)
        /\ KeyAsks(r, k, op) => Lookup(r, b) \/ (op \in Upper /\ NullBelow(r, k))
    BY <1>8
  <2> QED BY <2>1, <2>2
<1>10. b.op \in Ops /\ \A x \in {b} : x = b
  BY <1>2, <1>3
<1>11. Serves(call, {b}, None, None)
  BY <1>9, <1>10 DEF Serves
<1> QED BY <1>11 DEF b

LEMMA WholeIndexServes ==
  ASSUME NEW call, call.call \in {"first", "last"}
  PROVE  Serves(call, {}, None, None)
<1>1. \A r \in rows : Asked(r, call) /\ Keeps(r, None, None)
  BY DEF Asked, Keeps
<1> QED BY <1>1 DEF Serves

LEMMA SafePart ==
  ASSUME NEW p, Column(p), ~UnsafePart(p)
  PROVE  PartSafe(p) /\ ~KeyPartNeedsFilter(p)
<1>1. /\ p.type \in {"int", "str", "dec"} /\ p \in Kind
      /\ p.prefix => p.type = "str"
      /\ p.binary => p.binsort
  BY DEF Column, Kind
<1>2. /\ p.prefix \in BOOLEAN /\ p.binary \in BOOLEAN /\ p.binsort \in BOOLEAN
      /\ p.nopad \in BOOLEAN /\ p.hexmb \in BOOLEAN
  BY <1>1 DEF Kind
<1>3. CASE p.type = "str"
  BY <1>1, <1>2, <1>3 DEF UnsafePart, PartSafe, IndexFlagsOrder, KeyPartNeedsFilter
<1>4. CASE p.type = "int"
  BY <1>1, <1>2, <1>4 DEF UnsafePart, PartSafe, IndexFlagsOrder, KeyPartNeedsFilter
<1>5. CASE p.type = "dec"
  BY <1>5 DEF UnsafePart
<1> QED BY <1>1, <1>3, <1>4, <1>5

(* The two bounds read_range_first makes of a range.                       *)
StartBounds(call) ==
  RangeBound(call.start, IF call.start = None THEN "=" ELSE OpForStart(call.start.flag))
EndBounds(call) ==
  RangeBound(call.end, IF call.end = None THEN "=" ELSE OpForEnd(call.end.flag))

LEMMA SafeBoundServed ==
  ASSUME Stored, NEW bound, bound # None, KeyOf(key, bound.k),
         ~ContainsUnsafePart(bound), NEW op
  PROVE  Served(bound.k, op)
<1> SUFFICES ASSUME NEW i \in DOMAIN bound.k
             PROVE  PartSafe(Part(i)) /\ ~KeyPartNeedsFilter(Part(i))
  BY DEF Served
<1>1. ~UnsafePart(Part(i))
  BY DEF ContainsUnsafePart
<1>2. i \in DOMAIN key.parts
  BY KeyParts DEF Parts
<1>3. Column(Part(i))
  BY <1>2, IndexReadConstants DEF Stored, Part
<1> QED BY <1>1, <1>3, SafePart

LEMMA PlainRangeServes ==
  ASSUME Stored, NEW call, CallOf(key, call), call.call = "range", ~Filtered(call)
  PROVE  Serves(call, StartBounds(call) \cup EndBounds(call), None, None)
<1> DEFINE Start(op) == [k |-> call.start.k, op |-> op, mode |-> "range",
                         skip |-> {}, pad |-> {}]
           End(op) == [k |-> call.end.k, op |-> op, mode |-> "range",
                       skip |-> {}, pad |-> {}]
<1>1. \A r \in rows : Keeps(r, None, None)
  BY DEF Keeps
<1>2. \A r \in rows :
        /\ Asked(r, call) <=> InBounds(r, call)
        /\ LeavesOut(r, call) <=> call.end # None /\ NullBelow(r, call.end.k)
  BY DEF Asked, LeavesOut
<1>3. /\ \A b \in StartBounds(call) : b.op \in Ops
      /\ \A r \in rows : (\A b \in StartBounds(call) : Meets(r, b)) <=>
           (call.start # None =>
              CASE call.start.flag = "after" -> More(r, call.start.k)
                [] call.start.flag = "exact" -> Same(r, call.start.k)
                [] OTHER -> ~Less(r, call.start.k))
  <2>1. CASE call.start = None
    BY <2>1 DEF StartBounds, RangeBound
  <2>2. CASE call.start # None
    <3> DEFINE f == call.start.flag   op == OpForStart(f)   b == Start(op)
    <3>1. /\ KeyOf(key, call.start.k) /\ ~ContainsUnsafePart(call.start)
          /\ f \in {"exact", "or next", "after"}
      BY <2>2 DEF CallOf, Filtered
    <3>2. /\ f = "exact" => op = "="
          /\ f = "or next" => op = ">="
          /\ f = "after" => op = ">"
      BY OpOfFlagIs DEF OpForStart
    <3>3. StartBounds(call) = {b}
      BY <2>2 DEF StartBounds, RangeBound
    <3>4. /\ b.k = call.start.k /\ b.op = op /\ b.skip = {} /\ b.mode = "range"
          /\ op \in Ops /\ op \notin Upper
      BY <3>1, <3>2 DEF Ops, Upper
    <3>5. Served(b.k, op)
      BY <2>2, <3>1, <3>4, SafeBoundServed
    <3> HIDE DEF b, op, f
    <3>6. ASSUME NEW r \in rows PROVE Meets(r, b) <=> Holds(r, call.start.k, op)
      BY <3>1, <3>4, <3>5, RangeBoundHolds
    <3>7. ASSUME NEW r \in rows
          PROVE  Holds(r, call.start.k, op) <=>
                   CASE f = "after" -> More(r, call.start.k)
                     [] f = "exact" -> Same(r, call.start.k)
                     [] OTHER -> ~Less(r, call.start.k)
      BY <3>1, <3>2 DEF Holds
    <3> QED BY <2>2, <3>3, <3>4, <3>6, <3>7 DEF f
  <2> QED BY <2>1, <2>2
<1>4. /\ \A b \in EndBounds(call) : b.op \in Ops
      /\ \A r \in rows :
           LET asked == call.end # None =>
                 IF call.end.flag = "before" THEN Less(r, call.end.k)
                 ELSE ~More(r, call.end.k)
           IN  /\ (\A b \in EndBounds(call) : Meets(r, b)) => asked
               /\ asked /\ ~(call.end # None /\ NullBelow(r, call.end.k)) =>
                    \A b \in EndBounds(call) : Meets(r, b)
  <2>1. CASE call.end = None
    BY <2>1 DEF EndBounds, RangeBound
  <2>2. CASE call.end # None
    <3> DEFINE f == call.end.flag   op == OpForEnd(f)   b == End(op)
    <3>1. /\ KeyOf(key, call.end.k) /\ ~ContainsUnsafePart(call.end)
          /\ f \in {"after", "before"}
      BY <2>2 DEF CallOf, Filtered
    <3>2. op = IF f = "before" THEN "<" ELSE "<="
      BY <3>1 DEF OpForEnd
    <3>3. EndBounds(call) = {b}
      BY <2>2 DEF EndBounds, RangeBound
    <3>4. /\ b.k = call.end.k /\ b.op = op /\ b.skip = {} /\ b.mode = "range"
          /\ op \in Ops
      BY <3>1, <3>2 DEF Ops
    <3>5. Served(b.k, op)
      BY <2>2, <3>1, <3>4, SafeBoundServed
    <3> HIDE DEF b, op, f
    <3>6. ASSUME NEW r \in rows
          PROVE  /\ Meets(r, b) => Holds(r, call.end.k, op)
                 /\ Holds(r, call.end.k, op) => Meets(r, b) \/ NullBelow(r, call.end.k)
      BY <3>1, <3>4, <3>5, RangeBoundHolds
    <3>7. ASSUME NEW r \in rows
          PROVE  Holds(r, call.end.k, op) <=>
                   IF f = "before" THEN Less(r, call.end.k) ELSE ~More(r, call.end.k)
      BY <3>2 DEF Holds
    <3> QED BY <2>2, <3>3, <3>4, <3>6, <3>7 DEF f
  <2> QED BY <2>1, <2>2
<1>5. \A r \in rows : InBounds(r, call) <=>
        /\ call.start # None =>
             CASE call.start.flag = "after" -> More(r, call.start.k)
               [] call.start.flag = "exact" -> Same(r, call.start.k)
               [] OTHER -> ~Less(r, call.start.k)
        /\ call.end # None =>
             IF call.end.flag = "before" THEN Less(r, call.end.k)
             ELSE ~More(r, call.end.k)
  BY DEF InBounds
<1> QED BY <1>1, <1>2, <1>3, <1>4, <1>5 DEF Serves

(* Bounds on the first part alone, whatever the flags.                     *)
LEMMA LeadingKeeps ==
  ASSUME Stored, NEW r \in rows, NEW k, KeyOf(key, k), PartSafe(Part(1)),
         NEW op \in {">=", "<="}, PosHolds(r.k[1].pos, op, k[1].pos)
  PROVE  Leading(r, [k |-> <<k[1]>>, op |-> op, mode |-> "leading",
                     skip |-> {}, pad |-> {}])
<1> DEFINE v == r.k[1]   w == k[1]
<1>1. 1 \in DOMAIN k
  BY KeyParts
<1>2. Comparable(Part(1), v, w)
  BY <1>1, RowComparable
<1>3. ~KeyPartNeedsFilter(Part(1)) /\ op \in Ops
  BY DEF PartSafe, Ops
<1>4. Compare(v, op, w) \/ (op \in Upper /\ v = NULL /\ w # NULL)
  BY <1>2, <1>3, CompareHolds DEF Ops
<1>5. w \in {NULL, Beyond} \/ (Compare(v, op, w) <=> Stands(v, op, w))
  BY DEF Compare
<1>6. op \in Upper <=> op = "<="
  BY DEF Upper
<1> HIDE DEF v, w
<1>7. w \in {NULL, Beyond} \/ IF op \in Upper THEN Stands(v, "<=", w) \/ v = NULL
                              ELSE Stands(v, ">=", w)
  BY <1>4, <1>5, <1>6
<1> QED BY <1>7 DEF Leading, v, w

(* A row inside a range is inside its bounds' first parts.                 *)
LEMMA FirstPartInBounds ==
  ASSUME Stored, NEW r \in rows, NEW call, CallOf(key, call),
         call.call = "range", InBounds(r, call)
  PROVE  /\ call.start # None => r.k[1].pos >= call.start.k[1].pos
         /\ call.end # None => r.k[1].pos <= call.end.k[1].pos
<1>1. ASSUME NEW k, KeyOf(key, k)
      PROVE  /\ r.k[1].pos \in Int /\ k[1].pos \in Int
             /\ r.k[1].pos < k[1].pos => Less(r, k)
             /\ r.k[1].pos > k[1].pos => More(r, k)
  <2>1. 1 \in DOMAIN k
    BY <1>1, KeyParts
  <2>2. SameTo(r, k, 1)
    BY DEF SameTo
  <2>3. r.k[1].pos \in Int /\ k[1].pos \in Int
    BY <1>1, <2>1, RowComparable
  <2> QED BY <2>1, <2>2, <2>3 DEF Less, More
<1>2. ASSUME call.start # None PROVE r.k[1].pos >= call.start.k[1].pos
  <2> DEFINE k == call.start.k
  <2>1. KeyOf(key, k) /\ call.start.flag \in {"exact", "or next", "after"}
    BY <1>2 DEF CallOf
  <2>2. ~Less(r, k)
    <3>1. CASE call.start.flag = "after"
      BY <1>2, <2>1, <3>1, LessSameMore DEF InBounds
    <3>2. CASE call.start.flag = "exact"
      BY <1>2, <2>1, <3>2, LessSameMore DEF InBounds
    <3>3. CASE call.start.flag = "or next"
      BY <1>2, <3>3 DEF InBounds
    <3> QED BY <2>1, <3>1, <3>2, <3>3
  <2>3. /\ r.k[1].pos \in Int /\ k[1].pos \in Int
        /\ ~(r.k[1].pos < k[1].pos)
    BY <1>1, <2>1, <2>2
  <2> QED BY <2>3
<1>3. ASSUME call.end # None PROVE r.k[1].pos <= call.end.k[1].pos
  <2> DEFINE k == call.end.k
  <2>1. KeyOf(key, k)
    BY <1>3 DEF CallOf
  <2>2. ~More(r, k)
    BY <1>3, <2>1, LessSameMore DEF InBounds
  <2> QED BY <1>1, <2>1, <2>2
<1> QED BY <1>2, <1>3

LEMMA FilteredRangeServes ==
  ASSUME Stored, NEW call, CallOf(key, call), call.call = "range", Filtered(call)
  PROVE  Serves(call, FilteredBounds(call), None,
                [start |-> call.start, end |-> call.end])
<1> DEFINE rf == [start |-> call.start, end |-> call.end]
<1>1. rf # None
  BY DEF CallOf
<1>2. \A r \in rows : Keeps(r, None, rf) <=> InBounds(r, call)
  BY <1>1 DEF Keeps, InBounds
<1>3. \A r \in rows : Asked(r, call) <=> InBounds(r, call)
  BY DEF Asked
<1> HIDE DEF rf
<1>4. /\ \A b \in FilteredBounds(call) : b.op \in Ops
      /\ \A r \in rows : InBounds(r, call) => \A b \in FilteredBounds(call) : Meets(r, b)
  <2>1. CASE PartSafe(Part(1))
    <3>1. FilteredBounds(call) = LeadingBound(call.start, ">=") \cup LeadingBound(call.end, "<=")
      BY <2>1 DEF FilteredBounds
    <3>2. \A b \in FilteredBounds(call) : b.op \in Ops /\ b.mode = "leading"
      BY <3>1 DEF LeadingBound, Ops
    <3>3. ASSUME NEW r \in rows, InBounds(r, call), call.start # None
          PROVE  \A b \in LeadingBound(call.start, ">=") : Leading(r, b)
      <4>1. KeyOf(key, call.start.k)
        BY <3>3 DEF CallOf
      <4>2. 1 \in DOMAIN call.start.k
        BY <4>1, KeyParts
      <4>3. r.k[1].pos \in Int /\ call.start.k[1].pos \in Int
        BY <4>1, <4>2, RowComparable
      <4>4. PosHolds(r.k[1].pos, ">=", call.start.k[1].pos)
        BY <3>3, <4>3, FirstPartInBounds, Positions
      <4> QED BY <2>1, <3>3, <4>1, <4>4, LeadingKeeps DEF LeadingBound
    <3>4. ASSUME NEW r \in rows, InBounds(r, call), call.end # None
          PROVE  \A b \in LeadingBound(call.end, "<=") : Leading(r, b)
      <4>1. KeyOf(key, call.end.k)
        BY <3>4 DEF CallOf
      <4>2. 1 \in DOMAIN call.end.k
        BY <4>1, KeyParts
      <4>3. r.k[1].pos \in Int /\ call.end.k[1].pos \in Int
        BY <4>1, <4>2, RowComparable
      <4>4. PosHolds(r.k[1].pos, "<=", call.end.k[1].pos)
        BY <3>4, <4>3, FirstPartInBounds, Positions
      <4> QED BY <2>1, <3>4, <4>1, <4>4, LeadingKeeps DEF LeadingBound
    <3>5. /\ call.start = None => LeadingBound(call.start, ">=") = {}
          /\ call.end = None => LeadingBound(call.end, "<=") = {}
      BY DEF LeadingBound
    <3> QED BY <3>1, <3>2, <3>3, <3>4, <3>5 DEF Meets, Composite
  <2>2. CASE ~PartSafe(Part(1)) /\ ConstPrefix(call) # {} /\ KeyPartPads(Part(1))
    <3> DEFINE k == call.start.k
               b == [k |-> <<k[1]>>, op |-> "=", mode |-> "key", skip |-> {1}, pad |-> {1}]
    <3>1. FilteredBounds(call) = {b}
      BY <2>2 DEF FilteredBounds
    <3>2. PICK i \in DOMAIN call.start.k \cap DOMAIN call.end.k :
            \A j \in 1 .. i : call.start.k[j] = call.end.k[j]
      BY <2>2 DEF ConstPrefix
    <3>3. call.start # None /\ call.end # None
      BY <2>2 DEF ConstPrefix
    <3>4. KeyOf(key, k)
      BY <3>3 DEF CallOf
    <3>5. i \in Nat /\ i >= 1 /\ 1 \in DOMAIN k
      BY <3>2, <3>4, KeyParts
    <3>6. k[1] = call.end.k[1]
      BY <3>2, <3>5
    <3>7. ASSUME NEW r \in rows, InBounds(r, call), k[1] # NULL
          PROVE  PadCandidate(1, r.k[1], k[1])
      <4>1. /\ Comparable(Part(1), r.k[1], k[1]) /\ Column(Part(1))
            /\ r.k[1] \in Values(Part(1)) /\ r.k[1].pos \in Int /\ k[1].pos \in Int
        BY <3>4, <3>5, RowComparable
      <4>2. r.k[1].pos = k[1].pos
        BY <3>3, <3>6, <3>7, <4>1, FirstPartInBounds
      <4>3. r.k[1] \in Cell /\ k[1] \in Cell /\ r.k[1].byte \in Int
        BY <4>1, CellParts DEF Comparable
      <4>4. r.k[1] # NULL
        BY <3>7, <4>2, <4>3, CellParts
      <4>5. r.k[1].pad <= Room
        BY <2>2, <4>1 DEF Column
      <4>6. r.k[1] \in {x \in Values(Part(1)) \ {NULL} : x.pos = k[1].pos /\ x.pad <= Room}
        BY <4>1, <4>2, <4>4, <4>5
      <4>7. r.k[1].byte <= r.k[1].byte
        BY <4>3
      <4> QED BY <4>6, <4>7 DEF PadCandidate
    <3>8. b.op \in Ops /\ b.mode = "key" /\ b.skip = {1} /\ DOMAIN b.k = {1}
          /\ b.k[1] = k[1]
      BY DEF Ops
    <3> HIDE DEF b
    <3>9. ASSUME NEW r \in rows, InBounds(r, call) PROVE Meets(r, b)
      <4>1. Meets(r, b) <=> Lookup(r, b)
        BY <3>8 DEF Meets, Composite
      <4> QED BY <3>7, <3>8, <3>9, <4>1 DEF Lookup
    <3> QED BY <3>1, <3>8, <3>9
  <2>3. CASE ~PartSafe(Part(1)) /\ ~(ConstPrefix(call) # {} /\ KeyPartPads(Part(1)))
    BY <2>3 DEF FilteredBounds
  <2> QED BY <2>1, <2>2, <2>3
<1> QED BY <1>2, <1>3, <1>4 DEF Serves, rf

-----------------------------------------------------------------------------
(* The order a call is served in.                                          *)

(* The parts stoolap orders by give MariaDB's order, where one is promised.*)
OrderServes(call, by, back) ==
  LET held == HeldAlike(call)
  IN  /\ by \subseteq Parts
      /\ back <=> Backwards(call)
      /\ \A i \in Parts \ held :
           (\A j \in 1 .. i : j \in held \/ PartSafe(Part(j))) => i \in by
      /\ \A i \in by \cap held : PartSafe(Part(i))

(* A range of one key has one row, or equal ones.                          *)
OneKey(call) ==
  call.call = "range" /\ call.start # None /\ ExactUnique(call.start)

LEMMA LookupInOrder ==
  ASSUME Stored, NEW call, CallOf(key, call), call.call = "map", Promised(call)
  PROVE  OrderServes(call, LookupOrder(call), OpOfFlag(call.flag) \in Upper)
<1> DEFINE k == call.k   held == HeldAlike(call)   by == LookupOrder(call)
<1>1. KeyOf(key, k)
  BY DEF CallOf
<1>2. /\ Len(k) \in Nat /\ DOMAIN k = 1 .. Len(k) /\ Parts \subseteq Nat
      /\ DOMAIN k \subseteq Parts
  BY <1>1, KeyParts
<1>3. Parts = 1 .. Len(key.parts)
  BY IndexReadConstants DEF Parts, Stored
<1>4. held = {i \in DOMAIN k : BoundByEquals(call, i)}
  BY DEF HeldAlike, Held
<1>5. \A i \in Parts : BoundByEquals(call, i) <=> i \in held
  <2>1. \A i \in Parts : BoundByEquals(call, i) => i \in 1 .. Len(k)
    BY <1>2, <1>3 DEF BoundByEquals
  <2> QED BY <1>2, <1>4, <2>1
<1>6. FilterMask(call) \subseteq held
  <2>1. ASSUME NEW i \in FilterMask(call) PROVE i \in held
    <3>1. i \in DOMAIN k /\ OpOfFlag(call.flag) = "="
      BY OpOfFlagIs DEF FilterMask
    <3>2. BoundByEquals(call, i)
      BY <1>2, <3>1 DEF BoundByEquals
    <3> QED BY <1>4, <3>1, <3>2
  <2> QED BY <2>1
<1>7. sorted \/ OpOfFlag(call.flag) \in Upper
  BY DEF Promised
<1>8. by = IF ExactUnique(call) THEN {}
           ELSE {i \in Parts \ FilterMask(call) : ~BoundByEquals(call, i)}
  BY <1>7 DEF LookupOrder
<1>9. ExactUnique(call) => Parts \subseteq held
  <2> SUFFICES ASSUME ExactUnique(call), NEW i \in Parts PROVE i \in held
    OBVIOUS
  <2>1. OpOfFlag(call.flag) = "=" /\ Len(k) = Len(key.parts)
    BY OpOfFlagIs DEF ExactUnique
  <2>2. BoundByEquals(call, i)
    BY <1>2, <1>3, <2>1 DEF BoundByEquals
  <2> QED BY <1>5, <2>2
<1>10. Backwards(call) <=> OpOfFlag(call.flag) \in Upper
  BY DEF Backwards
<1> HIDE DEF held, by
<1>11. by \subseteq Parts /\ by \cap held = {} /\ Parts \ held \subseteq by
  BY <1>5, <1>6, <1>8, <1>9
<1> QED BY <1>10, <1>11 DEF OrderServes, held, by

LEMMA WholeIndexInOrder ==
  ASSUME NEW call, call.call \in {"first", "last"}
  PROVE  OrderServes(call, Parts, call.call = "last")
BY DEF OrderServes, HeldAlike, Held, Backwards

LEMMA PlainRangeInOrder ==
  ASSUME NEW call, call.call = "range", ~Filtered(call), Promised(call)
  PROVE  \/ OneKey(call)
         \/ OrderServes(call, IF call.sorted /\ ~(call.start # None /\ ExactUnique(call.start))
                              THEN Parts ELSE {}, FALSE)
BY DEF OrderServes, HeldAlike, Held, Backwards, Promised, OneKey

LEMMA FilteredRangeInOrder ==
  ASSUME Stored, NEW call, call.call = "range", Filtered(call), Promised(call)
  PROVE  OrderServes(call, FilteredOrder(call), FALSE)
<1> DEFINE held == HeldAlike(call)   by == FilteredOrder(call)
<1>1. held = ConstPrefix(call) \cup call.const
  BY DEF HeldAlike, Held
<1>2. \A i : Constant(call, i) <=> i \in held
  BY <1>1 DEF Constant
<1>3. by = {i \in Parts : /\ ~Constant(call, i)
                          /\ \A j \in 1 .. i : Constant(call, j) \/ IndexFlagsOrder(Part(j))}
  BY DEF FilteredOrder, Promised
<1>4. ~Backwards(call)
  BY DEF Backwards
<1> HIDE DEF held, by
<1>5. by \subseteq Parts /\ by \cap held = {}
  BY <1>2, <1>3
<1>6. \A i \in Parts \ held :
        (\A j \in 1 .. i : j \in held \/ PartSafe(Part(j))) => i \in by
  BY <1>2, <1>3 DEF PartSafe
<1> QED BY <1>4, <1>5, <1>6 DEF OrderServes, held, by

-----------------------------------------------------------------------------
(* The stream of a read.                                                   *)

(* A read of `call` with `from` to come and `before` given: what is to     *)
(* come and passes the filters is asked for and not before what was given, *)
(* and what is asked for is given, or to come, or left out.                *)
Run(call, from, before, by, back, kf, rf) ==
  /\ from \subseteq rows /\ before \in Seq(rows)
  /\ \A r \in from : Keeps(r, kf, rf) =>
       /\ ComparedAlike(call) => Asked(r, call)
       /\ \A n \in DOMAIN before : ~EngineBefore(r, before[n], by, back)
  /\ \A n \in DOMAIN before : (ComparedAlike(call) => Asked(before[n], call))
                             /\ before[n] \notin from
  /\ \A n, m \in DOMAIN before : n < m =>
       /\ before[n] # before[m]
       /\ ~EngineBefore(before[m], before[n], by, back)
  /\ \A r \in rows : ComparedAlike(call) /\ Asked(r, call) /\ ~LeavesOut(r, call) =>
       (r \in from /\ Keeps(r, kf, rf)) \/ \E n \in DOMAIN before : before[n] = r

LEMMA Gives ==
  ASSUME NEW call, NEW from, NEW before, NEW by, NEW back, NEW kf, NEW rf, NEW none,
         Run(call, from, before, by, back, kf, rf),
         Give(from, by, back, kf, rf, before, none)
  PROVE  /\ Run(call, left', given', by, back, kf, rf)
         /\ \/ rc' = "row" /\ given' # <<>>
            \/ rc' = none /\ left' = {} /\ given' = before
<1> DEFINE kept == {r \in from : Keeps(r, kf, rf)}
<1>1. CASE \E r \in kept : /\ \A s \in kept : ~EngineBefore(s, r, by, back)
                           /\ left' = Rest(from, r) /\ given' = Append(before, r)
                           /\ rc' = "row"
  <2>1. PICK r \in kept : /\ \A s \in kept : ~EngineBefore(s, r, by, back)
                          /\ left' = Rest(from, r) /\ given' = Append(before, r)
                          /\ rc' = "row"
    BY <1>1
  <2>2. r \in rows /\ r \in from /\ before \in Seq(rows) /\ Keeps(r, kf, rf)
    BY DEF Run
  <2>3. left' = from \ {r}
    BY <2>1 DEF Rest
  <2> DEFINE last == Len(before) + 1
  <2>4. /\ given' \in Seq(rows) /\ given' # <<>>
        /\ DOMAIN given' = DOMAIN before \cup {last}
        /\ \A n \in DOMAIN before : given'[n] = before[n] /\ n < last /\ ~(last < n)
        /\ given'[last] = r /\ ~(last < last)
    BY <2>1, <2>2
  <2> HIDE DEF last, kept
  <2>5. left' \subseteq rows
    BY <2>3 DEF Run
  <2>6. ASSUME NEW s \in left', Keeps(s, kf, rf)
        PROVE  /\ ComparedAlike(call) => Asked(s, call)
               /\ \A n \in DOMAIN given' : ~EngineBefore(s, given'[n], by, back)
    <3>1. s \in from /\ s \in kept
      BY <2>3, <2>6 DEF kept
    <3> QED BY <2>1, <2>4, <2>6, <3>1 DEF Run
  <2>7. \A n \in DOMAIN given' : /\ ComparedAlike(call) => Asked(given'[n], call)
                                /\ given'[n] \notin left'
    BY <2>2, <2>3, <2>4 DEF Run
  <2>8. ASSUME NEW n \in DOMAIN given', NEW m \in DOMAIN given', n < m
        PROVE  /\ given'[n] # given'[m]
               /\ ~EngineBefore(given'[m], given'[n], by, back)
    <3>1. n \in DOMAIN before
      BY <2>4, <2>8
    <3>2. CASE m = last
      BY <2>2, <2>4, <3>1, <3>2 DEF Run
    <3>3. CASE m \in DOMAIN before
      BY <2>4, <2>8, <3>1, <3>3 DEF Run
    <3> QED BY <2>4, <3>2, <3>3
  <2>9. ASSUME NEW s \in rows, ComparedAlike(call), Asked(s, call), ~LeavesOut(s, call)
        PROVE  (s \in left' /\ Keeps(s, kf, rf)) \/ \E n \in DOMAIN given' : given'[n] = s
    <3>1. CASE s \in from /\ Keeps(s, kf, rf)
      BY <2>3, <2>4, <3>1
    <3>2. CASE \E n \in DOMAIN before : before[n] = s
      BY <2>4, <3>2
    <3> QED BY <2>9, <3>1, <3>2 DEF Run
  <2> QED BY <2>1, <2>4, <2>5, <2>6, <2>7, <2>8, <2>9 DEF Run
<1>2. CASE kept = {} /\ left' = {} /\ given' = before /\ rc' = none
  BY <1>2 DEF Run
<1> QED BY <1>1, <1>2 DEF Give

(* A read opened on the rows its bounds let through.                       *)
LEMMA Opens ==
  ASSUME NEW call, NEW bounds, NEW kf, NEW rf, NEW by, NEW back,
         Serves(call, bounds, kf, rf)
  PROVE  /\ Run(call, {r \in rows : \A b \in bounds : Meets(r, b)}, <<>>, by, back, kf, rf)
         /\ (\E b \in bounds : Impossible(b)) =>
              Run(call, {}, <<>>, by, back, None, None)
<1>1. Run(call, {r \in rows : \A b \in bounds : Meets(r, b)}, <<>>, by, back, kf, rf)
  BY DEF Run, Serves
<1>2. ASSUME NEW b \in bounds, Impossible(b)
      PROVE  \A r \in rows : ~(ComparedAlike(call) /\ Asked(r, call) /\ ~LeavesOut(r, call))
  <2>1. \A r \in rows : ~Meets(r, b)
    BY <1>2, ImpossibleMeetsNone DEF Serves, Ops
  <2> QED BY <2>1 DEF Serves
<1>3. (\E b \in bounds : Impossible(b)) => Run(call, {}, <<>>, by, back, None, None)
  BY <1>2 DEF Run
<1> QED BY <1>1, <1>3

(* The filters rnd_next and the next calls compare with.                   *)
ActiveRange(call, rf) == IF call.call = "range" THEN rf ELSE None

Open ==
  /\ CallOf(key, read)
  /\ Run(read, left, given, order, desc, keyFilter, ActiveRange(read, rangeFilter))
  /\ Promised(read) => OneKey(read) \/ OrderServes(read, order, desc)
  /\ rc # "none" /\ (rc = "row" => given # <<>>) /\ (rc # "row" => left = {})
  /\ given = <<>> => (rc = "not found" <=> read.call = "map")

(* The inductive invariant.                                                *)
IInv ==
  /\ Stored
  /\ TypeOK
  /\ read = None => rc = "none" /\ given = <<>>
  /\ read # None => Open

LEMMA InitInv == Init => IInv
<1> SUFFICES ASSUME Init PROVE IInv
  OBVIOUS
<1>1. 0 \in 0 .. MaxReads
  BY IndexReadConstants
<1>2. /\ key \in Keys /\ rows \in Tables(key) /\ index = FALSE /\ sorted = FALSE
      /\ read = None /\ left = {} /\ order = {} /\ desc = FALSE
      /\ rc = "none" /\ given = <<>> /\ reads = 0
  BY DEF Init
<1>3. DOMAIN given = {}
  BY <1>2
<1>4. TypeOK
  BY <1>1, <1>2, <1>3 DEF TypeOK
<1> QED BY <1>2, <1>4 DEF IInv, Stored


-----------------------------------------------------------------------------
(* The steps.                                                              *)

(* What is said of a read depends on the variables no call but index_init  *)
(* changes, and on its own.                                                *)
LEMMA NextRead ==
  ASSUME UNCHANGED <<key, rows>>
  PROVE  /\ Stored <=> Stored'
         /\ CallOf(key, read)' <=> CallOf(key, read')
         /\ Run(read, left, given, order, desc, keyFilter, ActiveRange(read, rangeFilter))' <=>
              Run(read', left', given', order', desc', keyFilter',
                  ActiveRange(read', rangeFilter'))
         /\ OneKey(read)' <=> OneKey(read')
         /\ OrderServes(read, order, desc)' <=> OrderServes(read', order', desc')
<1>1. key' = key /\ rows' = rows
  OBVIOUS
<1>2. Stored <=> Stored'
  BY <1>1 DEF Stored
<1>3. CallOf(key, read)' <=> CallOf(key, read')
  BY <1>1 DEF CallOf, KeyOf, Agree, PartSafe, KeyPartNeedsFilter, IndexFlagsOrder
<1>4. \A i : Part(i)' = Part(i)
  BY <1>1 DEF Part
<1>5. Parts' = Parts
  BY <1>1 DEF Parts
<1>6. Filtered(read)' <=> Filtered(read')
  BY <1>4 DEF Filtered, ContainsUnsafePart, UnsafePart, KeyPartNeedsFilter
<1>7. \A r : LeavesOut(r, read)' <=> LeavesOut(r, read')
  BY <1>6 DEF LeavesOut, NullBelow, SameTo, OpOfFlag
<1>8. \A r : Asked(r, read)' <=> Asked(r, read')
  BY DEF Asked, AskedKey, InBounds
<1>9. ActiveRange(read, rangeFilter)' = ActiveRange(read', rangeFilter')
  BY DEF ActiveRange
<1>10. ComparedAlike(read)' <=> ComparedAlike(read')
  BY <1>4 DEF ComparedAlike, PartSafe, IndexFlagsOrder, KeyPartNeedsFilter
<1>11. Run(read, left, given, order, desc, keyFilter, ActiveRange(read, rangeFilter))' <=>
         Run(read', left', given', order', desc', keyFilter', ActiveRange(read', rangeFilter'))
  BY <1>1, <1>7, <1>8, <1>9, <1>10 DEF Run, Keeps, EngineBefore, Same, InBounds
<1>12. OneKey(read)' <=> OneKey(read')
  BY <1>1 DEF OneKey, ExactUnique
<1>13. HeldAlike(read)' = HeldAlike(read')
  BY <1>4, <1>6 DEF HeldAlike, Held, BoundByEquals, ConstPrefix, PartSafe,
                    IndexFlagsOrder, KeyPartNeedsFilter, OpOfFlag
<1>14. OrderServes(read, order, desc)' <=> OrderServes(read', order', desc')
  BY <1>4, <1>5, <1>13 DEF OrderServes, Backwards, PartSafe, IndexFlagsOrder,
                           KeyPartNeedsFilter, OpOfFlag
<1> QED BY <1>2, <1>3, <1>11, <1>12, <1>14


LEMMA Elements ==
  ASSUME NEW S, NEW s \in Seq(S), NEW n \in DOMAIN s
  PROVE  s[n] \in S
OBVIOUS

LEMMA OneMore ==
  ASSUME NEW m \in Nat, NEW n \in 0 .. m, n < m
  PROVE  n + 1 \in 0 .. m
OBVIOUS

(* A call that opens a read served right leaves the invariant.             *)
LEMMA OpenReadKeeps ==
  ASSUME IInv, NEW call, CallOf(key, call),
         NEW bounds, NEW by, NEW back, NEW kf, NEW rf, NEW none, NEW impossible,
         OpenRead(call, bounds, by, back, kf, rf, none, impossible),
         Serves(call, bounds, kf, rf), rf # None => call.call = "range",
         by \subseteq Parts, back \in BOOLEAN,
         Promised(call) => OneKey(call) \/ OrderServes(call, by, back),
         none = IF call.call = "map" THEN "not found" ELSE "end",
         (\E b \in bounds : Impossible(b)) => impossible = none
  PROVE  IInv'
<1> DEFINE start == {r \in rows : \A b \in bounds : Meets(r, b)}
<1>1. /\ index /\ reads < MaxReads /\ reads' = reads + 1 /\ read' = call
      /\ order' = by /\ desc' = back /\ UNCHANGED <<key, rows, index, sorted>>
  BY DEF OpenRead
<1>2. Stored' /\ CallOf(key, read)' /\ call # None
  BY <1>1, NextRead DEF IInv, CallOf
<1>3. /\ Run(call, left', given', by, back, keyFilter', ActiveRange(call, rangeFilter'))
      /\ \/ rc' = "row" /\ given' # <<>>
         \/ rc' = none /\ left' = {} /\ given' = <<>>
  <2>1. CASE \E b \in bounds : Impossible(b)
    <3>1. /\ left' = {} /\ given' = <<>> /\ rc' = none
          /\ keyFilter' = None /\ rangeFilter' = None
      BY <2>1 DEF OpenRead, ResetKeyFilter, ResetRangeFilter
    <3>2. ActiveRange(call, None) = None
      BY DEF ActiveRange
    <3>3. Run(call, {}, <<>>, by, back, None, None)
      BY <2>1, Opens
    <3> HIDE DEF start
    <3> QED BY <3>1, <3>2, <3>3
  <2>2. CASE ~\E b \in bounds : Impossible(b)
    <3>1. /\ keyFilter' = kf /\ rangeFilter' = rf
          /\ Give(start, by, back, kf, rf, <<>>, none)
      BY <2>2 DEF OpenRead
    <3>2. ActiveRange(call, rf) = rf
      BY DEF ActiveRange
    <3>3. Run(call, start, <<>>, by, back, kf, rf)
      BY Opens
    <3> HIDE DEF start
    <3> QED BY <3>1, <3>2, <3>3, Gives
  <2> QED BY <2>1, <2>2
<1>4. rc' # "none" /\ (rc' = "row" => given' # <<>>) /\ (rc' # "row" => left' = {})
      /\ (given' = <<>> => (rc' = "not found" <=> call.call = "map"))
      /\ rc' \in {"row", "end", "not found"}
  BY <1>3
<1>5. Open'
  <2>1. Run(read, left, given, order, desc, keyFilter, ActiveRange(read, rangeFilter))'
    BY <1>1, <1>3, NextRead
  <2>2. (Promised(read) => OneKey(read) \/ OrderServes(read, order, desc))'
    <3>1. Promised(read)' <=> Promised(call)
      BY <1>1 DEF Promised, OpOfFlag
    <3> QED BY <1>1, <3>1, NextRead
  <2> QED BY <1>1, <1>2, <1>4, <2>1, <2>2 DEF Open
<1>6. TypeOK'
  <2>1. /\ left' \subseteq rows' /\ \A n \in DOMAIN given' : given'[n] \in rows' \ left'
    <3>1. left' \subseteq rows /\ given' \in Seq(rows)
      BY <1>3 DEF Run
    <3>2. \A n \in DOMAIN given' : given'[n] \notin left'
      BY <1>3 DEF Run
    <3>3. \A n \in DOMAIN given' : given'[n] \in rows
      BY <3>1, Elements
    <3>4. rows' = rows
      BY <1>1
    <3> QED BY <3>1, <3>2, <3>3, <3>4
  <2>2. reads' \in 0 .. MaxReads
    <3>1. reads \in 0 .. MaxReads
      BY DEF IInv, TypeOK
    <3>2. MaxReads \in Nat
      BY IndexReadConstants
    <3>3. reads < MaxReads /\ reads' = reads + 1
      BY <1>1
    <3> QED BY <3>1, <3>2, <3>3, OneMore
  <2>3. order' \subseteq Parts'
    BY <1>1 DEF Parts
  <2>4. key' \in Keys /\ index' \in BOOLEAN /\ sorted' \in BOOLEAN /\ (read' # None => index')
        /\ desc' \in BOOLEAN
    BY <1>1 DEF IInv, TypeOK
  <2> QED BY <1>4, <2>1, <2>2, <2>3, <2>4 DEF TypeOK
<1> QED BY <1>1, <1>2, <1>5, <1>6 DEF IInv

LEMMA ReadMapInv ==
  ASSUME IInv, NEW call, CallOf(key, call), IndexReadMap(call)
  PROVE  IInv'
<1> DEFINE bounds == {MapBound(call)}   by == LookupOrder(call)
           back == (OpOfFlag(call.flag) \in Upper)
           kf == IF FilterMask(call) # {} THEN call.k ELSE None
<1>1. call.call = "map" /\ Stored
  BY DEF IndexReadMap, IInv
<1>2. OpenRead(call, bounds, by, back, kf, None, "not found", "not found")
  BY DEF IndexReadMap, MapBound, ResetKeyFilter, ResetRangeFilter
<1>3. Serves(call, bounds, kf, None)
  BY <1>1, FilteredLookupServes, PlainLookupServes
<1>4. by \subseteq Parts
  BY DEF LookupOrder
<1>5. Promised(call) => OneKey(call) \/ OrderServes(call, by, back)
  BY <1>1, LookupInOrder
<1> HIDE DEF bounds, by, back, kf
<1>6. back \in BOOLEAN
  BY DEF back
<1> QED BY <1>1, <1>2, <1>3, <1>4, <1>5, <1>6, OpenReadKeeps

LEMMA EndReadInv ==
  ASSUME IInv, NEW call, CallOf(key, call), IndexEndRead(call)
  PROVE  IInv'
<1> DEFINE back == (call.call = "last")
<1>1. call.call \in {"first", "last"}
  BY DEF IndexEndRead
<1>2. OpenRead(call, {}, Parts, back, None, None, "end", "not found")
  BY DEF IndexEndRead, ResetKeyFilter, ResetRangeFilter
<1>3. OrderServes(call, Parts, back)
  BY <1>1, WholeIndexInOrder
<1>4. back \in BOOLEAN
  OBVIOUS
<1>5. Serves(call, {}, None, None) /\ Stored /\ call.call # "map"
  BY <1>1, WholeIndexServes DEF IInv
<1> HIDE DEF back
<1> QED BY <1>2, <1>3, <1>4, <1>5, OpenReadKeeps

LEMMA ReadRangeInv ==
  ASSUME IInv, NEW call, CallOf(key, call), ReadRangeFirst(call)
  PROVE  IInv'
<1>1. call.call = "range" /\ Stored
  BY DEF ReadRangeFirst, IInv
<1>2. CASE ReadRangePlain(call)
  <2> DEFINE bounds == StartBounds(call) \cup EndBounds(call)
             by == IF call.sorted /\ ~(call.start # None /\ ExactUnique(call.start))
                   THEN Parts ELSE {}
  <2>1. ~Filtered(call) /\ OpenRead(call, bounds, by, FALSE, None, None, "end", "end")
    BY <1>2 DEF ReadRangePlain, StartBounds, EndBounds, EndOfRange,
                ResetKeyFilter, ResetRangeFilter
  <2>2. Serves(call, bounds, None, None)
    BY <1>1, <2>1, PlainRangeServes
  <2>3. Promised(call) => OneKey(call) \/ OrderServes(call, by, FALSE)
    BY <1>1, <2>1, PlainRangeInOrder
  <2>4. by \subseteq Parts
    OBVIOUS
  <2> HIDE DEF bounds, by
  <2> QED BY <1>1, <2>1, <2>2, <2>3, <2>4, OpenReadKeeps
<1>3. CASE ReadRangeFiltered(call)
  <2> DEFINE bounds == FilteredBounds(call)   by == FilteredOrder(call)
             rf == [start |-> call.start, end |-> call.end]
  <2>1. Filtered(call) /\ OpenRead(call, bounds, by, FALSE, None, rf, "end", "not found")
    BY <1>3 DEF ReadRangeFiltered, ResetKeyFilter
  <2>2. Serves(call, bounds, None, rf)
    BY <1>1, <2>1, FilteredRangeServes
  <2>3. Promised(call) => OneKey(call) \/ OrderServes(call, by, FALSE)
    BY <1>1, <2>1, FilteredRangeInOrder
  <2>4. by \subseteq Parts
    BY DEF FilteredOrder
  <2>5. \A b \in bounds : ~Impossible(b)
    BY DEF FilteredBounds, LeadingBound, Impossible, Composite
  <2> HIDE DEF bounds, by, rf
  <2> QED BY <1>1, <2>1, <2>2, <2>3, <2>4, <2>5, OpenReadKeeps
<1> QED BY <1>2, <1>3 DEF ReadRangeFirst


(* index_init and index_end leave no read.                                 *)
LEMMA NoReadInv ==
  ASSUME IInv, UNCHANGED <<key, rows, order, desc, reads>>,
         read' = None, left' = {}, given' = <<>>, rc' = "none",
         index' \in BOOLEAN, sorted' \in BOOLEAN
  PROVE  IInv'
<1>1. Stored'
  BY NextRead DEF IInv
<1>2. DOMAIN given' = {}
  OBVIOUS
<1>3. key \in Keys /\ order \subseteq Parts /\ desc \in BOOLEAN /\ reads \in 0 .. MaxReads
  BY DEF IInv, TypeOK
<1>4. order' \subseteq Parts'
  BY <1>3 DEF Parts
<1>5. TypeOK'
  BY <1>2, <1>3, <1>4 DEF TypeOK
<1> QED BY <1>1, <1>5 DEF IInv

LEMMA GetNextInv ==
  ASSUME IInv, GetNext
  PROVE  IInv'
<1> DEFINE rf == ActiveRange(read, rangeFilter)
<1>1. /\ rc = "row" /\ Give(left, order, desc, keyFilter, rf, given, "end")
      /\ UNCHANGED <<key, rows, index, sorted, read, order, desc, keyFilter, rangeFilter, reads>>
  BY DEF GetNext, ActiveRange
<1>2. read # None /\ Open /\ Stored /\ given # <<>>
  BY <1>1 DEF IInv, Open
<1>3. Run(read, left, given, order, desc, keyFilter, rf)
  BY <1>2 DEF Open
<1> HIDE DEF rf
<1>4. /\ Run(read, left', given', order, desc, keyFilter, rf)
      /\ \/ rc' = "row" /\ given' # <<>>
         \/ rc' = "end" /\ left' = {} /\ given' = given
  BY <1>1, <1>3, Gives
<1>5. Open'
  <2>1. Run(read, left, given, order, desc, keyFilter, ActiveRange(read, rangeFilter))'
    BY <1>1, <1>4, NextRead DEF rf
  <2>2. CallOf(key, read)'
    BY <1>1, <1>2, NextRead DEF Open
  <2>3. (Promised(read) => OneKey(read) \/ OrderServes(read, order, desc))'
    <3>1. Promised(read)' <=> Promised(read)
      BY <1>1 DEF Promised, OpOfFlag
    <3> QED BY <1>1, <1>2, <3>1, NextRead DEF Open
  <2>4. rc' # "none" /\ (rc' = "row" => given' # <<>>) /\ (rc' # "row" => left' = {})
        /\ given' # <<>>
    BY <1>2, <1>4
  <2> QED BY <2>1, <2>2, <2>3, <2>4 DEF Open
<1>6. TypeOK'
  <2>1. left' \subseteq rows /\ given' \in Seq(rows)
    BY <1>4 DEF Run
  <2>2. \A n \in DOMAIN given' : given'[n] \notin left'
    BY <1>4 DEF Run
  <2>3. \A n \in DOMAIN given' : given'[n] \in rows
    BY <2>1, Elements
  <2>4. /\ key \in Keys /\ index \in BOOLEAN /\ sorted \in BOOLEAN /\ (read # None => index)
        /\ order \subseteq Parts /\ desc \in BOOLEAN /\ reads \in 0 .. MaxReads
    BY DEF IInv, TypeOK
  <2>5. Parts' = Parts /\ rc' \in {"row", "end"}
    BY <1>1, <1>4 DEF Parts
  <2> QED BY <1>1, <2>1, <2>2, <2>3, <2>4, <2>5 DEF TypeOK
<1> QED BY <1>1, <1>2, <1>5, <1>6, NextRead DEF IInv

LEMMA StepInv == IInv /\ [Next]_vars => IInv'
<1> SUFFICES ASSUME IInv, [Next]_vars PROVE IInv'
  OBVIOUS
<1>1. ASSUME NEW srt \in BOOLEAN, IndexInit(srt) PROVE IInv'
  <2>1. /\ UNCHANGED <<key, rows, order, desc, reads>> /\ read' = None
        /\ left' = {} /\ given' = <<>> /\ rc' = "none" /\ index' = TRUE /\ sorted' = srt
    BY <1>1 DEF IndexInit
  <2> QED BY <2>1, NoReadInv
<1>2. ASSUME IndexEnd PROVE IInv'
  <2>1. /\ UNCHANGED <<key, rows, order, desc, reads>> /\ read' = None
        /\ left' = {} /\ given' = <<>> /\ rc' = "none" /\ index' = FALSE
    BY <1>2 DEF IndexEnd
  <2>2. sorted' \in BOOLEAN
    BY <1>2 DEF IndexEnd, IInv, TypeOK
  <2> QED BY <2>1, <2>2, NoReadInv
<1>3. ASSUME NEW call \in Reads(key, reads)
      PROVE  CallOf(key, call)
  BY <1>3, IndexReadConstants DEF IInv, TypeOK
<1>4. ASSUME NEW call \in Reads(key, reads), IndexReadMap(call) PROVE IInv'
  BY <1>3, <1>4, ReadMapInv
<1>5. ASSUME NEW call \in Reads(key, reads), IndexEndRead(call) PROVE IInv'
  BY <1>3, <1>5, EndReadInv
<1>6. ASSUME NEW call \in Reads(key, reads), ReadRangeFirst(call) PROVE IInv'
  BY <1>3, <1>6, ReadRangeInv
<1>7. ASSUME GetNext PROVE IInv'
  BY <1>7, GetNextInv
<1>8. ASSUME UNCHANGED vars PROVE IInv'
  <2>1. UNCHANGED <<key, rows, index, sorted, read, left, order, desc, keyFilter,
                    rangeFilter, rc, given, reads>>
    BY <1>8 DEF vars, handler
  <2>2. Stored'
    BY <2>1, NextRead DEF IInv
  <2>3. TypeOK'
    BY <2>1 DEF IInv, TypeOK, Parts
  <2>4. ASSUME Open PROVE Open'
    <3>1. Promised(read)' <=> Promised(read)
      BY <2>1 DEF Promised, OpOfFlag
    <3> QED BY <2>1, <2>4, <3>1, NextRead DEF Open
  <2> QED BY <2>1, <2>2, <2>3, <2>4 DEF IInv
<1> QED BY <1>1, <1>2, <1>4, <1>5, <1>6, <1>7, <1>8 DEF Next


-----------------------------------------------------------------------------
(* What the reads give.                                                    *)

(* Every read gives the rows of its key range: what the bounds let through *)
(* and the filters keep is asked for, and what is asked for is given, to   *)
(* come, or one of the NULLs left out.                                     *)
LEMMA RightRows == IInv => RowsOfTheRead
<1> SUFFICES ASSUME IInv, read # None
             PROVE  /\ \A n, m \in DOMAIN given : given[n] = given[m] => n = m
                    /\ ComparedAlike(read) => \A n \in DOMAIN given : Asked(given[n], read)
                    /\ ComparedAlike(read) /\ rc \in {"end", "not found"} =>
                         \A r \in rows : Asked(r, read) =>
                           LeavesOut(r, read) \/ \E n \in DOMAIN given : given[n] = r
  BY DEF RowsOfTheRead
<1> DEFINE rf == ActiveRange(read, rangeFilter)
<1>1. Run(read, left, given, order, desc, keyFilter, rf) /\ (rc # "row" => left = {})
  BY DEF IInv, Open
<1> HIDE DEF rf
<1>2. ComparedAlike(read) => \A n \in DOMAIN given : Asked(given[n], read)
  BY <1>1 DEF Run
<1>3. ASSUME NEW n \in DOMAIN given, NEW m \in DOMAIN given, given[n] = given[m]
      PROVE  n = m
  <2>1. given \in Seq(rows)
    BY <1>1 DEF Run
  <2>2. n \in Int /\ m \in Int
    BY <2>1
  <2>3. ~(n < m) /\ ~(m < n)
    BY <1>1, <1>3 DEF Run
  <2> QED BY <2>2, <2>3
<1>4. ASSUME ComparedAlike(read), rc \in {"end", "not found"}, NEW r \in rows, Asked(r, read)
      PROVE  LeavesOut(r, read) \/ \E n \in DOMAIN given : given[n] = r
  <2>1. left = {}
    BY <1>1, <1>4
  <2> QED BY <1>1, <1>4, <2>1 DEF Run
<1> QED BY <1>2, <1>3, <1>4

(* Rows whose first difference MariaDB sees is on a part the order offers  *)
(* are told apart by stoolap the same way.                                 *)
LEMMA OrdersAgree ==
  ASSUME Stored, NEW call, NEW by, NEW back, OrderServes(call, by, back),
         NEW r \in rows, NEW s \in rows,
         \A j \in HeldAlike(call) : r.k[j].pos = s.k[j].pos,
         NEW i \in Parts, r.k[i].pos < s.k[i].pos,
         \A j \in 1 .. i : j \in HeldAlike(call) \/ PartSafe(Part(j)),
         \A j \in 1 .. i - 1 : r.k[j].pos = s.k[j].pos
  PROVE  IF back THEN EngineBefore(s, r, by, back) ELSE EngineBefore(r, s, by, back)
<1>1. \A j \in Parts : /\ Column(Part(j))
                       /\ r.k[j] \in Values(Part(j)) /\ s.k[j] \in Values(Part(j))
                       /\ r.k[j].pos \in Int /\ s.k[j].pos \in Int
                       /\ r.k[j].byte \in Int /\ s.k[j].byte \in Int
  <2> SUFFICES ASSUME NEW j \in Parts
               PROVE  /\ Column(Part(j))
                      /\ r.k[j] \in Values(Part(j)) /\ s.k[j] \in Values(Part(j))
                      /\ r.k[j].pos \in Int /\ s.k[j].pos \in Int
                      /\ r.k[j].byte \in Int /\ s.k[j].byte \in Int
    OBVIOUS
  <2>1. /\ Column(Part(j))
        /\ r.k[j] \in Values(Part(j)) /\ s.k[j] \in Values(Part(j))
    BY IndexReadConstants DEF Stored, Parts, Part
  <2>2. r.k[j] \in Cell /\ s.k[j] \in Cell
    BY <2>1 DEF Column
  <2> QED BY <2>1, <2>2, CellParts
<1>2. \A j \in Parts : Agree(Part(j), r.k[j], s.k[j])
  BY <1>1 DEF Column
<1>3. Parts \subseteq Nat /\ \A j \in Parts : j >= 1
  BY IndexReadConstants DEF Stored, Parts
<1>4. i \notin HeldAlike(call) /\ i \in 1 .. i
  BY <1>1, <1>3
<1>5. i \in by /\ PartSafe(Part(i))
  BY <1>4 DEF OrderServes
<1>6. r.k[i].byte < s.k[i].byte /\ s.k[i].byte > r.k[i].byte
  BY <1>1, <1>2, <1>5 DEF Agree
<1>7. ASSUME NEW j \in by, j < i PROVE r.k[j].byte = s.k[j].byte
  <2>1. j \in Parts
    BY DEF OrderServes
  <2>2. j \in 1 .. i - 1 /\ j \in 1 .. i
    <3>1. j \in Nat /\ i \in Nat /\ j >= 1
      BY <1>3, <2>1
    <3> QED BY <1>7, <3>1
  <2>3. PartSafe(Part(j))
    BY <2>2 DEF OrderServes
  <2> QED BY <1>2, <2>1, <2>2, <2>3 DEF Agree, PartSafe
<1> QED BY <1>5, <1>6, <1>7 DEF EngineBefore

(* Rows of one whole key have no order among them.                         *)
LEMMA OneKeyAlike ==
  ASSUME Stored, NEW call, CallOf(key, call), OneKey(call),
         NEW r \in rows, NEW s \in rows, Asked(r, call), Asked(s, call), NEW i \in Parts
  PROVE  ~(r.k[i].pos < s.k[i].pos)
<1> DEFINE k == call.start.k
<1>1. /\ KeyOf(key, k) /\ call.start.flag = "exact" /\ Len(k) = Len(key.parts)
      /\ call.call = "range" /\ call.start # None
  BY DEF OneKey, ExactUnique, CallOf
<1>2. i \in DOMAIN k
  BY <1>1, KeyParts, IndexReadConstants DEF Stored, Parts
<1>3. r.k[i].pos \in Int
  BY <1>1, <1>2, RowComparable
<1>4. Same(r, k) /\ Same(s, k)
  BY <1>1 DEF Asked, InBounds
<1> QED BY <1>2, <1>3, <1>4 DEF Same

LEMMA RightOrder == IInv => InKeyOrder
<1> DEFINE held == HeldAlike(read)
           Reached(i) == \A j \in 1 .. i : j \in held \/ PartSafe(Part(j))
           KeyBefore(r, s) ==
             \E i \in Parts :
               /\ Reached(i) /\ r.k[i].pos < s.k[i].pos
               /\ \A j \in 1 .. i - 1 : r.k[j].pos = s.k[j].pos
           Alike(r, s) == \A i \in held : r.k[i].pos = s.k[i].pos
<1> SUFFICES ASSUME IInv, read # None, Promised(read),
                    NEW m \in DOMAIN given, NEW n \in 1 .. m - 1,
                    Alike(given[n], given[m])
             PROVE  ~ IF Backwards(read) THEN KeyBefore(given[n], given[m])
                      ELSE KeyBefore(given[m], given[n])
  BY DEF InKeyOrder, InOrderOf
<1> DEFINE rf == ActiveRange(read, rangeFilter)
<1>1. /\ Run(read, left, given, order, desc, keyFilter, rf) /\ CallOf(key, read)
      /\ OneKey(read) \/ OrderServes(read, order, desc)
      /\ Stored
  BY DEF IInv, Open
<1>2. given \in Seq(rows)
  BY <1>1 DEF Run
<1>3. n \in DOMAIN given /\ n < m
  BY <1>2
<1>4. given[n] \in rows /\ given[m] \in rows
  BY <1>2, <1>3, Elements
<1>5. /\ ComparedAlike(read) => Asked(given[n], read) /\ Asked(given[m], read)
      /\ ~EngineBefore(given[m], given[n], order, desc)
  BY <1>1, <1>3 DEF Run
<1>6. CASE OneKey(read)
  <2>0. ComparedAlike(read)
    BY <1>6 DEF OneKey, ComparedAlike
  <2>1. \A i \in Parts : /\ ~(given[n].k[i].pos < given[m].k[i].pos)
                         /\ ~(given[m].k[i].pos < given[n].k[i].pos)
    BY <1>1, <1>4, <1>5, <1>6, <2>0, OneKeyAlike
  <2> QED BY <2>1
<1>7. CASE OrderServes(read, order, desc)
  <2>1. desc <=> Backwards(read)
    BY <1>7 DEF OrderServes
  <2>2. ASSUME desc, KeyBefore(given[n], given[m]) PROVE FALSE
    <3>1. PICK i \in Parts : /\ Reached(i) /\ given[n].k[i].pos < given[m].k[i].pos
                             /\ \A j \in 1 .. i - 1 : given[n].k[j].pos = given[m].k[j].pos
      BY <2>2
    <3>2. EngineBefore(given[m], given[n], order, desc)
      BY <1>1, <1>4, <1>7, <2>2, <3>1, OrdersAgree
    <3> QED BY <1>5, <3>2
  <2>3. ASSUME ~desc, KeyBefore(given[m], given[n]) PROVE FALSE
    <3>1. PICK i \in Parts : /\ Reached(i) /\ given[m].k[i].pos < given[n].k[i].pos
                             /\ \A j \in 1 .. i - 1 : given[m].k[j].pos = given[n].k[j].pos
      BY <2>3
    <3>2. EngineBefore(given[m], given[n], order, desc)
      BY <1>1, <1>4, <1>7, <2>3, <3>1, OrdersAgree
    <3> QED BY <1>5, <3>2
  <2> QED BY <2>1, <2>2, <2>3
<1> QED BY <1>1, <1>6, <1>7

-----------------------------------------------------------------------------
(* Whatever keys, rows and calls: the handler's fields and the cursor keep *)
(* what the open read and the reads after it rest on.                      *)
THEOREM Invariance == Spec => []IInv
BY InitInv, StepInv, PTL DEF Spec

(* Every variable of a read is of its type and no row given is still to    *)
(* come: what ha_stoolap.cc keeps between index_init and index_end.        *)
THEOREM TypeCorrect == Spec => []TypeOK
<1>1. IInv => TypeOK
  BY DEF IInv
<1> QED BY <1>1, Invariance, PTL

(* A read through an index gives the rows of MariaDB's key range, each     *)
(* once, and no other, but for NULLs under an upper bound: the bounds      *)
(* key.rs makes let through all that is asked for, and where they let      *)
(* through more, the filter index_next and read_range_next compare with    *)
(* is the one of this read, and holds back the rest.                       *)
THEOREM RowsOfEveryRead == Spec => []RowsOfTheRead
BY RightRows, Invariance, PTL

(* Rows asked for in order come in MariaDB's order as far as the leading   *)
(* parts are ordered by stoolap as by MariaDB or hold one value: the parts *)
(* the ORDER BY leaves out are those that do.                              *)
THEOREM EveryReadInKeyOrder == Spec => []InKeyOrder
BY RightOrder, Invariance, PTL

(* Only a lookup that finds nothing says "key not found", whether its      *)
(* bounds let no row through or none can meet them; a range or a whole     *)
(* index without a row ends.                                               *)
THEOREM EmptyReadsEnd == Spec => []EmptyIsNoError
<1>1. IInv => EmptyIsNoError
  BY DEF IInv, Open, EmptyIsNoError
<1> QED BY <1>1, Invariance, PTL
=============================================================================
