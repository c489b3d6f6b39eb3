-------------------------- MODULE UniqueWritesProofs --------------------------
(***************************************************************************)
(* Theorems about UniqueWrites, for every set of ids, columns, values and  *)
(* UNIQUE indexes.                                                         *)
(*                                                                         *)
(* Everything is first proved of one call: what its outcomes leave of the  *)
(* rows the transaction sees.                                              *)
(***************************************************************************)
EXTENDS UniqueWrites, TLAPS

Cell == Contents \cup {Gone}

(* What the variables every call reads are.                                *)
Tables == unique \in Indexes /\ store \in E!State

-----------------------------------------------------------------------------
(* The engine's operators.                                                 *)

LEMMA NotNone == None \notin Cell /\ Gone \notin Contents /\ NoRow \notin Id
BY UniqueWritesConstants DEF Cell

LEMMA IndexNames ==
  ASSUME Tables
  PROVE  /\ \A x \in unique : x # {} /\ x \subseteq Col
         /\ Primary # {}
<1>1. unique \subseteq SUBSET Col /\ {} \notin unique
  BY UniqueWritesConstants DEF Tables
<1> QED BY <1>1 DEF Primary

LEMMA TransactionParts ==
  ASSUME NEW t \in E!Transaction
  PROVE  /\ t.level \in {"RC", "SI"}
         /\ t.writes \in [Id -> Cell \cup {None}]
         /\ t.level = "SI" => t.snap \in [Id -> Cell]
         /\ t # None
BY NoneIsNoTransaction DEF E!Transaction, E!Writes, E!State, E!Level, Cell

LEMMA PutType ==
  ASSUME NEW t \in E!Transaction, NEW i \in Id, NEW v \in Cell
  PROVE  /\ E!Put(t, i, v) \in E!Transaction
         /\ E!Put(t, i, v).level = t.level
         /\ E!Put(t, i, v).snap = t.snap
         /\ E!Put(t, i, v).writes = [t.writes EXCEPT ![i] = v]
<1>1. [t.writes EXCEPT ![i] = v] \in E!Writes
  BY DEF E!Transaction, E!Writes, Cell
<1>2. E!Put(t, i, v) = [t EXCEPT !.writes = [t.writes EXCEPT ![i] = v]]
  BY DEF E!Put
<1> QED BY <1>1, <1>2 DEF E!Transaction

LEMMA SeenType ==
  ASSUME NEW t \in E!Transaction, Tables
  PROVE  /\ Seen(t) \in [Id -> Cell]
         /\ \A i \in Id : Seen(t)[i] = IF t.writes[i] # None THEN t.writes[i]
                                       ELSE IF t.level = "SI" THEN t.snap[i]
                                       ELSE store[i]
<1>1. \A i \in Id : Seen(t)[i] = IF t.writes[i] # None THEN t.writes[i]
                                 ELSE IF t.level = "SI" THEN t.snap[i]
                                 ELSE store[i]
  BY DEF Seen, E!Sees
<1>2. Seen(t) = [i \in Id |-> Seen(t)[i]]
  BY DEF Seen, E!Sees
<1>3. \A i \in Id : Seen(t)[i] \in Cell
  BY <1>1, TransactionParts DEF Tables, E!State, Cell
<1> QED BY <1>1, <1>2, <1>3

LEMMA SeenPut ==
  ASSUME NEW t \in E!Transaction, Tables, NEW i \in Id, NEW v \in Cell
  PROVE  Seen(E!Put(t, i, v)) = [Seen(t) EXCEPT ![i] = v]
<1> DEFINE p == E!Put(t, i, v)
<1>1. /\ p \in E!Transaction /\ p.level = t.level /\ p.snap = t.snap
      /\ p.writes = [t.writes EXCEPT ![i] = v]
  BY PutType
<1>2. Seen(t) \in [Id -> Cell] /\ Seen(p) \in [Id -> Cell]
  BY <1>1, SeenType
<1>3. t.writes \in [Id -> Cell \cup {None}]
  BY TransactionParts
<1>4. \A j \in Id : Seen(p)[j] = [Seen(t) EXCEPT ![i] = v][j]
  <2> HIDE DEF p
  <2> TAKE j \in Id
  <2>1. p.writes[j] = IF j = i THEN v ELSE t.writes[j]
    BY <1>1, <1>3
  <2>2. v # None
    BY NotNone
  <2>3. Seen(t)[j] = IF t.writes[j] # None THEN t.writes[j]
                     ELSE IF t.level = "SI" THEN t.snap[j] ELSE store[j]
    BY SeenType
  <2>4. Seen(p)[j] = IF p.writes[j] # None THEN p.writes[j]
                     ELSE IF p.level = "SI" THEN p.snap[j] ELSE store[j]
    BY <1>1, SeenType
  <2>5. [Seen(t) EXCEPT ![i] = v][j] = IF j = i THEN v ELSE Seen(t)[j]
    BY <1>2
  <2> QED BY <1>1, <2>1, <2>2, <2>3, <2>4, <2>5
<1>5. [Seen(t) EXCEPT ![i] = v] \in [Id -> Cell]
  BY <1>2
<1> QED BY <1>2, <1>4, <1>5

-----------------------------------------------------------------------------
(* Keys.  The two tests as statements about pairs of rows.                 *)

Apart(rows) ==
  \A x \in unique : \A i, j \in Id :
    i # j /\ rows[i] # Gone /\ rows[j] # Gone => ~SameKey(x, rows[i], rows[j])

LEMMA SameKeySymmetric ==
  ASSUME NEW x, NEW r, NEW q, SameKey(x, r, q)
  PROVE  SameKey(x, q, r)
BY DEF SameKey

LEMMA FreeKeys ==
  ASSUME NEW rows \in [Id -> Cell], NEW among, NEW i, NEW r
  PROVE  Collides(among, i, r, rows) = {}
         <=> \A x \in among : \A j \in Id \ {i} :
               rows[j] # Gone => ~SameKey(x, r, rows[j])
BY DEF Collides

LEMMA ApartRows ==
  ASSUME NEW rows \in [Id -> Cell]
  PROVE  NoDuplicates(rows) <=> Apart(rows)
<1>1. \A i \in Id : Collides(unique, i, rows[i], rows) = {}
        <=> \A x \in unique : \A j \in Id \ {i} :
              rows[j] # Gone => ~SameKey(x, rows[i], rows[j])
  BY FreeKeys
<1> QED BY <1>1, Zenon DEF NoDuplicates, Apart

(* A row whose keys no other row holds may be placed.                      *)
LEMMA PlaceRow ==
  ASSUME NEW rows \in [Id -> Cell], NoDuplicates(rows),
         NEW i \in Id, NEW r \in Contents,
         Collides(unique, i, r, rows) = {}
  PROVE  NoDuplicates([rows EXCEPT ![i] = r])
<1> DEFINE placed == [rows EXCEPT ![i] = r]
<1>1. placed \in [Id -> Cell]
  BY DEF Cell
<1>2. ASSUME NEW x \in unique, NEW m \in Id, NEW j \in Id, m # j,
             placed[m] # Gone, placed[j] # Gone
      PROVE  ~SameKey(x, placed[m], placed[j])
  <2>1. \A k \in Id \ {i} : rows[k] # Gone => ~SameKey(x, r, rows[k])
    BY FreeKeys
  <2>2. CASE m = i
    BY <1>2, <2>1, <2>2
  <2>3. CASE j = i
    BY <1>2, <2>1, <2>3, SameKeySymmetric
  <2>4. CASE m # i /\ j # i
    BY <1>2, <2>4, ApartRows DEF Apart
  <2> QED BY <2>2, <2>3, <2>4
<1> QED BY <1>1, <1>2, ApartRows DEF Apart

(* A row may always be taken out.                                          *)
LEMMA RemoveRow ==
  ASSUME NEW rows \in [Id -> Cell], NoDuplicates(rows), NEW i \in Id
  PROVE  NoDuplicates([rows EXCEPT ![i] = Gone])
<1> DEFINE removed == [rows EXCEPT ![i] = Gone]
<1>1. removed \in [Id -> Cell]
  BY DEF Cell
<1>2. Apart(rows)
  BY ApartRows
<1>3. Apart(removed)
  BY <1>2 DEF Apart
<1> QED BY <1>1, <1>3, ApartRows

(* What check_unique passes over, the indexes over no changed column, the  *)
(* row holds already: after it no index holds the new row's key elsewhere. *)
LEMMA CheckedRow ==
  ASSUME Tables, NEW t \in E!Transaction, NoDuplicates(Seen(t)),
         NEW i \in Id, Seen(t)[i] # Gone, NEW changed, NEW new,
         CheckUnique(t, i, With(Seen(t)[i], changed, new), changed) = {}
  PROVE  Collides(unique, i, With(Seen(t)[i], changed, new), Seen(t)) = {}
<1> DEFINE r == With(Seen(t)[i], changed, new)
<1>1. Seen(t) \in [Id -> Cell]
  BY SeenType
<1>2. ASSUME NEW x \in unique, NEW j \in Id \ {i}, Seen(t)[j] # Gone
      PROVE  ~SameKey(x, r, Seen(t)[j])
  <2>1. CASE x \cap changed # {}
    <3>1. x \in {y \in unique : y \cap changed # {}}
      BY <2>1
    <3> QED BY <1>1, <1>2, <3>1, FreeKeys DEF CheckUnique
  <2>2. CASE x \cap changed = {}
    <3>1. \A c \in x : r[c] = Seen(t)[i][c]
      BY <2>2, IndexNames DEF With
    <3>2. ~SameKey(x, Seen(t)[i], Seen(t)[j])
      BY <1>1, <1>2, ApartRows DEF Apart
    <3> QED BY <3>1, <3>2 DEF SameKey
  <2> QED BY <2>1, <2>2
<1> QED BY <1>1, <1>2, FreeKeys

(* A key no row holds is held by no fewer rows.                            *)
LEMMA FreeInFewer ==
  ASSUME NEW rows \in [Id -> Cell], NEW i \in Id, NEW j, NEW r,
         Collides(unique, i, r, rows) = {}
  PROVE  Collides(unique, j, r, [rows EXCEPT ![i] = Gone]) = {}
<1> DEFINE fewer == [rows EXCEPT ![i] = Gone]
<1>1. fewer \in [Id -> Cell]
  BY DEF Cell
<1>2. \A x \in unique : \A k \in Id \ {j} :
        fewer[k] # Gone => ~SameKey(x, r, fewer[k])
  BY FreeKeys
<1> QED BY <1>1, <1>2, FreeKeys

-----------------------------------------------------------------------------
(* The calls.  Good is what every outcome of every call is, for the        *)
(* transaction it was called with.                                         *)

Good(t, o) ==
  /\ o.tx \in E!Transaction
  /\ o.reply \in {"done", "gone", "duplicate", "conflict"}
  /\ o.dup \in unique \cup {Primary, {}}
  /\ o.dup # {} <=> o.reply = "duplicate"
  /\ NoDuplicates(Seen(t)) => NoDuplicates(Seen(o.tx))
  /\ NoDuplicates(Merged(t)) /\ o.reply # "done" => Seen(o.tx) = Seen(t)

(* The outcomes that leave the transaction as it was.                      *)
LEMMA RefusedGood ==
  ASSUME Tables, NEW t \in E!Transaction
  PROVE  /\ Good(t, RowGone(t)) /\ Good(t, Conflict(t))
         /\ \A x \in unique \cup {Primary} : Good(t, Duplicate(t, x))
BY IndexNames DEF Good, RowGone, Conflict, Duplicate

LEMMA DoneGood ==
  ASSUME NEW t \in E!Transaction, NEW p \in E!Transaction,
         NoDuplicates(Seen(t)) => NoDuplicates(Seen(p))
  PROVE  Good(t, Done(p))
BY DEF Good, Done

LEMMA UnlessOutcome ==
  ASSUME NEW held, held \subseteq unique, NEW t, NEW outcomes,
         NEW o \in Unless(held, t, outcomes)
  PROVE  \/ held = {} /\ o \in outcomes
         \/ \E x \in unique : o = Duplicate(t, x)
BY DEF Unless

LEMMA CollidesAreIndexes ==
  ASSUME NEW i, NEW r, NEW rows
  PROVE  Collides(unique, i, r, rows) \subseteq unique
BY DEF Collides

LEMMA HeldAreIndexes ==
  ASSUME NEW t, NEW i, NEW r, NEW changed
  PROVE  CheckUnique(t, i, r, changed) \subseteq unique
BY DEF Collides, CheckUnique

LEMMA HeldInBatchAreIndexes ==
  ASSUME NEW t, NEW r, NEW q
  PROVE  CheckUniqueBatch(t, r, q) \subseteq unique
BY DEF Collides, CheckUniqueBatch

LEMMA EngineInsertOutcome ==
  ASSUME NEW t, NEW i, NEW r, NEW o \in EngineInsert(t, i, r)
  PROVE  \/ /\ o = Done(E!Put(t, i, r))
            /\ ~PrimaryTaken(t, i)
            /\ Collides(unique, i, r, Indexed(t)) = {}
         \/ \E x \in unique \cup {Primary} : o = Duplicate(t, x)
<1>1. CASE PrimaryTaken(t, i)
  BY <1>1 DEF EngineInsert
<1>2. CASE ~PrimaryTaken(t, i)
  <2>1. o \in Unless(Collides(unique, i, r, Indexed(t)), t,
                     {Done(E!Put(t, i, r))})
    BY <1>2 DEF EngineInsert
  <2>2. Collides(unique, i, r, Indexed(t)) \subseteq unique
    BY CollidesAreIndexes
  <2>3. \/ /\ Collides(unique, i, r, Indexed(t)) = {}
           /\ o \in {Done(E!Put(t, i, r))}
        \/ \E x \in unique : o = Duplicate(t, x)
    BY <2>1, <2>2, UnlessOutcome
  <2> QED BY <1>2, <2>3
<1> QED BY <1>1, <1>2

LEMMA EngineSetOutcome ==
  ASSUME NEW t, NEW i, NEW v, NEW o \in EngineSet(t, i, v)
  PROVE  \/ /\ o = Done(E!Put(t, i, v))
            /\ t.writes[i] # None \/ ~E!Overtaken(t, i, store)
         \/ o = Conflict(t)
BY DEF EngineSet

(* A row placed where no other row seen holds one of its keys.             *)
LEMMA PutGood ==
  ASSUME Tables, NEW t \in E!Transaction, NEW i \in Id, NEW r \in Contents,
         NoDuplicates(Seen(t)) => Collides(unique, i, r, Seen(t)) = {}
  PROVE  Good(t, Done(E!Put(t, i, r)))
<1>1. r \in Cell
  BY DEF Cell
<1>2. Seen(t) \in [Id -> Cell]
  BY SeenType
<1>3. Seen(E!Put(t, i, r)) = [Seen(t) EXCEPT ![i] = r]
  BY <1>1, SeenPut
<1>4. E!Put(t, i, r) \in E!Transaction
  BY <1>1, PutType
<1>5. NoDuplicates(Seen(t)) => NoDuplicates(Seen(E!Put(t, i, r)))
  BY <1>2, <1>3, PlaceRow
<1> QED BY <1>4, <1>5, DoneGood

LEMMA InsertGood ==
  ASSUME Tables, NEW t \in E!Transaction, NEW i \in Id, NEW r \in Contents,
         NEW o \in Insert(t, i, r)
  PROVE  Good(t, o)
<1>1. \/ CheckUnique(t, NoRow, r, Col) = {} /\ o \in EngineInsert(t, i, r)
      \/ \E x \in unique : o = Duplicate(t, x)
  BY UnlessOutcome, HeldAreIndexes DEF Insert
<1>2. CASE \E x \in unique : o = Duplicate(t, x)
  BY <1>2, RefusedGood
<1>3. CASE CheckUnique(t, NoRow, r, Col) = {} /\ o \in EngineInsert(t, i, r)
  <2>1. Seen(t) \in [Id -> Cell]
    BY SeenType
  <2>2. \A x \in unique : x \in {y \in unique : y \cap Col # {}}
    BY IndexNames
  <2>3. Collides(unique, i, r, Seen(t)) = {}
    <3>1. \A x \in unique : \A j \in Id \ {NoRow} :
            Seen(t)[j] # Gone => ~SameKey(x, r, Seen(t)[j])
      BY <1>3, <2>1, <2>2, FreeKeys DEF CheckUnique
    <3>2. \A x \in unique : \A j \in Id \ {i} :
            Seen(t)[j] # Gone => ~SameKey(x, r, Seen(t)[j])
      BY <3>1, NotNone
    <3> QED BY <2>1, <3>2, FreeKeys
  <2> QED BY <1>3, <2>3, EngineInsertOutcome, PutGood, RefusedGood
<1> QED BY <1>1, <1>2, <1>3

LEMMA EngineInsertBatchOutcome ==
  ASSUME NEW t, NEW i, NEW r, NEW j, NEW q,
         NEW o \in EngineInsertBatch(t, i, r, j, q)
  PROVE  \/ o = Done(E!Put(E!Put(t, i, r), j, q)) /\ i # j
         \/ \E x \in unique \cup {Primary} : o = Duplicate(t, x)
<1> DEFINE refused == {p \in EngineInsert(t, i, r) \cup EngineInsert(t, j, q) :
                         p.reply # "done"}
<1>1. \A p \in refused : \E x \in unique \cup {Primary} : p = Duplicate(t, x)
  BY EngineInsertOutcome DEF Done
<1>2. \/ o \in refused
      \/ o = Duplicate(t, Primary)
      \/ i # j /\ o = Done(E!Put(E!Put(t, i, r), j, q))
  <2> HIDE DEF refused
  <2>1. o \in CASE refused # {} -> refused
                [] refused = {} /\ i = j -> {Duplicate(t, Primary)}
                [] OTHER -> {Done(E!Put(E!Put(t, i, r), j, q))}
    BY DEF EngineInsertBatch, refused
  <2> QED BY <2>1
<1> QED BY <1>1, <1>2

LEMMA InsertBatchGood ==
  ASSUME Tables, NEW t \in E!Transaction, NEW i \in Id, NEW j \in Id,
         NEW r \in Contents, NEW q \in Contents,
         NEW o \in InsertBatch(t, i, r, j, q)
  PROVE  Good(t, o)
<1> DEFINE first == E!Put(t, i, r)
           both  == E!Put(first, j, q)
<1>1. \/ /\ CheckUniqueBatch(t, r, q) = {}
         /\ o \in EngineInsertBatch(t, i, r, j, q)
      \/ \E x \in unique : o = Duplicate(t, x)
  BY UnlessOutcome, HeldInBatchAreIndexes DEF InsertBatch
<1>2. CASE \E x \in unique \cup {Primary} : o = Duplicate(t, x)
  BY <1>2, RefusedGood
<1>3. CASE /\ CheckUniqueBatch(t, r, q) = {}
           /\ o = Done(both) /\ i # j
  <2>1. Seen(t) \in [Id -> Cell]
    BY SeenType
  <2>2. /\ \A x \in unique : ~SameKey(x, q, r)
        /\ Collides(unique, NoRow, r, Seen(t)) = {}
        /\ Collides(unique, NoRow, q, Seen(t)) = {}
    BY <1>3, SameKeySymmetric DEF CheckUniqueBatch
  <2>3. \A x \in unique : \A k \in Id :
          Seen(t)[k] # Gone
          => ~SameKey(x, r, Seen(t)[k]) /\ ~SameKey(x, q, Seen(t)[k])
    BY <2>1, <2>2, FreeKeys, NotNone
  <2>4. Collides(unique, i, r, Seen(t)) = {}
    BY <2>1, <2>3, FreeKeys
  <2>5. /\ first \in E!Transaction
        /\ Seen(first) = [Seen(t) EXCEPT ![i] = r]
        /\ Seen(first) \in [Id -> Cell]
    <3>1. r \in Cell
      BY DEF Cell
    <3>2. first \in E!Transaction
      BY <3>1, PutType
    <3>3. Seen(first) = [Seen(t) EXCEPT ![i] = r]
      BY <3>1, SeenPut
    <3>4. Seen(first) \in [Id -> Cell]
      BY <3>2, SeenType
    <3> QED BY <3>2, <3>3, <3>4
  <2>6. Collides(unique, j, q, Seen(first)) = {}
    <3>1. \A x \in unique : \A k \in Id \ {j} :
            Seen(first)[k] # Gone => ~SameKey(x, q, Seen(first)[k])
      BY <2>1, <2>2, <2>3, <2>5
    <3> QED BY <2>5, <3>1, FreeKeys
  <2>7. Good(t, Done(first)) /\ Good(first, Done(both))
    <3> HIDE DEF first
    <3>1. Good(first, Done(both))
      BY <2>5, <2>6, PutGood
    <3>2. Good(t, Done(first))
      BY <2>4, PutGood DEF first
    <3> QED BY <3>1, <3>2
  <2>8. /\ both \in E!Transaction
        /\ NoDuplicates(Seen(t)) => NoDuplicates(Seen(both))
    <3> HIDE DEF first, both
    <3> QED BY <2>7 DEF Good, Done
  <2> QED BY <1>3, <2>8, DoneGood
<1> QED BY <1>1, <1>2, <1>3, EngineInsertBatchOutcome

LEMMA WithType ==
  ASSUME NEW r \in Contents, NEW changed, NEW new \in Contents
  PROVE  With(r, changed, new) \in Contents
BY DEF With, Contents

LEMMA UpdateGood ==
  ASSUME Tables, NEW t \in E!Transaction, NEW i \in Id, NEW changed,
         NEW new \in Contents, NEW o \in Update(t, i, changed, new)
  PROVE  Good(t, o)
<1> DEFINE r == With(Seen(t)[i], changed, new)
<1>1. CASE Seen(t)[i] = Gone
  BY <1>1, RefusedGood DEF Update
<1>2. CASE Seen(t)[i] # Gone
  <2>1. r \in Contents
    BY <1>2, SeenType, WithType DEF Cell
  <2>2. \/ CheckUnique(t, i, r, changed) = {} /\ o \in EngineSet(t, i, r)
        \/ \E x \in unique : o = Duplicate(t, x)
    <3>1. o \in Unless(CheckUnique(t, i, r, changed), t, EngineSet(t, i, r))
      BY <1>2 DEF Update
    <3> QED BY <3>1, UnlessOutcome, HeldAreIndexes
  <2>3. CASE CheckUnique(t, i, r, changed) = {} /\ o \in EngineSet(t, i, r)
    <3>1. NoDuplicates(Seen(t)) => Collides(unique, i, r, Seen(t)) = {}
      BY <1>2, <2>3, CheckedRow
    <3>2. Good(t, Done(E!Put(t, i, r)))
      BY <2>1, <3>1, PutGood
    <3> QED BY <2>3, <3>2, EngineSetOutcome, RefusedGood
  <2> QED BY <2>2, <2>3, RefusedGood
<1> QED BY <1>1, <1>2

LEMMA RemovedGood ==
  ASSUME Tables, NEW t \in E!Transaction, NEW i \in Id
  PROVE  /\ E!Put(t, i, Gone) \in E!Transaction
         /\ Seen(E!Put(t, i, Gone)) = [Seen(t) EXCEPT ![i] = Gone]
         /\ NoDuplicates(Seen(t)) => NoDuplicates(Seen(E!Put(t, i, Gone)))
<1>1. Gone \in Cell /\ Seen(t) \in [Id -> Cell]
  BY SeenType DEF Cell
<1>2. E!Put(t, i, Gone) \in E!Transaction
  BY <1>1, PutType
<1>3. Seen(E!Put(t, i, Gone)) = [Seen(t) EXCEPT ![i] = Gone]
  BY <1>1, SeenPut
<1>4. NoDuplicates(Seen(t)) => NoDuplicates([Seen(t) EXCEPT ![i] = Gone])
  BY <1>1, RemoveRow
<1> QED BY <1>2, <1>3, <1>4

LEMMA DeleteGood ==
  ASSUME Tables, NEW t \in E!Transaction, NEW i \in Id, NEW o \in Delete(t, i)
  PROVE  Good(t, o)
<1>1. Good(t, Done(E!Put(t, i, Gone)))
  BY RemovedGood, DoneGood
<1> QED BY <1>1, EngineSetOutcome, RefusedGood DEF Delete

-----------------------------------------------------------------------------
(* The move of a row to a new id.                                          *)

LEMMA InsertOrPutBackOutcome ==
  ASSUME NEW d, NEW i, NEW old, NEW j, NEW r,
         NEW o \in InsertOrPutBack(d, i, old, j, r)
  PROVE  \/ o = Done(E!Put(d, j, r))
         \/ \E x \in unique \cup {Primary} :
              \/ o = [tx |-> E!Put(d, i, old), reply |-> "duplicate", dup |-> x]
              \/ o = Duplicate(d, x) /\ o \in EngineInsert(d, i, old)
<1>1. PICK e \in EngineInsert(d, j, r) :
        o \in (IF e.reply = "done" THEN {e}
               ELSE {IF p.reply = "done" THEN [e EXCEPT !.tx = p.tx] ELSE p :
                       p \in EngineInsert(d, i, old)})
  BY DEF InsertOrPutBack
<1>2. CASE e.reply = "done"
  BY <1>1, <1>2, EngineInsertOutcome DEF Duplicate
<1>3. CASE e.reply # "done"
  <2>1. PICK x \in unique \cup {Primary} : e = Duplicate(d, x)
    BY <1>3, EngineInsertOutcome DEF Done
  <2>2. PICK p \in EngineInsert(d, i, old) :
          o = IF p.reply = "done" THEN [e EXCEPT !.tx = p.tx] ELSE p
    BY <1>1, <1>3
  <2>3. CASE p = Done(E!Put(d, i, old))
    BY <2>1, <2>2, <2>3 DEF Duplicate, Done
  <2>4. CASE \E y \in unique \cup {Primary} : p = Duplicate(d, y)
    BY <2>2, <2>4 DEF Duplicate
  <2> QED BY <2>3, <2>4, EngineInsertOutcome
<1> QED BY <1>2, <1>3

(* A row taken out goes back, unless the commit would fail: no row that    *)
(* would be there beside it holds one of its keys.                         *)
LEMMA PutBackWorks ==
  ASSUME Tables, NEW t \in E!Transaction, NEW i \in Id,
         Seen(t)[i] # Gone,
         t.writes[i] # None \/ ~E!Overtaken(t, i, store),
         NoDuplicates(Merged(t)),
         NEW p \in EngineInsert(E!Put(t, i, Gone), i, Seen(t)[i])
  PROVE  p = Done(E!Put(E!Put(t, i, Gone), i, Seen(t)[i]))
<1> DEFINE d   == E!Put(t, i, Gone)
           old == Seen(t)[i]
<1>1. /\ d \in E!Transaction
      /\ d.writes = [t.writes EXCEPT ![i] = Gone]
  BY PutType DEF Cell
<1>2. t.writes \in [Id -> Cell \cup {None}] /\ t.level \in {"RC", "SI"}
  BY TransactionParts
<1>3. /\ Merged(t) \in [Id -> Cell]
      /\ \A k \in Id : Merged(t)[k] = IF t.writes[k] # None THEN t.writes[k]
                                      ELSE store[k]
  BY <1>2 DEF Merged, E!Install, Tables, E!State, Cell
<1>4. Merged(t)[i] = old
  BY <1>2, <1>3, SeenType DEF E!Overtaken
<1>5. ~PrimaryTaken(d, i)
  <2>1. d.writes[i] = Gone /\ Gone # None
    BY <1>1, <1>2, NotNone DEF Cell
  <2> QED BY <2>1 DEF PrimaryTaken
<1>6. /\ Indexed(d) \in [Id -> Cell]
      /\ \A k \in Id \ {i} : Indexed(d)[k] # Gone => Indexed(d)[k] = Merged(t)[k]
  <2>1. \A k \in Id : Indexed(d)[k] = IF d.writes[k] = None THEN store[k]
                                      ELSE Gone
    BY DEF Indexed
  <2>2. Indexed(d) \in [Id -> Cell]
    BY DEF Indexed, Tables, E!State, Cell
  <2>3. \A k \in Id \ {i} : d.writes[k] = t.writes[k]
    BY <1>1, <1>2
  <2> QED BY <1>3, <2>1, <2>2, <2>3
<1>7. Collides(unique, i, old, Indexed(d)) = {}
  <2>1. \A x \in unique : \A k \in Id \ {i} :
          Indexed(d)[k] # Gone => ~SameKey(x, old, Indexed(d)[k])
    BY <1>3, <1>4, <1>6, ApartRows DEF Apart
  <2> QED BY <1>6, <2>1, FreeKeys
<1>8. p \in Unless({}, d, {Done(E!Put(d, i, old))})
  BY <1>5, <1>7 DEF EngineInsert
<1> QED BY <1>8 DEF Unless

LEMMA MoveGood ==
  ASSUME Tables, NEW t \in E!Transaction, NEW i \in Id, NEW j \in Id,
         NEW changed, NEW new \in Contents,
         NEW o \in Move(t, i, changed, new, j)
  PROVE  Good(t, o)
<1> DEFINE old == Seen(t)[i]
           r   == With(old, changed, new)
           d   == E!Put(t, i, Gone)
<1>1. CASE old = Gone
  BY <1>1, RefusedGood DEF Move
<1>2. CASE old # Gone
  <2>1. old \in Contents /\ r \in Contents /\ Seen(t) \in [Id -> Cell]
    BY <1>2, SeenType, WithType DEF Cell
  <2>2. /\ d \in E!Transaction
        /\ Seen(d) = [Seen(t) EXCEPT ![i] = Gone]
        /\ NoDuplicates(Seen(t)) => NoDuplicates(Seen(d))
    BY RemovedGood
  <2>3. \/ /\ CheckUnique(t, i, r, changed) = {}
           /\ \E e \in EngineSet(t, i, Gone) :
                IF e.reply = "done"
                  THEN o \in InsertOrPutBack(e.tx, i, old, j, r) ELSE o = e
        \/ \E x \in unique : o = Duplicate(t, x)
    <3>1. o \in Unless(CheckUnique(t, i, r, changed), t,
                 UNION {IF e.reply = "done"
                          THEN InsertOrPutBack(e.tx, i, old, j, r)
                          ELSE {e} : e \in EngineSet(t, i, Gone)})
      BY <1>2 DEF Move
    <3> QED BY <3>1, UnlessOutcome, HeldAreIndexes
  <2>4. CASE \E x \in unique : o = Duplicate(t, x)
    BY <2>4, RefusedGood
  <2>5. CASE o = Conflict(t)
    BY <2>5, RefusedGood
  <2>6. CASE /\ CheckUnique(t, i, r, changed) = {}
             /\ t.writes[i] # None \/ ~E!Overtaken(t, i, store)
             /\ o \in InsertOrPutBack(d, i, old, j, r)
    <3>1. CASE o = Done(E!Put(d, j, r))
      <4>1. NoDuplicates(Seen(t)) => Collides(unique, j, r, Seen(d)) = {}
        BY <1>2, <2>1, <2>2, <2>6, CheckedRow, FreeInFewer
      <4>2. r \in Cell
        BY <2>1 DEF Cell
      <4>3. E!Put(d, j, r) \in E!Transaction
        BY <2>2, <4>2, PutType
      <4>4. NoDuplicates(Seen(t)) => NoDuplicates(Seen(E!Put(d, j, r)))
        <5>1. SUFFICES ASSUME NoDuplicates(Seen(t))
                       PROVE  NoDuplicates(Seen(E!Put(d, j, r)))
          OBVIOUS
        <5>2. Good(d, Done(E!Put(d, j, r)))
          BY <2>1, <2>2, <4>1, <5>1, PutGood
        <5> QED BY <2>2, <5>1, <5>2 DEF Good, Done
      <4> QED BY <3>1, <4>3, <4>4, DoneGood
    <3>2. CASE \E x \in unique \cup {Primary} :
                 o = [tx |-> E!Put(d, i, old), reply |-> "duplicate", dup |-> x]
      <4>1. old \in Cell
        BY <2>1 DEF Cell
      <4>2. E!Put(d, i, old) \in E!Transaction
        BY <2>2, <4>1, PutType
      <4>3. Seen(E!Put(d, i, old)) = [Seen(d) EXCEPT ![i] = old]
        <5> HIDE DEF d, old
        <5> QED BY <2>2, <4>1, SeenPut
      <4>4. Seen(E!Put(d, i, old)) = Seen(t)
        BY <2>1, <2>2, <4>3
      <4>5. PICK x \in unique \cup {Primary} :
              o = [tx |-> E!Put(d, i, old), reply |-> "duplicate", dup |-> x]
        BY <3>2
      <4>6. /\ o.tx \in E!Transaction /\ o.reply = "duplicate"
            /\ o.dup = x /\ x # {} /\ Seen(o.tx) = Seen(t)
        BY <4>2, <4>4, <4>5, IndexNames
      <4> QED BY <4>6 DEF Good
    <3>3. CASE \E x \in unique \cup {Primary} :
                 o = Duplicate(d, x) /\ o \in EngineInsert(d, i, old)
      <4>1. ~NoDuplicates(Merged(t))
        <5>1. SUFFICES ASSUME NoDuplicates(Merged(t)) PROVE FALSE
          OBVIOUS
        <5>2. \A p \in EngineInsert(d, i, old) : p = Done(E!Put(d, i, old))
          BY <1>2, <2>6, <5>1, PutBackWorks
        <5>3. o.reply = "duplicate" /\ o \in EngineInsert(d, i, old)
          <6> HIDE DEF d, old
          <6> QED BY <3>3 DEF Duplicate
        <5>4. Done(E!Put(d, i, old)).reply = "done"
          BY DEF Done
        <5> QED
          <6> HIDE DEF d, old
          <6> QED BY <5>2, <5>3, <5>4
      <4>2. PICK x \in unique \cup {Primary} : o = Duplicate(d, x)
        BY <3>3
      <4>3. /\ o.tx = d /\ o.reply = "duplicate" /\ o.dup = x /\ x # {}
        BY <4>2, IndexNames DEF Duplicate
      <4> QED
        <5> HIDE DEF d
        <5> QED BY <2>2, <4>1, <4>3 DEF Good
    <3> QED BY <2>6, <3>1, <3>2, <3>3, InsertOrPutBackOutcome
  <2>7. \A e \in EngineSet(t, i, Gone) :
          \/ /\ e.reply = "done" /\ e.tx = d
             /\ t.writes[i] # None \/ ~E!Overtaken(t, i, store)
          \/ e.reply # "done" /\ e = Conflict(t)
    BY EngineSetOutcome DEF Done, Conflict
  <2> QED BY <2>3, <2>4, <2>5, <2>6, <2>7
<1> QED BY <1>1, <1>2

-----------------------------------------------------------------------------
(* The theorems.                                                           *)

IsWrite(outcomes) ==
  /\ \E before \in {NoIndex, dup} : Writes(outcomes, before)
  /\ \A o \in outcomes : Good(tx, o)

(* Every step is a write, whose outcomes are all Good, or no write.        *)
LEMMA Steps ==
  ASSUME TypeOK, Next
  PROVE  \/ \E outcomes : IsWrite(outcomes)
         \/ Begin \/ Commit \/ OthersCommit \/ ReadRow
<1>1. Tables
  BY DEF TypeOK, Tables
<1>2. CASE WriteRow
  <2>1. PICK i \in Id, r \in Contents : Writes(Insert(tx, i, r), NoIndex)
    BY <1>2 DEF WriteRow
  <2>2. tx \in E!Transaction
    BY <2>1 DEF Writes, TypeOK
  <2> QED BY <1>1, <2>1, <2>2, InsertGood DEF IsWrite
<1>3. CASE FlushBulkBuffer
  <2>1. PICK i \in Id, j \in Id, r \in Contents, q \in Contents :
          Writes(InsertBatch(tx, i, r, j, q), NoIndex)
    BY <1>3 DEF FlushBulkBuffer
  <2>2. tx \in E!Transaction
    BY <2>1 DEF Writes, TypeOK
  <2> QED BY <1>1, <2>1, <2>2, InsertBatchGood DEF IsWrite
<1>4. CASE UpdateRow
  <2>1. PICK new \in Contents :
          Writes(Update(tx, cur[1], Changed(new), new), dup)
    BY <1>4 DEF UpdateRow
  <2>2. tx \in E!Transaction /\ cur[1] \in Id
    BY <1>4, <2>1 DEF UpdateRow, Writes, TypeOK
  <2> QED BY <1>1, <2>1, <2>2, UpdateGood DEF IsWrite
<1>5. CASE UpdatePrimaryKey
  <2>1. PICK new \in Contents, j \in Id \ {cur[1]} :
          Writes(Move(tx, cur[1], Changed(new), new, j), dup)
    BY <1>5 DEF UpdatePrimaryKey
  <2>2. tx \in E!Transaction /\ cur[1] \in Id
    BY <1>5, <2>1 DEF UpdatePrimaryKey, Writes, TypeOK
  <2> QED BY <1>1, <2>1, <2>2, MoveGood DEF IsWrite
<1>6. CASE DeleteRow
  <2>1. Writes(Delete(tx, cur[1]), dup)
    BY <1>6 DEF DeleteRow
  <2>2. tx \in E!Transaction /\ cur[1] \in Id
    BY <1>6, <2>1 DEF DeleteRow, Writes, TypeOK
  <2> QED BY <1>1, <2>1, <2>2, DeleteGood DEF IsWrite
<1> QED BY <1>2, <1>3, <1>4, <1>5, <1>6 DEF Next

(* What a write leaves: the index it reports if it reports a duplicate,    *)
(* else none, or the one an earlier write left.                            *)
Answer == [tx |-> tx', reply |-> reply',
           dup |-> IF reply' = "duplicate" THEN dup' ELSE {}]

LEMMA WriteStep ==
  ASSUME TypeOK, NEW outcomes, IsWrite(outcomes)
  PROVE  /\ tx # None /\ UNCHANGED <<unique, store, others>>
         /\ cur' = None /\ writes' \in 0 .. MaxWrites
         /\ dup' \in unique \cup {Primary, {}}
         /\ Good(tx, Answer)
<1>1. PICK before \in {NoIndex, dup} : Writes(outcomes, before)
  BY DEF IsWrite
<1>2. PICK o \in outcomes : tx' = o.tx /\ reply' = o.reply /\ dup' = Stashed(o, before)
  BY <1>1 DEF Writes, Outcome
<1>3. Good(tx, o)
  BY DEF IsWrite
<1>4. dup' \in unique \cup {Primary, {}}
  BY <1>2, <1>3 DEF Good, Stashed, NoIndex, TypeOK
<1>5. Good(tx, Answer)
  BY <1>2, <1>3 DEF Good, Stashed, Answer
<1> QED BY <1>1, <1>4, <1>5, UniqueWritesConstants DEF Writes, TypeOK

LEMMA TypesHold == TypeOK /\ [Next]_vars => TypeOK'
<1>1. SUFFICES ASSUME TypeOK, [Next]_vars PROVE TypeOK'
  OBVIOUS
<1>2. CASE UNCHANGED vars
  BY <1>1, <1>2 DEF TypeOK, vars
<1>3. ASSUME NEW outcomes, IsWrite(outcomes)
      PROVE  TypeOK'
  <2>1. /\ UNCHANGED <<unique, store, others>>
        /\ cur' = None /\ writes' \in 0 .. MaxWrites
        /\ dup' \in unique \cup {Primary, {}}
        /\ Good(tx, Answer)
    BY <1>1, <1>3, WriteStep
  <2> QED BY <1>1, <2>1 DEF TypeOK, Good, Answer, Replies
<1>4. CASE Begin
  <2>1. PICK level \in E!Level : tx' = E!NewTransaction(level, store)
    BY <1>4 DEF Begin
  <2>2. E!NewTransaction(level, store) \in E!Transaction
    <3>1. store # None
      BY <1>1, NoneIsNoTransaction DEF TypeOK
    <3>2. E!NoWrites \in E!Writes
      BY DEF E!NoWrites, E!Writes
    <3> QED BY <1>1, <3>1, <3>2
            DEF TypeOK, E!NewTransaction, E!Transaction, E!Level
  <2> QED BY <1>1, <1>4, <2>1, <2>2 DEF Begin, TypeOK, Replies
<1>5. CASE Commit
  <2>1. tx \in E!Transaction
    BY <1>1, <1>5 DEF TypeOK, Commit
  <2>2. Merged(tx) \in E!State
    BY <1>1, <2>1, TransactionParts
       DEF Merged, E!Install, E!State, TypeOK, Cell
  <2> QED BY <1>1, <1>5, <2>2, UniqueWritesConstants
          DEF Commit, TypeOK, Replies
<1>6. CASE OthersCommit
  <2>1. store' \in E!State
    BY <1>1, <1>6 DEF OthersCommit, TypeOK, E!State
  <2> QED BY <1>1, <1>6, <2>1, UniqueWritesConstants
          DEF OthersCommit, TypeOK
<1>7. CASE ReadRow
  <2>1. tx \in E!Transaction /\ Tables
    BY <1>1, <1>7 DEF TypeOK, ReadRow, Tables
  <2>2. cur' \in Id \X Contents
    BY <1>7, <2>1, SeenType DEF ReadRow, Cell
  <2> QED BY <1>1, <1>7, <2>2 DEF ReadRow, TypeOK, Replies
<1> QED BY <1>1, <1>2, <1>3, <1>4, <1>5, <1>6, <1>7, Steps

(* Every call leaves what the next one expects; the index stashed for      *)
(* get_dup_key (last_dup_key_) is one of the table's, and there is one     *)
(* whenever a duplicate is reported.                                       *)
THEOREM TypeCorrect == Spec => []TypeOK
<1>1. Init => TypeOK
  BY UniqueWritesConstants DEF Init, TypeOK, Replies
<1> QED BY <1>1, TypesHold, PTL DEF Spec

(* No write makes two rows the transaction sees share a key: insert,       *)
(* insert_batch, update and the move of a row (write.rs 29-114).           *)
THEOREM UniqueKept == Spec => WritesKeepUnique
<1>1. TypeOK /\ [Next]_vars =>
        [tx # None /\ tx' # None /\ store' = store /\ NoDuplicates(Seen(tx))
         => NoDuplicates(Seen(tx'))]_vars
  <2>1. SUFFICES ASSUME TypeOK, Next, tx # None, tx' # None, store' = store,
                        NoDuplicates(Seen(tx))
                 PROVE  NoDuplicates(Seen(tx'))
    BY DEF vars
  <2>2. ASSUME NEW outcomes, IsWrite(outcomes)
        PROVE  NoDuplicates(Seen(tx'))
    BY <2>1, <2>2, WriteStep DEF Good, Answer
  <2>3. CASE Begin \/ Commit
    BY <2>1, <2>3 DEF Begin, Commit
  <2>4. CASE OthersCommit \/ ReadRow
    BY <2>1, <2>4 DEF OthersCommit, ReadRow
  <2> QED BY <2>1, <2>2, <2>3, <2>4, Steps
<1> QED BY <1>1, TypeCorrect, PTL DEF Spec, WritesKeepUnique

(* A failed write leaves the rows as they were, the move of a row with its *)
(* put-back included (write.rs 106-112), unless the commit would fail.     *)
THEOREM RowsKept == Spec => FailedWriteKeepsRows
<1>1. TypeOK /\ [Next]_vars =>
        [writes' > writes /\ reply' # "done" /\ NoDuplicates(Merged(tx))
         => Seen(tx') = Seen(tx)]_vars
  <2>1. SUFFICES ASSUME TypeOK, Next, writes' > writes, reply' # "done",
                        NoDuplicates(Merged(tx))
                 PROVE  Seen(tx') = Seen(tx)
    BY DEF vars
  <2>2. ASSUME NEW outcomes, IsWrite(outcomes)
        PROVE  Seen(tx') = Seen(tx)
    BY <2>1, <2>2, WriteStep DEF Good, Answer
  <2>3. CASE Begin \/ Commit \/ OthersCommit \/ ReadRow
    BY <2>1, <2>3, UniqueWritesConstants
       DEF Begin, Commit, OthersCommit, ReadRow, TypeOK
  <2> QED BY <2>1, <2>2, <2>3, Steps
<1> QED BY <1>1, TypeCorrect, PTL DEF Spec, FailedWriteKeepsRows

-----------------------------------------------------------------------------
(* What each call answers.  An insert is accepted or refused as a whole:   *)
(* when no row seen holds a key of the new one, its id is free, and no     *)
(* committed row the transaction has not written holds a key either.       *)

NoneHolds(rows, r) ==
  \A x \in unique : \A k \in Id : rows[k] # Gone => ~SameKey(x, r, rows[k])

CanPlace(t, i, r) == ~PrimaryTaken(t, i) /\ Collides(unique, i, r, Indexed(t)) = {}

CanInsert(t, i, r) == NoneHolds(Seen(t), r) /\ CanPlace(t, i, r)

Refused(t, o) == \E x \in unique \cup {Primary} : o = Duplicate(t, x)

LEMMA NoneCollide ==
  ASSUME NEW rows \in [Id -> Cell], NEW r
  PROVE  Collides(unique, NoRow, r, rows) = {} <=> NoneHolds(rows, r)
BY FreeKeys, NotNone DEF NoneHolds

LEMMA EngineInsertAnswers ==
  ASSUME NEW t, NEW i, NEW r
  PROVE  /\ CanPlace(t, i, r) => EngineInsert(t, i, r) = {Done(E!Put(t, i, r))}
         /\ ~CanPlace(t, i, r) => \A o \in EngineInsert(t, i, r) : Refused(t, o)
         /\ EngineInsert(t, i, r) # {}
<1>1. CanPlace(t, i, r) => EngineInsert(t, i, r) = {Done(E!Put(t, i, r))}
  BY DEF CanPlace, EngineInsert, Unless
<1>2. ~CanPlace(t, i, r) => \A o \in EngineInsert(t, i, r) : Refused(t, o)
  BY EngineInsertOutcome DEF CanPlace, Refused
<1>3. EngineInsert(t, i, r) # {}
  BY DEF EngineInsert, Unless
<1> QED BY <1>1, <1>2, <1>3

LEMMA InsertAnswers ==
  ASSUME Tables, NEW t \in E!Transaction, NEW i, NEW r
  PROVE  /\ CanInsert(t, i, r) => Insert(t, i, r) = {Done(E!Put(t, i, r))}
         /\ ~CanInsert(t, i, r) => \A o \in Insert(t, i, r) : Refused(t, o)
<1>1. CheckUnique(t, NoRow, r, Col) = {} <=> NoneHolds(Seen(t), r)
  <2>1. {x \in unique : x \cap Col # {}} = unique
    BY IndexNames
  <2> QED BY <2>1, SeenType, NoneCollide DEF CheckUnique
<1>2. CASE CheckUnique(t, NoRow, r, Col) = {}
  <2>1. Insert(t, i, r) = EngineInsert(t, i, r)
    BY <1>2 DEF Insert, Unless
  <2> QED BY <1>1, <1>2, <2>1, EngineInsertAnswers DEF CanInsert
<1>3. CASE CheckUnique(t, NoRow, r, Col) # {}
  <2>1. \A o \in Insert(t, i, r) : Refused(t, o)
    BY <1>3, UnlessOutcome, HeldAreIndexes DEF Insert, Refused
  <2> QED BY <1>1, <1>3, <2>1 DEF CanInsert
<1> QED BY <1>2, <1>3

-----------------------------------------------------------------------------
(* A batch and its rows one by one.                                        *)

(* Beside a row placed, the rows are those there were, and the indexes     *)
(* hold what they did.                                                     *)
LEMMA PlacedBeside ==
  ASSUME Tables, NEW t \in E!Transaction, NEW i \in Id, NEW r \in Contents,
         ~PrimaryTaken(t, i)
  PROVE  /\ Seen(t)[i] = Gone /\ Indexed(t)[i] = Gone
         /\ E!Put(t, i, r) \in E!Transaction
         /\ Seen(E!Put(t, i, r)) = [Seen(t) EXCEPT ![i] = r]
         /\ Indexed(E!Put(t, i, r)) = Indexed(t)
         /\ \A j \in Id : PrimaryTaken(E!Put(t, i, r), j) <=> j = i \/ PrimaryTaken(t, j)
<1> DEFINE d == E!Put(t, i, r)
<1>1. r \in Cell /\ r # Gone /\ r # None
  BY NotNone DEF Cell
<1>2. d \in E!Transaction /\ d.writes = [t.writes EXCEPT ![i] = r]
      /\ t.writes \in [Id -> Cell \cup {None}]
  BY <1>1, PutType, TransactionParts
<1>3. Seen(d) = [Seen(t) EXCEPT ![i] = r] /\ Seen(t) \in [Id -> Cell]
  BY <1>1, SeenPut, SeenType
<1>4. Seen(t)[i] = Gone /\ Indexed(t)[i] = Gone
  <2>1. t.writes[i] = None => store[i] = Gone /\ Seen(t)[i] = Gone
    BY DEF PrimaryTaken
  <2>2. t.writes[i] # None => t.writes[i] = Gone
    BY DEF PrimaryTaken
  <2>3. t.writes[i] # None => Seen(t)[i] = t.writes[i]
    BY SeenType
  <2>4. Indexed(t)[i] = IF t.writes[i] = None THEN store[i] ELSE Gone
    BY DEF Indexed
  <2> QED BY <2>1, <2>2, <2>3, <2>4
<1> HIDE DEF d
<1>5. Indexed(d) = Indexed(t)
  <2>1. \A j \in Id : (IF d.writes[j] = None THEN store[j] ELSE Gone)
                      = (IF t.writes[j] = None THEN store[j] ELSE Gone)
    <3>1. Gone = IF t.writes[i] = None THEN store[i] ELSE Gone
      BY <1>4 DEF Indexed
    <3>2. d.writes[i] # None
      BY <1>1, <1>2
    <3>3. \A j \in Id \ {i} : d.writes[j] = t.writes[j]
      BY <1>2
    <3> QED BY <3>1, <3>2, <3>3
  <2> QED BY <2>1 DEF Indexed
<1>6. ASSUME NEW j \in Id
      PROVE  PrimaryTaken(d, j) <=> j = i \/ PrimaryTaken(t, j)
  <2>1. CASE j = i
    BY <1>1, <1>2, <2>1 DEF PrimaryTaken
  <2>2. CASE j # i
    <3>1. d.writes[j] = t.writes[j] /\ Seen(d)[j] = Seen(t)[j]
      BY <1>2, <1>3, <2>2
    <3> QED BY <2>2, <3>1 DEF PrimaryTaken
  <2> QED BY <2>1, <2>2
<1> QED BY <1>2, <1>3, <1>4, <1>5, <1>6 DEF d

LEMMA BatchOfTwo ==
  ASSUME Tables, NEW t \in E!Transaction, NEW i \in Id, NEW j \in Id,
         NEW r \in Contents, NEW q \in Contents
  PROVE  CheckUniqueBatch(t, r, q) = {} /\ CanPlace(t, i, r) /\ CanPlace(t, j, q) /\ i # j
         <=> CanInsert(t, i, r) /\ CanInsert(E!Put(t, i, r), j, q)
<1> DEFINE d == E!Put(t, i, r)
<1>1. Seen(t) \in [Id -> Cell]
  BY SeenType
<1>2. CheckUniqueBatch(t, r, q) = {}
      <=> /\ \A x \in unique : ~SameKey(x, q, r)
          /\ NoneHolds(Seen(t), r) /\ NoneHolds(Seen(t), q)
  BY <1>1, NoneCollide, SameKeySymmetric DEF CheckUniqueBatch
<1>3. ASSUME CanPlace(t, i, r)
      PROVE  /\ CanPlace(d, j, q) <=> j # i /\ CanPlace(t, j, q)
             /\ NoneHolds(Seen(d), q)
                <=> NoneHolds(Seen(t), q) /\ \A x \in unique : ~SameKey(x, q, r)
  <2>1. /\ Seen(t)[i] = Gone /\ Seen(d) = [Seen(t) EXCEPT ![i] = r]
        /\ Indexed(d) = Indexed(t)
        /\ PrimaryTaken(d, j) <=> j = i \/ PrimaryTaken(t, j)
    BY <1>3, PlacedBeside DEF CanPlace
  <2>2. r # Gone
    BY NotNone
  <2> HIDE DEF d
  <2>3. CanPlace(d, j, q) <=> j # i /\ CanPlace(t, j, q)
    BY <2>1 DEF CanPlace
  <2>4. /\ Seen(d)[i] = r
        /\ \A k \in Id \ {i} : Seen(d)[k] = Seen(t)[k]
    BY <1>1, <2>1
  <2>5. NoneHolds(Seen(d), q)
        <=> NoneHolds(Seen(t), q) /\ \A x \in unique : ~SameKey(x, q, r)
    <3> HIDE DEF d
    <3> QED BY <2>1, <2>2, <2>4 DEF NoneHolds
  <2> QED BY <2>3, <2>5
<1> HIDE DEF d
<1> QED BY <1>2, <1>3 DEF CanInsert, d

LEMMA InsertBatchAnswers ==
  ASSUME Tables, NEW t \in E!Transaction, NEW i \in Id, NEW j \in Id,
         NEW r \in Contents, NEW q \in Contents,
         NEW o \in InsertBatch(t, i, r, j, q)
  PROVE  IF CanInsert(t, i, r) /\ CanInsert(E!Put(t, i, r), j, q)
           THEN o = Done(E!Put(E!Put(t, i, r), j, q))
           ELSE Refused(t, o)
<1> DEFINE both == Done(E!Put(E!Put(t, i, r), j, q))
           refused == {p \in EngineInsert(t, i, r) \cup EngineInsert(t, j, q) :
                         p.reply # "done"}
<1>1. \/ CheckUniqueBatch(t, r, q) = {} /\ o \in EngineInsertBatch(t, i, r, j, q)
      \/ CheckUniqueBatch(t, r, q) # {} /\ Refused(t, o)
  <2>1. CASE CheckUniqueBatch(t, r, q) = {}
    BY <2>1 DEF InsertBatch, Unless
  <2>2. CASE CheckUniqueBatch(t, r, q) # {}
    BY <2>2, UnlessOutcome, HeldInBatchAreIndexes DEF InsertBatch, Refused
  <2> QED BY <2>1, <2>2
<1>2. ASSUME o \in EngineInsertBatch(t, i, r, j, q)
      PROVE  IF CanPlace(t, i, r) /\ CanPlace(t, j, q) /\ i # j
               THEN o = both ELSE Refused(t, o)
  <2>1. refused = {} <=> CanPlace(t, i, r) /\ CanPlace(t, j, q)
    <3>1. \A p : Refused(t, p) => p.reply # "done"
      BY DEF Refused, Duplicate
    <3>2. \A p : Done(p).reply = "done"
      BY DEF Done
    <3> HIDE DEF both
    <3>3. CASE CanPlace(t, i, r) /\ CanPlace(t, j, q)
      BY <3>2, <3>3, EngineInsertAnswers
    <3>4. CASE ~CanPlace(t, i, r)
      BY <3>1, <3>4, EngineInsertAnswers
    <3>5. CASE ~CanPlace(t, j, q)
      BY <3>1, <3>5, EngineInsertAnswers
    <3> QED BY <3>3, <3>4, <3>5
  <2>2. o \in CASE refused # {} -> refused
                [] refused = {} /\ i = j -> {Duplicate(t, Primary)}
                [] OTHER -> {both}
    BY <1>2 DEF EngineInsertBatch
  <2>3. \A p \in refused : Refused(t, p)
    BY EngineInsertOutcome DEF Done, Refused
  <2> HIDE DEF refused, both
  <2>4. CASE refused # {}
    BY <2>1, <2>2, <2>3, <2>4
  <2>5. CASE refused = {} /\ i = j
    BY <2>1, <2>2, <2>5 DEF Refused
  <2>6. CASE refused = {} /\ i # j
    BY <2>1, <2>2, <2>6
  <2> QED BY <2>4, <2>5, <2>6
<1> HIDE DEF both
<1> QED BY <1>1, <1>2, BatchOfTwo DEF both

(* A buffer of rows is accepted exactly when its rows are one by one, for  *)
(* every transaction, whatever else is pending (check_unique_batch and the *)
(* engine's insert_batch together).                                        *)
THEOREM BatchAgrees == Spec => []BatchIsSingles
<1>1. ASSUME TypeOK PROVE BatchIsSingles
  <2> SUFFICES ASSUME tx # None, NEW i \in Id, NEW j \in Id,
                      NEW r \in Contents, NEW q \in Contents,
                      NEW o \in InsertBatch(tx, i, r, j, q)
               PROVE  LET singles == UNION {IF p.reply = "done" THEN Insert(p.tx, j, q) ELSE {p} :
                                              p \in Insert(tx, i, r)}
                      IN  IF \E p \in singles : p.reply = "done"
                            THEN o.reply = "done" /\ o \in singles
                            ELSE o.reply = "duplicate" /\ o.tx = tx
    BY DEF BatchIsSingles
  <2> DEFINE singles == UNION {IF p.reply = "done" THEN Insert(p.tx, j, q) ELSE {p} :
                                 p \in Insert(tx, i, r)}
             d == E!Put(tx, i, r)
  <2>1. Tables /\ tx \in E!Transaction
    BY <1>1 DEF TypeOK, Tables
  <2>2. \A t, p : Refused(t, p) => p.reply = "duplicate" /\ p.tx = t
    BY DEF Refused, Duplicate
  <2>3. \A p : Done(p).reply = "done" /\ Done(p).tx = p
    BY DEF Done
  <2>4. CASE ~CanInsert(tx, i, r)
    <3>1. \A p \in singles : p.reply = "duplicate"
      <4>1. \A p \in Insert(tx, i, r) : p.reply = "duplicate"
        BY <2>1, <2>2, <2>4, InsertAnswers
      <4> QED BY <4>1
    <3>2. Refused(tx, o)
      BY <2>1, <2>4, InsertBatchAnswers
    <3> QED BY <2>2, <3>1, <3>2
  <2>5. CASE CanInsert(tx, i, r)
    <3>1. d \in E!Transaction
      BY <2>1, <2>5, PlacedBeside DEF CanInsert, CanPlace
    <3>2. singles = Insert(d, j, q)
      <4>1. Insert(tx, i, r) = {Done(d)}
        BY <2>1, <2>5, InsertAnswers
      <4> HIDE DEF d
      <4> QED BY <2>3, <4>1
    <3>3. CASE CanInsert(d, j, q)
      <4>1. singles = {Done(E!Put(d, j, q))}
        BY <2>1, <3>1, <3>2, <3>3, InsertAnswers
      <4>2. o = Done(E!Put(d, j, q))
        BY <2>1, <2>5, <3>3, InsertBatchAnswers
      <4> HIDE DEF d, singles
      <4>3. o.reply = "done" /\ o \in singles
        BY <2>3, <4>1, <4>2
      <4> QED BY <4>3 DEF singles
    <3>4. CASE ~CanInsert(d, j, q)
      <4>1. \A p \in singles : p.reply = "duplicate"
        <5> HIDE DEF d, singles
        <5> QED BY <2>1, <2>2, <3>1, <3>2, <3>4, InsertAnswers
      <4>2. Refused(tx, o)
        BY <2>1, <2>5, <3>4, InsertBatchAnswers
      <4> HIDE DEF d
      <4> QED BY <2>2, <4>1, <4>2
    <3> QED BY <3>3, <3>4
  <2> QED BY <2>4, <2>5
<1> QED BY <1>1, TypeCorrect, PTL

-----------------------------------------------------------------------------
(* What a write answers, in a transaction that sees what its commit would  *)
(* make of the table.                                                      *)

Current(t) == NoDuplicates(Merged(t)) /\ (t.level = "SI" => t.snap = store)

LEMMA CurrentSees ==
  ASSUME Tables, NEW t \in E!Transaction, Current(t)
  PROVE  /\ Seen(t) = Merged(t) /\ NoDuplicates(Seen(t))
         /\ \A i \in Id : /\ PrimaryTaken(t, i) <=> Seen(t)[i] # Gone
                          /\ Indexed(t)[i] # Gone => Indexed(t)[i] = Seen(t)[i]
                          /\ ~E!Overtaken(t, i, store)
<1>1. ASSUME NEW i \in Id
      PROVE  Seen(t)[i] = IF t.writes[i] # None THEN t.writes[i] ELSE store[i]
  BY SeenType DEF Current
<1>2. Seen(t) = Merged(t)
  <2>1. Merged(t) = [i \in Id |-> IF t.writes[i] # None THEN t.writes[i] ELSE store[i]]
    BY DEF Merged, E!Install
  <2>2. Seen(t) = [i \in Id |-> Seen(t)[i]]
    BY DEF Seen, E!Sees
  <2> QED BY <1>1, <2>1, <2>2
<1>3. ASSUME NEW i \in Id
      PROVE  /\ PrimaryTaken(t, i) <=> Seen(t)[i] # Gone
             /\ Indexed(t)[i] # Gone => Indexed(t)[i] = Seen(t)[i]
             /\ ~E!Overtaken(t, i, store)
  BY <1>1 DEF PrimaryTaken, Indexed, E!Overtaken, Current
<1> QED BY <1>2, <1>3 DEF Current

(* A row may be placed exactly when no other row holds one of its keys.    *)
LEMMA PlaceableRow ==
  ASSUME NEW rows \in [Id -> Cell], NoDuplicates(rows),
         NEW i \in Id, NEW r \in Contents
  PROVE  NoDuplicates([rows EXCEPT ![i] = r]) <=> Collides(unique, i, r, rows) = {}
<1> DEFINE placed == [rows EXCEPT ![i] = r]
<1>1. ASSUME NoDuplicates(placed) PROVE Collides(unique, i, r, rows) = {}
  <2>1. placed \in [Id -> Cell] /\ placed[i] = r /\ r # Gone
        /\ \A k \in Id \ {i} : placed[k] = rows[k]
    BY NotNone DEF Cell
  <2> HIDE DEF placed
  <2>2. \A x \in unique : \A k \in Id \ {i} : rows[k] # Gone => ~SameKey(x, r, rows[k])
    BY <1>1, <2>1, ApartRows DEF Apart
  <2> QED BY <2>2, FreeKeys
<1> QED BY <1>1, PlaceRow

LEMMA InsertAllowed ==
  ASSUME Tables, NEW t \in E!Transaction, Current(t), NEW i \in Id, NEW r \in Contents
  PROVE  CanInsert(t, i, r)
         <=> Seen(t)[i] = Gone /\ NoDuplicates([Seen(t) EXCEPT ![i] = r])
<1>1. /\ Seen(t) \in [Id -> Cell] /\ NoDuplicates(Seen(t))
      /\ PrimaryTaken(t, i) <=> Seen(t)[i] # Gone
      /\ \A k \in Id : Indexed(t)[k] # Gone => Indexed(t)[k] = Seen(t)[k]
      /\ Indexed(t) \in [Id -> Cell]
  <2>1. Indexed(t) \in [Id -> Cell]
    BY DEF Indexed, Tables, E!State, Cell
  <2> QED BY <2>1, SeenType, CurrentSees
<1>2. ASSUME NoneHolds(Seen(t), r)
      PROVE  /\ Collides(unique, i, r, Indexed(t)) = {}
             /\ Collides(unique, i, r, Seen(t)) = {}
  <2>1. \A x \in unique : \A k \in Id \ {i} :
          Indexed(t)[k] # Gone => ~SameKey(x, r, Indexed(t)[k])
    BY <1>1, <1>2 DEF NoneHolds
  <2>2. \A x \in unique : \A k \in Id \ {i} :
          Seen(t)[k] # Gone => ~SameKey(x, r, Seen(t)[k])
    BY <1>2 DEF NoneHolds
  <2> QED BY <1>1, <2>1, <2>2, FreeKeys
<1>3. ASSUME Collides(unique, i, r, Seen(t)) = {}, Seen(t)[i] = Gone
      PROVE  NoneHolds(Seen(t), r)
  <2>1. \A x \in unique : \A k \in Id \ {i} :
          Seen(t)[k] # Gone => ~SameKey(x, r, Seen(t)[k])
    BY <1>1, <1>3, FreeKeys
  <2> QED BY <1>3, <2>1 DEF NoneHolds
<1> QED BY <1>1, <1>2, <1>3, PlaceableRow DEF CanInsert, CanPlace

(* What o has to be when the rows asked for are allowed, or not.           *)
Answers(t, o, allowed, asked) ==
  IF allowed THEN o.reply = "done" /\ Seen(o.tx) = asked
             ELSE o.reply = "duplicate" /\ Seen(o.tx) = Seen(t)

LEMMA InsertAnswersFor ==
  ASSUME Tables, NEW t \in E!Transaction, Current(t), NEW i \in Id, NEW r \in Contents,
         NEW o \in Insert(t, i, r)
  PROVE  Answers(t, o, Seen(t)[i] = Gone /\ NoDuplicates(Asked(Seen(t), i, r)),
                 Asked(Seen(t), i, r))
<1>1. CanInsert(t, i, r) <=> Seen(t)[i] = Gone /\ NoDuplicates(Asked(Seen(t), i, r))
  BY InsertAllowed DEF Asked
<1>2. CASE CanInsert(t, i, r)
  <2>1. o = Done(E!Put(t, i, r))
    BY <1>2, InsertAnswers
  <2>2. Seen(E!Put(t, i, r)) = Asked(Seen(t), i, r)
    BY SeenPut DEF Asked, Cell
  <2> QED BY <1>1, <1>2, <2>1, <2>2 DEF Answers, Done
<1>3. CASE ~CanInsert(t, i, r)
  <2>1. Refused(t, o)
    BY <1>3, InsertAnswers
  <2> QED BY <1>1, <1>3, <2>1 DEF Answers, Refused, Duplicate
<1> QED BY <1>2, <1>3

(* The check finds the keys another row holds, and only those.             *)
LEMMA CheckAllows ==
  ASSUME Tables, NEW t \in E!Transaction, NoDuplicates(Seen(t)),
         NEW i \in Id, Seen(t)[i] # Gone, NEW changed, NEW new
  PROVE  CheckUnique(t, i, With(Seen(t)[i], changed, new), changed) = {}
         <=> Collides(unique, i, With(Seen(t)[i], changed, new), Seen(t)) = {}
<1> DEFINE r == With(Seen(t)[i], changed, new)
<1>1. CheckUnique(t, i, r, changed) \subseteq Collides(unique, i, r, Seen(t))
  BY DEF CheckUnique, Collides
<1> QED BY <1>1, CheckedRow

LEMMA UpdateAnswersFor ==
  ASSUME Tables, NEW t \in E!Transaction, Current(t), NEW i \in Id, Seen(t)[i] # Gone,
         NEW changed, NEW new \in Contents, NEW o \in Update(t, i, changed, new)
  PROVE  LET asked == Asked(Seen(t), i, With(Seen(t)[i], changed, new))
         IN  Answers(t, o, NoDuplicates(asked), asked)
<1> DEFINE r == With(Seen(t)[i], changed, new)
           asked == Asked(Seen(t), i, r)
<1>1. /\ Seen(t) \in [Id -> Cell] /\ NoDuplicates(Seen(t)) /\ r \in Contents
      /\ ~E!Overtaken(t, i, store)
  BY SeenType, CurrentSees, WithType DEF Cell
<1>2. CheckUnique(t, i, r, changed) = {} <=> NoDuplicates(asked)
  BY <1>1, CheckAllows, PlaceableRow DEF Asked
<1>3. o \in Unless(CheckUnique(t, i, r, changed), t, EngineSet(t, i, r))
  BY DEF Update
<1>4. CASE CheckUnique(t, i, r, changed) = {}
  <2>1. o = Done(E!Put(t, i, r))
    BY <1>1, <1>3, <1>4 DEF Unless, EngineSet
  <2>2. Seen(E!Put(t, i, r)) = asked
    BY <1>1, SeenPut DEF Asked, Cell
  <2> HIDE DEF r
  <2> QED BY <1>2, <1>4, <2>1, <2>2 DEF Answers, Done, r
<1>5. CASE CheckUnique(t, i, r, changed) # {}
  <2>1. \E x \in unique : o = Duplicate(t, x)
    BY <1>3, <1>5, UnlessOutcome, HeldAreIndexes
  <2> QED BY <1>2, <1>5, <2>1 DEF Answers, Duplicate
<1> QED BY <1>4, <1>5

(* A row taken out for its new place: what that place then is.             *)
LEMMA MovePlace ==
  ASSUME Tables, NEW t \in E!Transaction, Current(t),
         NEW i \in Id, NEW j \in Id, i # j, NEW r \in Contents,
         Collides(unique, i, r, Seen(t)) = {}
  PROVE  CanPlace(E!Put(t, i, Gone), j, r) <=> Seen(t)[j] = Gone
<1> DEFINE d == E!Put(t, i, Gone)
<1>1. /\ d.writes = [t.writes EXCEPT ![i] = Gone]
      /\ t.writes \in [Id -> Cell \cup {None}]
  BY PutType, TransactionParts DEF Cell
<1>2. Seen(d) = [Seen(t) EXCEPT ![i] = Gone] /\ Seen(t) \in [Id -> Cell]
  BY RemovedGood, SeenType
<1>3. /\ PrimaryTaken(t, j) <=> Seen(t)[j] # Gone
      /\ \A k \in Id : Indexed(t)[k] # Gone => Indexed(t)[k] = Seen(t)[k]
  BY CurrentSees
<1> HIDE DEF d
<1>4. PrimaryTaken(d, j) <=> Seen(t)[j] # Gone
  <2>1. d.writes[j] = t.writes[j] /\ Seen(d)[j] = Seen(t)[j]
    BY <1>1, <1>2
  <2> QED BY <1>3, <2>1 DEF PrimaryTaken
<1>5. Collides(unique, j, r, Indexed(d)) = {}
  <2>1. Indexed(d) \in [Id -> Cell]
    BY DEF Indexed, Tables, E!State, Cell
  <2>2. \A k \in Id : Indexed(d)[k] = IF d.writes[k] = None THEN store[k] ELSE Gone
    BY DEF Indexed
  <2>3. \A k \in Id : Indexed(t)[k] = IF t.writes[k] = None THEN store[k] ELSE Gone
    BY DEF Indexed
  <2>4. d.writes[i] # None /\ \A k \in Id \ {i} : d.writes[k] = t.writes[k]
    BY <1>1, NotNone DEF Cell
  <2>5. \A k \in Id : Indexed(d)[k] # Gone => k # i /\ Indexed(d)[k] = Seen(t)[k]
    BY <1>3, <2>2, <2>3, <2>4
  <2>6. \A x \in unique : \A k \in Id \ {j} :
          Indexed(d)[k] # Gone => ~SameKey(x, r, Indexed(d)[k])
    BY <1>2, <2>5, FreeKeys
  <2> QED BY <2>1, <2>6, FreeKeys
<1> QED BY <1>4, <1>5 DEF CanPlace, d

(* A row whose new id is taken goes back to where it was.                  *)
LEMMA PutBackWhenRefused ==
  ASSUME NEW d, NEW i, NEW old, NEW j, NEW r, NEW o \in InsertOrPutBack(d, i, old, j, r),
         ~CanPlace(d, j, r),
         \A p \in EngineInsert(d, i, old) : p = Done(E!Put(d, i, old))
  PROVE  o.reply = "duplicate" /\ o.tx = E!Put(d, i, old)
<1>1. PICK e \in EngineInsert(d, j, r) :
        o \in (IF e.reply = "done" THEN {e}
               ELSE {IF p.reply = "done" THEN [e EXCEPT !.tx = p.tx] ELSE p :
                       p \in EngineInsert(d, i, old)})
  BY DEF InsertOrPutBack
<1>2. PICK x \in unique \cup {Primary} : e = Duplicate(d, x)
  BY EngineInsertAnswers DEF Refused
<1>3. PICK p \in EngineInsert(d, i, old) :
        o = IF p.reply = "done" THEN [e EXCEPT !.tx = p.tx] ELSE p
  BY <1>1, <1>2 DEF Duplicate
<1>4. p.reply = "done" /\ p.tx = E!Put(d, i, old)
  BY DEF Done
<1>5. o = [e EXCEPT !.tx = E!Put(d, i, old)]
  BY <1>3, <1>4
<1> QED BY <1>2, <1>5 DEF Duplicate

LEMMA MoveAnswersFor ==
  ASSUME Tables, NEW t \in E!Transaction, Current(t), NEW i \in Id, Seen(t)[i] # Gone,
         NEW j \in Id \ {i}, NEW changed, NEW new \in Contents,
         NEW o \in Move(t, i, changed, new, j)
  PROVE  LET asked == Asked(Asked(Seen(t), i, Gone), j, With(Seen(t)[i], changed, new))
         IN  Answers(t, o, Seen(t)[j] = Gone /\ NoDuplicates(asked), asked)
<1> DEFINE old == Seen(t)[i]
           r == With(old, changed, new)
           d == E!Put(t, i, Gone)
           asked == Asked(Asked(Seen(t), i, Gone), j, r)
           free == Seen(t)[j] = Gone
<1>1. /\ Seen(t) \in [Id -> Cell] /\ NoDuplicates(Seen(t)) /\ NoDuplicates(Merged(t))
      /\ ~E!Overtaken(t, i, store)
  BY SeenType, CurrentSees DEF Current
<1>2. old \in Contents /\ r \in Contents /\ old \in Cell /\ r \in Cell
  BY <1>1, WithType DEF Cell
<1>3. /\ d \in E!Transaction /\ Seen(d) = [Seen(t) EXCEPT ![i] = Gone]
      /\ Seen(d) \in [Id -> Cell] /\ NoDuplicates(Seen(d))
  BY <1>1, RemovedGood, SeenType
<1>4. asked = [Seen(d) EXCEPT ![j] = r]
  BY <1>3 DEF Asked
<1>5. CheckUnique(t, i, r, changed) = {} <=> Collides(unique, i, r, Seen(t)) = {}
  BY <1>1, CheckAllows
<1>6. o \in Unless(CheckUnique(t, i, r, changed), t,
                   UNION {IF e.reply = "done"
                            THEN InsertOrPutBack(e.tx, i, old, j, r)
                            ELSE {e} : e \in EngineSet(t, i, Gone)})
  BY DEF Move
<1>7. EngineSet(t, i, Gone) = {Done(d)}
  BY <1>1 DEF EngineSet
<1>8. free /\ NoDuplicates(asked) => Collides(unique, i, r, Seen(t)) = {}
  <2>1. SUFFICES ASSUME free, NoDuplicates(asked)
                 PROVE  Collides(unique, i, r, Seen(t)) = {}
    OBVIOUS
  <2>2. Collides(unique, j, r, Seen(d)) = {}
    BY <1>2, <1>3, <1>4, <2>1, PlaceableRow
  <2>3. \A k \in Id \ {i} : Seen(d)[k] = Seen(t)[k]
    BY <1>1, <1>3
  <2> HIDE DEF r, d
  <2>4. \A x \in unique : \A k \in Id \ {j} :
          Seen(d)[k] # Gone => ~SameKey(x, r, Seen(d)[k])
    BY <1>3, <2>2, FreeKeys
  <2>5. ASSUME NEW x \in unique, NEW k \in Id \ {i}, Seen(t)[k] # Gone
        PROVE  ~SameKey(x, r, Seen(t)[k])
    <3>1. k \in Id \ {j} /\ Seen(d)[k] = Seen(t)[k]
      BY <2>1, <2>3, <2>5
    <3> QED BY <2>4, <2>5, <3>1
  <2> QED BY <1>1, <2>5, FreeKeys
<1>9. Collides(unique, i, r, Seen(t)) = {} => NoDuplicates(asked)
  <2> HIDE DEF r
  <2>1. Collides(unique, i, r, Seen(t)) = {} => Collides(unique, j, r, Seen(d)) = {}
    BY <1>1, <1>3, FreeInFewer
  <2> HIDE DEF d
  <2>2. Collides(unique, j, r, Seen(d)) = {} => NoDuplicates([Seen(d) EXCEPT ![j] = r])
    BY <1>2, <1>3, PlaceRow
  <2> QED BY <1>4, <2>1, <2>2
<1>10. CASE CheckUnique(t, i, r, changed) # {}
  <2>1. \E x \in unique : o = Duplicate(t, x)
    BY <1>6, <1>10, UnlessOutcome, HeldAreIndexes
  <2>2. ~(free /\ NoDuplicates(asked))
    BY <1>5, <1>8, <1>10
  <2> HIDE DEF asked, free
  <2>3. Answers(t, o, free /\ NoDuplicates(asked), asked)
    BY <2>1, <2>2 DEF Answers, Duplicate
  <2> QED BY <2>3 DEF asked, free, r, old
<1>11. CASE CheckUnique(t, i, r, changed) = {}
  <2>1. Collides(unique, i, r, Seen(t)) = {}
    BY <1>5, <1>11
  <2>2. o \in InsertOrPutBack(d, i, old, j, r)
    <3>1. o \in UNION {IF e.reply = "done"
                         THEN InsertOrPutBack(e.tx, i, old, j, r)
                         ELSE {e} : e \in EngineSet(t, i, Gone)}
      BY <1>6, <1>11 DEF Unless
    <3>2. Done(d).reply = "done" /\ Done(d).tx = d
      BY DEF Done
    <3> HIDE DEF d, old, r
    <3> QED BY <1>7, <3>1, <3>2
  <2>3. CanPlace(d, j, r) <=> free
    BY <1>2, <2>1, MovePlace
  <2>4. CASE free
    <3>1. o = Done(E!Put(d, j, r))
      <4>1. EngineInsert(d, j, r) = {Done(E!Put(d, j, r))}
        BY <2>3, <2>4, EngineInsertAnswers
      <4>2. Done(E!Put(d, j, r)).reply = "done"
        BY DEF Done
      <4> HIDE DEF d, old, r
      <4> QED BY <2>2, <4>1, <4>2 DEF InsertOrPutBack
    <3>2. Seen(E!Put(d, j, r)) = asked
      <4> HIDE DEF d, r, asked
      <4> QED BY <1>2, <1>3, <1>4, SeenPut
    <3>3. NoDuplicates(asked)
      BY <1>9, <2>1, <2>4
    <3>4. o.reply = "done" /\ o.tx = E!Put(d, j, r)
      <4> HIDE DEF d, r
      <4> QED BY <3>1 DEF Done
    <3> HIDE DEF asked, free, d
    <3>5. Answers(t, o, free /\ NoDuplicates(asked), asked)
      BY <2>4, <3>2, <3>3, <3>4 DEF Answers
    <3> QED BY <3>5 DEF asked, free, r, old
  <2>5. CASE ~free
    <3>1. \A p \in EngineInsert(d, i, old) : p = Done(E!Put(d, i, old))
      BY <1>1, PutBackWorks
    <3>2. o.reply = "duplicate" /\ o.tx = E!Put(d, i, old)
      <4> HIDE DEF d, old, r
      <4> QED BY <2>2, <2>3, <2>5, <3>1, PutBackWhenRefused
    <3>3. Seen(E!Put(d, i, old)) = [Seen(d) EXCEPT ![i] = old]
      <4> HIDE DEF d, old
      <4> QED BY <1>2, <1>3, SeenPut
    <3>4. [Seen(d) EXCEPT ![i] = old] = Seen(t)
      BY <1>1, <1>3
    <3> HIDE DEF asked, free, d
    <3>5. Answers(t, o, free /\ NoDuplicates(asked), asked)
      BY <2>5, <3>2, <3>3, <3>4 DEF Answers
    <3> QED BY <3>5 DEF asked, free, r, old
  <2> QED BY <2>4, <2>5
<1> QED BY <1>10, <1>11

-----------------------------------------------------------------------------
(* As long as nobody else has committed, a snapshot is of the store.       *)

FreshSnapshot == tx # None /\ others = 0 /\ tx.level = "SI" => tx.snap = store

SameView(t, p) == p.level = t.level /\ p.snap = t.snap

LEMMA PutView ==
  ASSUME NEW t \in E!Transaction, NEW i \in Id, NEW v \in Cell
  PROVE  E!Put(t, i, v) \in E!Transaction /\ SameView(t, E!Put(t, i, v))
BY PutType DEF SameView

LEMMA InsertView ==
  ASSUME Tables, NEW t \in E!Transaction, NEW i \in Id, NEW r \in Contents,
         NEW o \in Insert(t, i, r)
  PROVE  SameView(t, o.tx)
<1>1. SameView(t, E!Put(t, i, r))
  BY PutView DEF Cell
<1>2. o = Done(E!Put(t, i, r)) \/ Refused(t, o)
  BY InsertAnswers
<1> QED BY <1>1, <1>2 DEF Done, Refused, Duplicate, SameView

LEMMA InsertBatchView ==
  ASSUME Tables, NEW t \in E!Transaction, NEW i \in Id, NEW j \in Id,
         NEW r \in Contents, NEW q \in Contents, NEW o \in InsertBatch(t, i, r, j, q)
  PROVE  SameView(t, o.tx)
<1> DEFINE d == E!Put(t, i, r)
<1>1. d \in E!Transaction /\ SameView(t, d)
  BY PutView DEF Cell
<1>2. o = Done(E!Put(d, j, q)) \/ Refused(t, o)
  BY InsertBatchAnswers
<1> HIDE DEF d
<1>3. q \in Cell
  BY DEF Cell
<1>4. SameView(d, E!Put(d, j, q))
  BY <1>1, <1>3, PutView
<1>5. SameView(t, E!Put(d, j, q))
  BY <1>1, <1>4 DEF SameView
<1> QED BY <1>2, <1>5 DEF Done, Refused, Duplicate, SameView

LEMMA SetView ==
  ASSUME NEW t \in E!Transaction, NEW i \in Id, NEW v \in Cell, NEW o \in EngineSet(t, i, v)
  PROVE  SameView(t, o.tx)
<1>1. SameView(t, E!Put(t, i, v))
  BY PutView
<1> QED BY <1>1, EngineSetOutcome DEF Done, Conflict, SameView

LEMMA UpdateView ==
  ASSUME Tables, NEW t \in E!Transaction, NEW i \in Id, NEW changed,
         NEW new \in Contents, NEW o \in Update(t, i, changed, new)
  PROVE  SameView(t, o.tx)
<1> DEFINE r == With(Seen(t)[i], changed, new)
<1>1. CASE Seen(t)[i] = Gone
  BY <1>1 DEF Update, RowGone, SameView
<1>2. CASE Seen(t)[i] # Gone
  <2>1. r \in Cell
    BY <1>2, SeenType, WithType DEF Cell
  <2>2. o \in EngineSet(t, i, r) \/ \E x \in unique : o = Duplicate(t, x)
    <3>1. o \in Unless(CheckUnique(t, i, r, changed), t, EngineSet(t, i, r))
      BY <1>2 DEF Update
    <3> QED BY <3>1, UnlessOutcome, HeldAreIndexes
  <2> QED BY <2>1, <2>2, SetView DEF Duplicate, SameView
<1> QED BY <1>1, <1>2

LEMMA MoveView ==
  ASSUME Tables, NEW t \in E!Transaction, NEW i \in Id, NEW j \in Id, NEW changed,
         NEW new \in Contents, NEW o \in Move(t, i, changed, new, j)
  PROVE  SameView(t, o.tx)
<1> DEFINE old == Seen(t)[i]
           r == With(old, changed, new)
           d == E!Put(t, i, Gone)
<1>1. CASE old = Gone
  BY <1>1 DEF Move, RowGone, SameView
<1>2. CASE old # Gone
  <2>1. old \in Cell /\ r \in Cell /\ Gone \in Cell
    BY <1>2, SeenType, WithType DEF Cell
  <2>2. d \in E!Transaction /\ SameView(t, d)
    BY PutView DEF Cell
  <2>3. \/ \E e \in EngineSet(t, i, Gone) :
             IF e.reply = "done"
               THEN o \in InsertOrPutBack(e.tx, i, old, j, r) ELSE o = e
        \/ \E x \in unique : o = Duplicate(t, x)
    <3>1. o \in Unless(CheckUnique(t, i, r, changed), t,
                 UNION {IF e.reply = "done"
                          THEN InsertOrPutBack(e.tx, i, old, j, r)
                          ELSE {e} : e \in EngineSet(t, i, Gone)})
      BY <1>2 DEF Move
    <3> QED BY <3>1, UnlessOutcome, HeldAreIndexes
  <2>4. CASE \E x \in unique : o = Duplicate(t, x)
    BY <2>4 DEF Duplicate, SameView
  <2>5. ASSUME NEW e \in EngineSet(t, i, Gone),
               IF e.reply = "done"
                 THEN o \in InsertOrPutBack(e.tx, i, old, j, r) ELSE o = e
        PROVE  SameView(t, o.tx)
    <3>1. e = Done(d) \/ e = Conflict(t)
      BY EngineSetOutcome
    <3>2. CASE e = Conflict(t)
      BY <2>5, <3>2 DEF Conflict, SameView
    <3>3. CASE e = Done(d)
      <4> HIDE DEF d, r, old
      <4>1. o \in InsertOrPutBack(d, i, old, j, r)
        BY <2>5, <3>3 DEF Done
      <4>2. SameView(d, E!Put(d, j, r)) /\ SameView(d, E!Put(d, i, old))
        BY <2>1, <2>2, PutView
      <4>3. SameView(d, o.tx)
        BY <4>1, <4>2, InsertOrPutBackOutcome DEF Done, Duplicate, SameView
      <4> QED BY <2>2, <4>3 DEF SameView
    <3> QED BY <3>1, <3>2, <3>3
  <2> QED BY <2>3, <2>4, <2>5
<1> QED BY <1>1, <1>2

LEMMA DeleteView ==
  ASSUME NEW t \in E!Transaction, NEW i \in Id, NEW o \in Delete(t, i)
  PROVE  SameView(t, o.tx)
<1>1. Gone \in Cell
  BY DEF Cell
<1> QED BY <1>1, SetView DEF Delete, RowGone, SameView

(* Every step of a transaction leaves its snapshot as it was taken.        *)
LEMMA SnapshotStays ==
  ASSUME TypeOK, Next, tx # None, tx' # None
  PROVE  SameView(tx, tx')
<1>1. Tables /\ tx \in E!Transaction
  BY DEF TypeOK, Tables
<1>2. CASE WriteRow
  BY <1>1, <1>2, InsertView DEF WriteRow, Writes, Outcome
<1>3. CASE FlushBulkBuffer
  BY <1>1, <1>3, InsertBatchView DEF FlushBulkBuffer, Writes, Outcome
<1>4. CASE UpdateRow
  <2>1. cur[1] \in Id
    BY <1>4 DEF UpdateRow, TypeOK
  <2> QED BY <1>1, <1>4, <2>1, UpdateView DEF UpdateRow, Writes, Outcome
<1>5. CASE UpdatePrimaryKey
  <2>1. cur[1] \in Id
    BY <1>5 DEF UpdatePrimaryKey, TypeOK
  <2> QED BY <1>1, <1>5, <2>1, MoveView DEF UpdatePrimaryKey, Writes, Outcome
<1>6. CASE DeleteRow
  <2>1. cur[1] \in Id
    BY <1>6 DEF DeleteRow, TypeOK
  <2> QED BY <1>1, <1>6, <2>1, DeleteView DEF DeleteRow, Writes, Outcome
<1>7. CASE Begin \/ Commit \/ OthersCommit \/ ReadRow
  BY <1>7 DEF Begin, Commit, OthersCommit, ReadRow, SameView
<1> QED BY <1>2, <1>3, <1>4, <1>5, <1>6, <1>7 DEF Next

LEMMA FreshSnapshotStays ==
  ASSUME TypeOK, FreshSnapshot, [Next]_vars
  PROVE  FreshSnapshot'
<1>1. CASE UNCHANGED vars
  BY <1>1 DEF vars, FreshSnapshot
<1>2. CASE Next /\ tx # None /\ tx' # None
  <2>1. SameView(tx, tx')
    BY <1>2, SnapshotStays
  <2>2. UNCHANGED <<store, others>> \/ others' = others + 1
    BY <1>2 DEF Next, WriteRow, FlushBulkBuffer, UpdateRow, UpdatePrimaryKey,
                DeleteRow, Begin, Commit, OthersCommit, ReadRow, Writes
  <2>3. others' = others + 1 => others' # 0
    BY UniqueWritesConstants DEF TypeOK
  <2> QED BY <1>2, <2>1, <2>2, <2>3 DEF SameView, FreshSnapshot
<1>3. CASE Next /\ tx = None
  <2>1. Begin
    BY <1>3 DEF Next, WriteRow, FlushBulkBuffer, UpdateRow, UpdatePrimaryKey,
                DeleteRow, Commit, OthersCommit, ReadRow, Writes
  <2> QED BY <2>1 DEF Begin, E!NewTransaction, FreshSnapshot
<1>4. CASE tx' = None
  BY <1>4 DEF FreshSnapshot
<1> QED BY <1>1, <1>2, <1>3, <1>4

(* A row's own write says whether its keys are taken and leaves the rows   *)
(* asked for, or those there were: insert, update and the move of a row    *)
(* with its put-back (write.rs 29-114), the engine's own tests included.   *)
THEOREM WritesAnswer == Spec => []WritesAnswerForKeys
<1>1. Init => FreshSnapshot
  BY DEF Init, FreshSnapshot
<1>2. ASSUME TypeOK, FreshSnapshot PROVE WritesAnswerForKeys
  <2> SUFFICES ASSUME tx # None, tx.level = "RC" \/ others = 0, NoDuplicates(Merged(tx)),
                      NEW i \in Id, NEW r \in Contents
      PROVE  /\ AnswersFor(Insert(tx, i, r), Seen(tx)[i] = Gone, Asked(Seen(tx), i, r))
             /\ Seen(tx)[i] # Gone =>
                  \A changed \in SUBSET Col :
                    LET new == With(Seen(tx)[i], changed, r)
                    IN  /\ AnswersFor(Update(tx, i, changed, r), TRUE,
                                      Asked(Seen(tx), i, new))
                        /\ \A j \in Id \ {i} :
                             AnswersFor(Move(tx, i, changed, r, j),
                                        Seen(tx)[j] = Gone,
                                        Asked(Asked(Seen(tx), i, Gone), j, new))
    BY DEF WritesAnswerForKeys
  <2>1. Tables /\ tx \in E!Transaction /\ Current(tx)
    BY <1>2 DEF TypeOK, Tables, FreshSnapshot, Current, E!Transaction, E!Level
  <2>2. AnswersFor(Insert(tx, i, r), Seen(tx)[i] = Gone, Asked(Seen(tx), i, r))
    BY <2>1, InsertAnswersFor DEF AnswersFor, Answers
  <2>3. ASSUME Seen(tx)[i] # Gone, NEW changed \in SUBSET Col
        PROVE  AnswersFor(Update(tx, i, changed, r), TRUE,
                          Asked(Seen(tx), i, With(Seen(tx)[i], changed, r)))
    BY <2>1, <2>3, UpdateAnswersFor DEF AnswersFor, Answers
  <2>4. ASSUME Seen(tx)[i] # Gone, NEW changed \in SUBSET Col, NEW j \in Id \ {i}
        PROVE  AnswersFor(Move(tx, i, changed, r, j), Seen(tx)[j] = Gone,
                          Asked(Asked(Seen(tx), i, Gone), j, With(Seen(tx)[i], changed, r)))
    BY <2>1, <2>4, MoveAnswersFor DEF AnswersFor, Answers
  <2> QED BY <2>2, <2>3, <2>4
<1>3. TypeOK /\ FreshSnapshot /\ [Next]_vars => FreshSnapshot'
  BY FreshSnapshotStays
<1> QED BY <1>1, <1>2, <1>3, TypeCorrect, PTL DEF Spec
=============================================================================
