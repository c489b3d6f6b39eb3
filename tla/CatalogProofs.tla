---------------------------- MODULE CatalogProofs ----------------------------
(***************************************************************************)
(* Theorems about Catalog, for every set of connections, tables and        *)
(* FOREIGN KEYs and every bound: the counts the plugin keeps are honest,   *)
(* and its reconciled set and stoolap's FOREIGN KEYs survive the DDL.      *)
(***************************************************************************)
EXTENDS Catalog, TLAPS

(* What DDL keeps of the catalog, DROP DATABASE in mid-loop included.  A   *)
(* table the loop has passed and left is named from another database.      *)
SoundCatalog ==
  /\ dropping \subseteq Home
  /\ \A t \in Table : rows[t] # Gone => t \in frm
  /\ \A e \in fks : rows[e[1]] # Gone
  /\ \A e \in fks : rows[e[2]] = Gone =>
       e[2] \in forced \cup taken \/ (e[2] \in dropping /\ e[1] \in Home)
  /\ dropping # {} =>
       \A k \in (frm \cap Home) \ dropping :
         \E e \in fks : e[2] = k /\ e[1] \notin Home
  /\ \A t \in forced : t \notin frm /\ \E e \in declared : e[2] = t
  /\ ReconciledExists

(* A transaction's changes leave between none and MaxRows rows of what it  *)
(* saw at its beginning.                                                   *)
Fits(seen, changes) ==
  \A t \in Table : IF seen[t] = Gone THEN changes[t] = 0
                                     ELSE seen[t] + changes[t] \in 0 .. MaxRows

SoundTx ==
  \A c \in Conn :
    /\ c \in tx => Fits(snap[c], own[c])
    /\ c \in tx /\ saved[c] # None => Fits(snap[c], saved[c])
    /\ c \notin tx => own[c] = [t \in Table |-> 0] /\ saved[c] = None
    /\ due[c] # {} => c \notin tx
    /\ \A t \in Table :
         own[c][t] > 0 \/ (saved[c] # None /\ saved[c][t] > 0) => t \in uses[c]

(* A count of the process is one TRUNCATE left, and nobody who may commit  *)
(* rows to the table will do so without invalidating it.                   *)
SoundCounts ==
  /\ \A t \in Table : records[t] # None => records[t] = 0 /\ t \in frm
  /\ \A c \in Conn : \A t \in Table :
       own[c][t] > 0 \/ (saved[c] # None /\ saved[c][t] > 0) =>
         t \in dirty[c] \/ records[t] = None
  /\ GlobalCountHonest

(* The table an autocommit write is in stays while the statement lasts,    *)
(* and has no count.                                                       *)
SoundAuto ==
  \A c \in Conn : auto[c] # None =>
    /\ rows[auto[c][1]] # Gone
    /\ records[auto[c][1]] = None
    /\ dropping # {} => auto[c][1] \notin Home

(* The inductive invariant.                                                *)
IInv == TypeOK /\ SoundCatalog /\ SoundTx /\ SoundCounts /\ SoundAuto /\ TxCountExact

-----------------------------------------------------------------------------
(* The operators.                                                          *)

LEMMA KeysJoinTables ==
  ASSUME TypeOK
  PROVE  /\ declared \subseteq {e \in Table \X Table : e[1] # e[2]}
         /\ fks \subseteq {e \in Table \X Table : e[1] # e[2]}
         /\ \A t : Children(t) \subseteq Table \ {t}
BY CatalogConstants DEF TypeOK, Children

(* A count adjusted stays one the process can hold, or is forgotten.       *)
LEMMA AdjustedType ==
  ASSUME NEW n \in Count \cup {None}, NEW d \in Delta
  PROVE  Adjusted(n, d) \in Count \cup {None}
BY DEF Adjusted

(* And where it is not, it is the count of the rows after the change.      *)
LEMMA AdjustedCounts ==
  ASSUME NEW n \in Count \cup {None}, NEW d \in Delta, Adjusted(n, d) # None
  PROVE  n # None /\ Adjusted(n, d) = n + d
BY DEF Adjusted

LEMMA TxCountType ==
  ASSUME TypeOK, NEW c \in Conn, NEW t \in Table, NEW d \in Delta
  PROVE  /\ TxCount(c, t, d) \in Count \cup {None}
         /\ TxCount(c, t, d) # None =>
              counts[c][t] # None /\ TxCount(c, t, d) = counts[c][t] + d
<1>1. counts[c][t] \in Count \cup {None}
  BY DEF TypeOK
<1>2. Adjusted(counts[c][t], d) \in Count \cup {None}
  BY <1>1, AdjustedType
<1>3. Adjusted(counts[c][t], d) # None =>
        counts[c][t] # None /\ Adjusted(counts[c][t], d) = counts[c][t] + d
  BY <1>1, AdjustedCounts
<1> QED BY <1>2, <1>3 DEF TxCount

LEMMA SeenCounts ==
  ASSUME TypeOK, SoundTx, NEW c \in tx, NEW t \in Table, snap[c][t] # Gone
  PROVE  Seen(c, t) \in 0 .. MaxRows /\ Seen(c, t) \in Count
BY CatalogConstants DEF TypeOK, SoundTx, Fits, Seen, Count

-----------------------------------------------------------------------------
(* What a step leaves alone stays sound.                                   *)

LEMMA CatalogUntouched ==
  ASSUME TypeOK, SoundCatalog, UNCHANGED <<fks, catalog>>, rows' \in [Table -> 0 .. MaxRows \cup {Gone}],
         \A t \in Table : rows'[t] = Gone <=> rows[t] = Gone
  PROVE  SoundCatalog'
<1>1. \A e \in fks : e[1] \in Table /\ e[2] \in Table
  BY KeysJoinTables
<1>2. reconciled \subseteq Table
  BY DEF TypeOK
<1> QED BY <1>1, <1>2 DEF SoundCatalog, ReconciledExists, catalog

LEMMA TxUntouched ==
  ASSUME TypeOK, SoundTx, UNCHANGED <<tx, snap, own, saved, due, uses>>
  PROVE  SoundTx'
BY DEF SoundTx, Fits

LEMMA CountsUntouched ==
  ASSUME TypeOK, SoundCounts, UNCHANGED <<records, frm, own, saved, dirty, rows, due>>
  PROVE  SoundCounts'
BY DEF SoundCounts, GlobalCountHonest, StaleCount

LEMMA AutoUntouched ==
  ASSUME TypeOK, SoundAuto, dropping' = dropping,
         \A c \in Conn : auto'[c] \in {auto[c], None},
         \A t \in Table : /\ rows[t] # Gone => rows'[t] # Gone
                         /\ records'[t] \in {records[t], None}
  PROVE  SoundAuto'
<1>1. \A c \in Conn : auto[c] # None => auto[c][1] \in Table
  BY DEF TypeOK
<1> QED BY <1>1 DEF SoundAuto

LEMMA TxCountUntouched ==
  ASSUME TypeOK, TxCountExact, UNCHANGED <<tx, snap, own, blurred, counts>>
  PROVE  TxCountExact'
BY DEF TxCountExact, Seen

LEMMA InitInv == Init => IInv
<1> SUFFICES ASSUME Init PROVE IInv
  OBVIOUS
<1>1. PICK stored \in {frm, {}} :
        /\ rows = [t \in Table |-> IF t \in stored THEN 0 ELSE Gone]
        /\ fks = {e \in declared : e[1] \in stored}
        /\ reconciled \in {stored, {}}
  BY DEF Init
<1>2. declared \subseteq {e \in Table \X Table : e[1] # e[2]}
  BY CatalogConstants DEF Init
<1>3. TypeOK
  BY <1>1, <1>2, CatalogConstants DEF Init, TypeOK, NoRows, Count
<1>4. SoundCatalog
  BY <1>1, <1>2, CatalogConstants DEF Init, SoundCatalog, ReconciledExists
<1>5. SoundTx
  BY CatalogConstants DEF Init, SoundTx
<1>6. SoundCounts /\ SoundAuto
  BY CatalogConstants DEF Init, SoundCounts, SoundAuto, GlobalCountHonest, StaleCount
<1>7. TxCountExact
  BY DEF Init, TxCountExact
<1> QED BY <1>3, <1>4, <1>5, <1>6, <1>7 DEF IInv

-----------------------------------------------------------------------------
(* The actions: transactions and their writes.                             *)

LEMMA OpenInv ==
  ASSUME IInv, NEW c \in Conn, NEW t \in Table, Open(c, t)
  PROVE  IInv'
<1> USE DEF IInv, Open, Back
<1>1. TypeOK'
  BY CatalogConstants DEF TypeOK, txn, caches, bounds
<1>2. SoundCatalog'
  <2>1. t \notin dropping
    BY DEF Shared, Locked, SoundCatalog
  <2>2. \A e \in fks : e[1] \in Table /\ e[2] \in Table /\ (rows[t] = Gone => e[1] # t)
    BY KeysJoinTables DEF SoundCatalog
  <2>3. fks' = fks
    BY <2>2 DEF TypeOK
  <2>4. rows'[t] # Gone /\ \A k \in Table \ {t} : rows'[k] = rows[k]
    BY CatalogConstants DEF TypeOK
  <2>5. t \in frm
    BY DEF Shared
  <2> QED BY <2>1, <2>2, <2>3, <2>4, <2>5 DEF SoundCatalog, ReconciledExists, TypeOK
<1>3. SoundTx'
  BY TxUntouched DEF txn, caches
<1>4. SoundCounts'
  BY CatalogConstants DEF SoundCounts, GlobalCountHonest, StaleCount, TypeOK, txn, caches
<1>5. TxCountExact'
  BY TxCountUntouched DEF txn, caches
<1>6. SoundAuto'
  BY AutoUntouched DEF engine, catalog, txn, caches, TypeOK
<1> QED BY <1>1, <1>2, <1>3, <1>4, <1>5, <1>6

LEMMA BeginInv ==
  ASSUME IInv, NEW c \in Conn, Begin(c)
  PROVE  IInv'
<1> USE DEF IInv, Begin
<1>1. TypeOK'
  BY CatalogConstants DEF TypeOK, engine, catalog, bounds, Cleared
<1>2. SoundCatalog'
  BY CatalogUntouched DEF TypeOK, engine
<1>3. SoundTx'
  <2>1. Fits(rows, [t \in Table |-> 0])
    BY DEF Fits, TypeOK
  <2> QED BY <2>1 DEF SoundTx, TypeOK, Idle, Fits
<1>4. SoundCounts'
  BY DEF SoundCounts, SoundTx, GlobalCountHonest, StaleCount, TypeOK, engine, catalog
<1>5. TxCountExact'
  BY DEF TxCountExact, TypeOK, Cleared, Seen
<1>6. SoundAuto'
  BY AutoUntouched DEF engine, catalog, caches, TypeOK
<1> QED BY <1>1, <1>2, <1>3, <1>4, <1>5, <1>6

LEMMA WriteInv ==
  ASSUME IInv, NEW c \in Conn, NEW t \in Table, NEW d \in Delta, Write(c, t, d)
  PROVE  IInv'
<1> USE DEF IInv, Write
<1>1. PICK lost \in SUBSET Children(t) :
        /\ lost # {} => d < 0
        /\ \A k \in lost : snap[c][k] # Gone /\ Seen(c, k) > 0
        /\ own' = [own EXCEPT ![c] = [k \in Table |->
                     own[c][k] + IF k = t THEN d ELSE IF k \in lost THEN -1 ELSE 0]]
        /\ blurred' = [blurred EXCEPT ![c] = blurred[c] \cup lost]
  OBVIOUS
<1>2. lost \subseteq Table \ {t} /\ d \in {-1, 1}
  BY KeysJoinTables DEF Delta
<1>3. /\ own'[c][t] = own[c][t] + d
      /\ \A k \in lost : own'[c][k] = own[c][k] - 1
      /\ \A k \in Table \ (lost \cup {t}) : own'[c][k] = own[c][k]
      /\ \A e \in Conn \ {c} : own'[e] = own[e]
      /\ own' \in [Conn -> [Table -> Int]]
  BY <1>1, <1>2 DEF TypeOK
<1>4. TypeOK'
  <2>1. TxCount(c, t, d) \in Count \cup {None}
    BY TxCountType
  <2>2. Adjusted(local[t], d) \in Count \cup {None}
    BY AdjustedType DEF TypeOK
  <2> QED BY <1>1, <1>2, <1>3, <2>1, <2>2, CatalogConstants DEF TypeOK, engine, catalog
<1>5. SoundCatalog'
  BY CatalogUntouched DEF TypeOK, engine
<1>6. SoundTx'
  <2>1. Fits(snap'[c], own'[c])
    <3>1. c \in tx /\ Fits(snap[c], own[c]) /\ snap[c] \in [Table -> 0 .. MaxRows \cup {Gone}]
          /\ own[c] \in [Table -> Int] /\ snap' = snap
      BY DEF SoundTx, TypeOK
    <3> QED BY <1>1, <1>2, <1>3, <3>1, CatalogConstants DEF Fits, Seen
  <2> QED BY <1>1, <1>2, <1>3, <2>1 DEF SoundTx, TypeOK
<1>7. SoundCounts'
  BY <1>2, <1>3 DEF SoundCounts, GlobalCountHonest, StaleCount, TypeOK, engine, catalog
<1>8. TxCountExact'
  <2>1. counts'[c][t] # None => counts[c][t] # None /\ counts'[c][t] = counts[c][t] + d
    BY TxCountType DEF TypeOK
  <2>2. ASSUME NEW k \in Table \ blurred'[c], counts'[c][k] # None
        PROVE  snap'[c][k] # Gone /\ counts'[c][k] = Seen(c, k)'
    BY <1>1, <1>2, <1>3, <2>1, <2>2 DEF TxCountExact, Seen, TypeOK
  <2>3. ASSUME NEW e \in tx \ {c}, NEW k \in Table \ blurred'[e], counts'[e][k] # None
        PROVE  snap'[e][k] # Gone /\ counts'[e][k] = Seen(e, k)'
    BY <1>1, <1>3, <2>3 DEF TxCountExact, Seen, TypeOK
  <2> QED BY <2>2, <2>3 DEF TxCountExact
<1>9. SoundAuto'
  BY AutoUntouched DEF engine, catalog, txn, caches, TypeOK
<1> QED BY <1>4, <1>5, <1>6, <1>7, <1>8, <1>9

LEMMA FailedInsertInv ==
  ASSUME IInv, NEW c \in Conn, NEW t \in Table, NEW d \in Delta, FailedInsert(c, t, d)
  PROVE  IInv'
<1> USE DEF IInv, FailedInsert
<1>1. /\ d \in {-1, 1}
      /\ own'[c][t] = own[c][t] + d
      /\ \A k \in Table \ {t} : own'[c][k] = own[c][k]
      /\ \A e \in Conn \ {c} : own'[e] = own[e]
      /\ own' \in [Conn -> [Table -> Int]]
  BY DEF TypeOK, Delta
<1>2. TypeOK'
  BY <1>1, CatalogConstants DEF TypeOK, engine, catalog
<1>3. SoundCatalog'
  BY CatalogUntouched DEF TypeOK, engine
<1>4. SoundTx'
  <2>1. Fits(snap'[c], own'[c])
    <3>1. c \in tx /\ Fits(snap[c], own[c]) /\ snap[c] \in [Table -> 0 .. MaxRows \cup {Gone}]
          /\ own[c] \in [Table -> Int] /\ snap' = snap
      BY DEF SoundTx, TypeOK
    <3> QED BY <1>1, <3>1, CatalogConstants DEF Fits, Seen
  <2> QED BY <1>1, <2>1 DEF SoundTx, TypeOK
<1>5. SoundCounts'
  BY <1>1 DEF SoundCounts, GlobalCountHonest, StaleCount, TypeOK, engine, catalog
<1>6. TxCountExact'
  BY <1>1 DEF TxCountExact, Seen, TypeOK
<1>7. SoundAuto'
  BY AutoUntouched DEF engine, catalog, txn, caches, TypeOK
<1> QED BY <1>2, <1>3, <1>4, <1>5, <1>6, <1>7

LEMMA SavepointInv ==
  ASSUME IInv, NEW c \in Conn, Savepoint(c)
  PROVE  IInv'
<1> USE DEF IInv, Savepoint
<1>1. TypeOK'
  BY DEF TypeOK, engine, catalog, caches, bounds
<1>2. SoundCatalog'
  BY CatalogUntouched DEF TypeOK, engine
<1>3. SoundTx'
  BY DEF SoundTx, TypeOK, caches
<1>4. SoundCounts'
  BY DEF SoundCounts, GlobalCountHonest, StaleCount, TypeOK, engine, catalog, caches
<1>5. TxCountExact'
  BY TxCountUntouched DEF caches
<1>6. SoundAuto'
  BY AutoUntouched DEF engine, catalog, caches, TypeOK
<1> QED BY <1>1, <1>2, <1>3, <1>4, <1>5, <1>6

LEMMA RollbackToSavepointInv ==
  ASSUME IInv, NEW c \in Conn, RollbackToSavepoint(c)
  PROVE  IInv'
<1> USE DEF IInv, RollbackToSavepoint, Invalidated
<1>1. saved[c] \in [Table -> Int]
  BY DEF TypeOK
<1>2. TypeOK'
  BY <1>1 DEF TypeOK, engine, catalog, bounds
<1>3. SoundCatalog'
  BY CatalogUntouched DEF TypeOK, engine
<1>4. SoundTx'
  BY <1>1 DEF SoundTx, TypeOK
<1>5. SoundCounts'
  BY <1>1 DEF SoundCounts, GlobalCountHonest, StaleCount, TypeOK, engine, catalog
<1>6. TxCountExact'
  BY <1>1 DEF TxCountExact, Seen, TypeOK
<1>7. SoundAuto'
  BY AutoUntouched DEF engine, catalog, txn, caches, TypeOK
<1> QED BY <1>2, <1>3, <1>4, <1>5, <1>6, <1>7

LEMMA EndTxInv ==
  ASSUME IInv, NEW c \in Conn, EndTx(c)
  PROVE  IInv'
<1> USE DEF IInv, EndTx
<1>1. /\ rows' \in [Table -> 0 .. MaxRows \cup {Gone}]
      /\ \A t \in Table : rows'[t] = Gone <=> rows[t] = Gone
      /\ \A t \in Table : rows'[t] # rows[t] => rows'[t] = rows[t] + own[c][t]
  BY CatalogConstants DEF TypeOK
<1>2. due[c] = {} /\ c \in tx
  BY DEF Idle
<1>3. /\ \A d \in Conn \ {c} : /\ snap'[d] = snap[d] /\ own'[d] = own[d] /\ saved'[d] = saved[d]
                               /\ uses'[d] = uses[d] /\ due'[d] = due[d] /\ counts'[d] = counts[d]
                               /\ blurred'[d] = blurred[d]
      /\ own'[c] = [t \in Table |-> 0] /\ saved'[c] = None /\ due'[c] = dirty[c]
      /\ tx' = tx \ {c} /\ UNCHANGED <<dirty, records, frm, auto>>
  BY DEF TypeOK, catalog
<1>4. TypeOK'
  <2>1. counts' \in [Conn -> [Table -> Count \cup {None}]]
    <3>1. Cleared \in [Table -> Count \cup {None}] /\ counts \in [Conn -> [Table -> Count \cup {None}]]
      BY DEF TypeOK, Cleared
    <3>2. counts' \in {counts, [counts EXCEPT ![c] = Cleared]}
      OBVIOUS
    <3> QED BY <3>1, <3>2
  <2>3. uses' \in [Conn -> SUBSET Table] /\ due' \in [Conn -> SUBSET Table]
    BY DEF TypeOK
  <2>2. /\ snap' \in [Conn -> [Table -> 0 .. MaxRows \cup {Gone}]]
        /\ own' \in [Conn -> [Table -> Int]] /\ blurred' \in [Conn -> SUBSET Table]
        /\ saved' \in [Conn -> [Table -> Int] \cup {None}]
    BY DEF TypeOK, NoRows
  <2> QED BY <1>1, <1>3, <2>1, <2>2, <2>3 DEF TypeOK, catalog, bounds
<1>5. SoundCatalog'
  BY <1>1, CatalogUntouched
<1>6. SoundTx'
  BY <1>2, <1>3 DEF SoundTx
<1>7. SoundCounts'
  <2>1. ASSUME NEW t \in Table, StaleCount(t)'
        PROVE  \E d \in Conn : t \in due'[d]
    <3>1. records[t] = 0 /\ rows[t] \in 0 .. MaxRows
      BY <1>1, <1>3, <2>1 DEF StaleCount, SoundCounts, TypeOK
    <3>2. CASE \E d \in Conn : t \in due[d]
      BY <1>2, <1>3, <3>2
    <3>3. CASE ~\E d \in Conn : t \in due[d]
      <4>1. rows[t] = 0
        BY <3>1, <3>3, CatalogConstants DEF SoundCounts, GlobalCountHonest, StaleCount
      <4>2. rows'[t] \in 0 .. MaxRows /\ rows'[t] # 0 /\ rows'[t] = rows[t] + own[c][t]
        BY <1>1, <1>3, <2>1, <3>1, <4>1 DEF StaleCount
      <4>3. own[c][t] > 0
        BY <4>1, <4>2, CatalogConstants DEF TypeOK
      <4>4. t \in dirty[c]
        BY <3>1, <4>3, CatalogConstants DEF SoundCounts
      <4> QED BY <1>3, <4>4
    <3> QED BY <3>2, <3>3
  <2> QED BY <1>3, <2>1 DEF SoundCounts, GlobalCountHonest
<1>8. TxCountExact'
  BY <1>3 DEF TxCountExact, Seen, TypeOK
<1>9. SoundAuto'
  <2>1. dropping' = dropping
    BY DEF catalog
  <2> QED BY <1>1, <1>3, <2>1, AutoUntouched
<1> QED BY <1>4, <1>5, <1>6, <1>7, <1>8, <1>9

LEMMA InvalidateInv ==
  ASSUME IInv, NEW c \in Conn, Invalidate(c)
  PROVE  IInv'
<1> USE DEF IInv, Invalidate, Invalidated
<1>1. TypeOK'
  BY DEF TypeOK, engine, catalog, bounds, Cleared
<1>2. SoundCatalog'
  BY CatalogUntouched DEF TypeOK, engine
<1>3. c \notin tx
  BY DEF SoundTx
<1>4. SoundTx'
  BY <1>3 DEF SoundTx, TypeOK, Fits
<1>5. SoundCounts'
  BY <1>3 DEF SoundCounts, SoundTx, GlobalCountHonest, StaleCount, TypeOK, engine, catalog
<1>6. TxCountExact'
  BY <1>3 DEF TxCountExact, Seen, TypeOK
<1>7. SoundAuto'
  <2>1. \A t \in Table : records'[t] \in {records[t], None}
    BY DEF TypeOK
  <2> QED BY <2>1, AutoUntouched DEF engine, catalog
<1> QED BY <1>1, <1>2, <1>4, <1>5, <1>6, <1>7

LEMMA WriteDirectInv ==
  ASSUME IInv, NEW c \in Conn, NEW t \in Table, NEW d \in Delta, WriteDirect(c, t, d)
  PROVE  IInv'
<1> USE DEF IInv, WriteDirect
<1>1. TypeOK'
  BY CatalogConstants DEF TypeOK, engine, catalog, txn
<1>2. SoundCatalog'
  BY CatalogUntouched DEF TypeOK, engine
<1>3. SoundTx'
  BY TxUntouched DEF txn
<1>4. SoundCounts'
  BY DEF SoundCounts, GlobalCountHonest, StaleCount, TypeOK, engine, catalog, txn
<1>5. TxCountExact'
  BY TxCountUntouched DEF txn
<1>6. SoundAuto'
  <2>1. dropping # {} => t \notin Home
    BY DEF Usable, Shared, Locked
  <2>2. auto'[c] = <<t, d>> /\ \A e \in Conn \ {c} : auto'[e] = auto[e]
    BY DEF TypeOK
  <2>3. records'[t] = None /\ \A k \in Table \ {t} : records'[k] = records[k]
    BY DEF TypeOK
  <2>4. \A e \in Conn : auto[e] # None => auto[e][1] \in Table
    BY DEF TypeOK
  <2> QED BY <2>1, <2>2, <2>3, <2>4 DEF SoundAuto, engine, catalog
<1> QED BY <1>1, <1>2, <1>3, <1>4, <1>5, <1>6

LEMMA EndStatementInv ==
  ASSUME IInv, NEW c \in Conn, EndStatement(c)
  PROVE  IInv'
<1> USE DEF IInv, EndStatement
<1> DEFINE t == auto[c][1]
<1>1. auto[c] \in Table \X Delta /\ t \in Table /\ auto[c][2] \in {-1, 1}
  BY DEF TypeOK, Delta
<1>2. /\ rows' \in [Table -> 0 .. MaxRows \cup {Gone}]
      /\ \A k \in Table \ {t} : rows'[k] = rows[k]
      /\ rows[t] # Gone /\ rows'[t] # Gone
  BY <1>1, CatalogConstants DEF TypeOK, SoundAuto
<1>3. records[t] = None /\ UNCHANGED <<records, frm, own, saved, dirty, due>>
  BY <1>1 DEF SoundAuto, caches, catalog, txn
<1>4. TypeOK'
  BY <1>2 DEF TypeOK, catalog, txn, caches, bounds
<1>5. SoundCatalog'
  <2>1. UNCHANGED fks
    OBVIOUS
  <2> QED BY <1>1, <1>2, <2>1, CatalogUntouched
<1>6. SoundTx'
  BY TxUntouched DEF txn, caches
<1>7. SoundCounts'
  BY <1>1, <1>2, <1>3 DEF SoundCounts, GlobalCountHonest, StaleCount, TypeOK
<1>8. TxCountExact'
  BY TxCountUntouched DEF txn, caches
<1>9. SoundAuto'
  <2>1. dropping' = dropping /\ \A e \in Conn : auto'[e] \in {auto[e], None}
    BY DEF catalog, TypeOK
  <2> QED BY <1>1, <1>2, <1>3, <2>1, AutoUntouched
<1> QED BY <1>4, <1>5, <1>6, <1>7, <1>8, <1>9

LEMMA WriteSqlInv ==
  ASSUME IInv, NEW c \in Conn, NEW t \in Table, NEW d \in Delta, WriteSql(c, t, d)
  PROVE  IInv'
<1> USE DEF IInv, WriteSql
<1>1. PICK lost \in SUBSET Children(t) :
        /\ lost # {} => d < 0
        /\ \A k \in lost : rows[k] # Gone /\ rows[k] > 0
        /\ rows' = [k \in Table |-> IF k = t THEN rows[k] + d
                                    ELSE IF k \in lost THEN rows[k] - 1 ELSE rows[k]]
  OBVIOUS
<1>2. lost \subseteq Table \ {t} /\ d \in {-1, 1}
  BY KeysJoinTables DEF Delta
<1>3. /\ rows' \in [Table -> 0 .. MaxRows \cup {Gone}]
      /\ \A k \in Table : rows'[k] = Gone <=> rows[k] = Gone
      /\ \A k \in Table \ (lost \cup {t}) : rows'[k] = rows[k]
  BY <1>1, <1>2, CatalogConstants DEF TypeOK
<1>4. c \notin tx /\ due[c] = {} /\ due'[c] = {t} /\ \A e \in Conn \ {c} : due'[e] = due[e]
  BY DEF Usable, Shared, Idle, TypeOK
<1>5. TypeOK'
  BY <1>3, CatalogConstants DEF TypeOK, catalog, txn
<1>6. SoundCatalog'
  BY <1>3, CatalogUntouched
<1>7. SoundTx'
  BY <1>4 DEF SoundTx, Fits, txn
<1>8. SoundCounts'
  <2>1. ASSUME NEW k \in Table, StaleCount(k)'
        PROVE  \E e \in Conn : k \in due'[e]
    <3>1. CASE k = t
      BY <1>4, <3>1
    <3>2. CASE k \in lost
      <4>1. records[k] = 0 /\ rows[k] # Gone /\ rows[k] > 0
        BY <1>1, <1>2, <2>1, <3>2 DEF StaleCount, SoundCounts
      <4>2. StaleCount(k)
        BY <4>1, CatalogConstants DEF StaleCount
      <4> QED BY <1>4, <4>2 DEF SoundCounts, GlobalCountHonest
    <3>3. CASE k \notin lost \cup {t}
      <4>1. StaleCount(k)
        BY <1>3, <2>1, <3>3 DEF StaleCount
      <4> QED BY <1>4, <4>1 DEF SoundCounts, GlobalCountHonest
    <3> QED BY <3>1, <3>2, <3>3
  <2> QED BY <2>1 DEF SoundCounts, GlobalCountHonest, catalog, txn
<1>9. TxCountExact'
  BY TxCountUntouched DEF txn
<1>10. SoundAuto'
  BY <1>3, AutoUntouched DEF catalog
<1> QED BY <1>5, <1>6, <1>7, <1>8, <1>9, <1>10

LEMMA CachedRecordsInv ==
  ASSUME IInv, NEW c \in Conn, NEW t \in Table, CachedRecords(c, t)
  PROVE  IInv'
<1> USE DEF IInv, CachedRecords, Published
<1> DEFINE kept == IF c \in tx THEN counts[c][t] ELSE records[t]
           live == IF c \in tx THEN Seen(c, t) ELSE rows[t]
           n    == IF kept # None THEN kept ELSE live
<1>1. /\ local' = [local EXCEPT ![t] = n] /\ records' = records
      /\ counts' = IF c \in tx THEN [counts EXCEPT ![c][t] = n] ELSE counts
  OBVIOUS
<1>2. n \in Count
  <2>1. CASE c \in tx
    BY <2>1, SeenCounts DEF TypeOK
  <2>2. CASE c \notin tx
    BY <2>2, CatalogConstants DEF TypeOK, Count
  <2> QED BY <2>1, <2>2
<1>3. TypeOK'
  <2>1. uses' \in [Conn -> SUBSET Table]
    BY DEF TypeOK
  <2>2. counts' \in [Conn -> [Table -> Count \cup {None}]] /\ local' \in [Table -> Count \cup {None}]
    BY <1>1, <1>2 DEF TypeOK
  <2> HIDE DEF n
  <2> QED BY <1>1, <2>1, <2>2 DEF TypeOK, engine, catalog, bounds
<1>4. SoundCatalog'
  BY CatalogUntouched DEF TypeOK, engine
<1>5. SoundTx'
  <2>1. \A e \in Conn : uses[e] \subseteq uses'[e]
    BY DEF TypeOK
  <2> QED BY <2>1 DEF SoundTx, Fits
<1>6. SoundCounts'
  BY CountsUntouched DEF engine, catalog
<1>7. TxCountExact'
  <2>1. CASE c \in tx
    <3>1. n # None /\ (t \notin blurred[c] => n = Seen(c, t))
      BY <1>2, <2>1, CatalogConstants DEF TxCountExact, Count
    <3>2. counts'[c][t] = n /\ snap[c][t] # Gone
      BY <1>1, <2>1 DEF TypeOK
    <3>3. \A e \in Conn, k \in Table : e # c \/ k # t => counts'[e][k] = counts[e][k]
      BY <1>1, <2>1 DEF TypeOK
    <3> HIDE DEF n
    <3> QED BY <2>1, <3>1, <3>2, <3>3 DEF TxCountExact, Seen, TypeOK
  <2>2. CASE c \notin tx
    BY <2>2, TxCountUntouched
  <2> QED BY <2>1, <2>2
<1>8. SoundAuto'
  BY AutoUntouched DEF engine, catalog
<1> QED BY <1>3, <1>4, <1>5, <1>6, <1>7, <1>8

-----------------------------------------------------------------------------
(* The actions: DDL.                                                       *)

(* A table DDL has to itself: nobody's changes, commit or statement is in  *)
(* it, and no DROP DATABASE is under way.                                  *)
LEMMA ExclusiveHolds ==
  ASSUME TypeOK, SoundTx, SoundCounts, NEW c \in Conn, NEW ts \in SUBSET Table, Exclusive(c, ts)
  PROVE  /\ dropping = {}
         /\ \A d \in Conn : auto[d] # None => auto[d][1] \in Table \ ts
         /\ \A t \in ts, d \in Conn :
              /\ t \notin due[d]
              /\ ~(own[d][t] > 0 \/ (saved[d] # None /\ saved[d][t] > 0))
         /\ \A t \in ts : ~StaleCount(t)
<1>1. \A d \in Conn : auto[d] # None => auto[d][1] \in Table
  BY DEF TypeOK
<1>2. \A d \in Conn : auto[d] # None => auto[d][1] \notin ts
  BY DEF Exclusive
<1>3. \A t \in ts, d \in Conn : t \notin due[d] /\ t \notin uses[d]
  BY DEF Exclusive
<1>4. \A t \in ts, d \in Conn : ~(own[d][t] > 0 \/ (saved[d] # None /\ saved[d][t] > 0))
  BY <1>3 DEF SoundTx
<1>5. \A t \in ts : ~StaleCount(t)
  BY <1>3 DEF SoundCounts, GlobalCountHonest
<1> QED BY <1>1, <1>2, <1>3, <1>4, <1>5 DEF Exclusive

LEMMA CreateTableInv ==
  ASSUME IInv, NEW c \in Conn, NEW t \in Table, CreateTable(c, t)
  PROVE  IInv'
<1> USE DEF IInv, CreateTable, Back
<1> DEFINE keys == {e \in declared : e[1] = t}
<1>1. /\ dropping = {} /\ dropping' = {}
      /\ rows'[t] = 0 /\ \A k \in Table \ {t} : rows'[k] = rows[k]
      /\ fks' = fks \cup keys
  BY DEF TypeOK, Exclusive
<1>2. TypeOK'
  BY <1>1, CatalogConstants DEF TypeOK, txn, caches
<1>3. SoundCatalog'
  <2>1. \A e \in declared : e[1] \in Table /\ e[2] \in Table
    BY KeysJoinTables
  <2>2. \A e \in keys : rows[e[2]] # Gone
    OBVIOUS
  <2>3. rows'[t] # Gone
    BY <1>1, CatalogConstants
  <2>4. \A e \in fks' : e \in declared /\ (e \in fks \/ e \in keys)
    BY DEF TypeOK
  <2>5. \A e \in fks' : rows'[e[1]] # Gone
    BY <1>1, <2>1, <2>3, <2>4 DEF SoundCatalog
  <2>6. \A e \in fks' : rows'[e[2]] = Gone => e[2] \in forced' \cup taken'
    BY <1>1, <2>1, <2>2, <2>3, <2>4 DEF SoundCatalog
  <2>7. \A k \in reconciled' : rows'[k] = Gone => k \in dropping' \cup taken'
    BY <1>1, <2>3 DEF SoundCatalog, ReconciledExists, TypeOK
  <2>8. \A k \in forced' : k \notin frm' /\ \E e \in declared' : e[2] = k
    BY DEF SoundCatalog
  <2>9. \A k \in Table : rows'[k] # Gone => k \in frm'
    BY <1>1 DEF SoundCatalog
  <2> QED BY <1>1, <2>5, <2>6, <2>7, <2>8, <2>9 DEF SoundCatalog, ReconciledExists
<1>4. SoundTx'
  BY TxUntouched DEF txn, caches
<1>5. SoundCounts'
  BY <1>1 DEF SoundCounts, GlobalCountHonest, StaleCount, txn, caches
<1>6. TxCountExact'
  BY TxCountUntouched DEF txn, caches
<1>7. SoundAuto'
  <2>1. \A k \in Table : rows[k] # Gone => rows'[k] # Gone
    BY <1>1
  <2> QED BY <1>1, <2>1, AutoUntouched DEF caches
<1> QED BY <1>2, <1>3, <1>4, <1>5, <1>6, <1>7

LEMMA RenameTableInv ==
  ASSUME IInv, NEW c \in Conn, NEW from \in Table, NEW to \in Table, RenameTable(c, from, to)
  PROVE  IInv'
<1> USE DEF IInv, RenameTable
<1>1. /\ from # to /\ dropping = {} /\ dropping' = {}
      /\ rows'[to] = rows[from] /\ rows'[from] = Gone
      /\ \A k \in Table \ {from, to} : rows'[k] = rows[k] /\ records'[k] = records[k]
      /\ records'[from] = None
      /\ records'[to] = IF records[from] # None THEN records[from] ELSE records[to]
  BY DEF TypeOK, Exclusive
<1>2. TypeOK'
  <2>1. rows' \in [Table -> 0 .. MaxRows \cup {Gone}]
    BY DEF TypeOK
  <2>2. /\ records' \in [Table -> Count \cup {None}]
        /\ local' \in [Table -> Count \cup {None}]
    BY DEF TypeOK
  <2>3. frm' \subseteq Table /\ reconciled' \subseteq Table
    BY DEF TypeOK
  <2>4. ddls' \in 0 .. MaxDdl
    BY CatalogConstants DEF TypeOK
  <2> QED BY <1>1, <2>1, <2>2, <2>3, <2>4 DEF TypeOK, txn
<1>3. SoundCatalog'
  <2>1. \A e \in declared : e[1] \in Table \ {from, to} /\ e[2] \in Table \ {from, to}
    BY KeysJoinTables
  <2>2. fks \subseteq declared
    BY DEF TypeOK
  <2>3. \A k \in reconciled' : rows'[k] = Gone => k \in dropping' \cup taken'
    BY <1>1 DEF SoundCatalog, ReconciledExists, TypeOK
  <2>4. \A k \in Table : rows'[k] # Gone => k \in frm'
    BY <1>1 DEF SoundCatalog
  <2>5. \A e \in fks' : /\ rows'[e[1]] # Gone
                        /\ rows'[e[2]] = Gone => e[2] \in forced' \cup taken'
    <3>1. UNCHANGED <<fks, forced, taken>>
      OBVIOUS
    <3>2. \A e \in fks : rows'[e[1]] = rows[e[1]] /\ rows'[e[2]] = rows[e[2]]
      BY <1>1, <2>1, <2>2
    <3> HIDE DEF RenameTable
    <3> QED BY <1>1, <3>1, <3>2 DEF SoundCatalog
  <2>6. \A k \in forced' : k \notin frm' /\ \E e \in declared' : e[2] = k
    <3>1. forced' = forced /\ declared' = declared
      OBVIOUS
    <3>2. \A k \in forced : k \notin frm /\ \E e \in declared : e[2] = k
      BY DEF SoundCatalog
    <3>3. frm' = (frm \ {from}) \cup {to}
      OBVIOUS
    <3> QED BY <2>1, <3>1, <3>2, <3>3
  <2> QED BY <1>1, <2>3, <2>4, <2>5, <2>6 DEF SoundCatalog, ReconciledExists
<1>4. SoundTx'
  BY TxUntouched DEF txn
<1>5. SoundCounts'
  <2>1. /\ \A d \in Conn : to \notin due[d]
        /\ \A d \in Conn : ~(own[d][to] > 0 \/ (saved[d] # None /\ saved[d][to] > 0))
        /\ ~StaleCount(from) /\ ~StaleCount(to)
    BY ExclusiveHolds
  <2>2. records[to] = None
    BY DEF SoundCounts
  <2>3. \A k \in Table : StaleCount(k)' => StaleCount(k)
    BY <1>1, <2>1, <2>2 DEF StaleCount
  <2> QED BY <1>1, <2>1, <2>2, <2>3 DEF SoundCounts, GlobalCountHonest, txn
<1>6. TxCountExact'
  BY TxCountUntouched DEF txn
<1>7. SoundAuto'
  <2>1. \A d \in Conn : auto[d] # None => auto[d][1] \in Table \ {from, to}
    BY ExclusiveHolds
  <2>2. auto' = auto /\ dropping' = dropping
    OBVIOUS
  <2> HIDE DEF RenameTable
  <2> QED BY <1>1, <2>1, <2>2 DEF SoundAuto
<1> QED BY <1>2, <1>3, <1>4, <1>5, <1>6, <1>7

LEMMA TruncateInv ==
  ASSUME IInv, NEW c \in Conn, NEW t \in Table, Truncate(c, t)
  PROVE  IInv'
<1> USE DEF IInv, Truncate
<1>1. /\ rows'[t] = 0 /\ records'[t] = 0 /\ t \in frm
      /\ \A k \in Table \ {t} : rows'[k] = rows[k] /\ records'[k] = records[k]
      /\ rows' \in [Table -> 0 .. MaxRows \cup {Gone}]
      /\ \A k \in Table : rows'[k] = Gone <=> rows[k] = Gone
  BY CatalogConstants DEF TypeOK
<1>2. TypeOK'
  BY <1>1, CatalogConstants DEF TypeOK, catalog, txn, Count
<1>3. SoundCatalog'
  BY <1>1, CatalogUntouched
<1>4. SoundTx'
  BY TxUntouched DEF txn
<1>5. SoundCounts'
  <2>1. /\ \A d \in Conn : t \notin due[d]
        /\ \A d \in Conn : ~(own[d][t] > 0 \/ (saved[d] # None /\ saved[d][t] > 0))
    BY ExclusiveHolds
  <2>2. \A k \in Table : StaleCount(k)' => StaleCount(k)
    BY <1>1 DEF StaleCount
  <2> QED BY <1>1, <2>1, <2>2 DEF SoundCounts, GlobalCountHonest, txn, catalog
<1>6. TxCountExact'
  BY TxCountUntouched DEF txn
<1>7. SoundAuto'
  <2>1. \A d \in Conn : auto[d] # None => auto[d][1] \in Table \ {t}
    BY ExclusiveHolds
  <2> QED BY <1>1, <2>1 DEF SoundAuto, catalog
<1> QED BY <1>2, <1>3, <1>4, <1>5, <1>6, <1>7

LEMMA DropTableInv ==
  ASSUME IInv, NEW c \in Conn, NEW t \in Table, NEW check \in BOOLEAN, DropTable(c, t, check)
  PROVE  IInv'
<1> USE DEF IInv, DropTable, Dropped, Unreconcile, Without
<1>1. ChildrenGone(t, {}) = {}
  BY DEF ChildrenGone
<1>2. /\ dropping = {} /\ dropping' = {}
      /\ rows' = [k \in Table |-> IF k = t THEN Gone ELSE rows[k]]
      /\ fks' = {e \in fks : e[1] # t}
      /\ forced' = IF Children(t) = {} THEN forced ELSE forced \cup {t}
      /\ frm' = frm \ {t} /\ reconciled' = reconciled \ {t}
      /\ UNCHANGED <<declared, taken, auto>>
      /\ records' = [records EXCEPT ![t] = None]
  BY <1>1 DEF Exclusive
<1>3. TypeOK'
  BY <1>2, CatalogConstants DEF TypeOK, txn
<1>4. SoundCatalog'
  <2> HIDE DEF DropTable
  <2>1. \A e \in fks : e \in declared /\ e[1] \in Table /\ e[2] \in Table
    BY KeysJoinTables DEF TypeOK
  <2>2. \A e \in fks' : rows'[e[1]] # Gone
    BY <1>2, <2>1 DEF SoundCatalog
  <2>3. \A e \in fks' : rows'[e[2]] = Gone => e[2] \in forced' \cup taken'
    BY <1>2, <2>1 DEF SoundCatalog, Children
  <2>4. \A k \in forced' : k \notin frm' /\ \E e \in declared' : e[2] = k
    BY <1>2, <2>1 DEF SoundCatalog, Children
  <2>5. \A k \in Table : rows'[k] # Gone => k \in frm'
    BY <1>2 DEF SoundCatalog
  <2>6. \A k \in reconciled' : rows'[k] = Gone => k \in taken'
    BY <1>2 DEF SoundCatalog, ReconciledExists, TypeOK
  <2> QED BY <1>2, <2>2, <2>3, <2>4, <2>5, <2>6 DEF SoundCatalog, ReconciledExists
<1>5. SoundTx'
  BY TxUntouched DEF txn
<1>6. SoundCounts'
  BY <1>2, CatalogConstants DEF SoundCounts, GlobalCountHonest, StaleCount, TypeOK, txn
<1>7. TxCountExact'
  BY TxCountUntouched DEF txn
<1>8. SoundAuto'
  <2>1. \A d \in Conn : auto[d] # None => auto[d][1] \in Table \ {t}
    BY ExclusiveHolds
  <2> HIDE DEF DropTable
  <2>2. \A k \in Table \ {t} : rows'[k] = rows[k] /\ records'[k] = records[k]
    BY <1>2 DEF TypeOK
  <2> QED BY <1>2, <2>1, <2>2 DEF SoundAuto
<1> QED BY <1>3, <1>4, <1>5, <1>6, <1>7, <1>8

LEMMA DropDatabaseInv ==
  ASSUME IInv, NEW c \in Conn, DropDatabase(c)
  PROVE  IInv'
<1> USE DEF IInv, DropDatabase
<1>1. frm \cap Home \in SUBSET Table
  BY DEF TypeOK
<1>2. dropping = {} /\ \A d \in Conn : auto[d] # None => auto[d][1] \in Table \ (frm \cap Home)
  BY <1>1, ExclusiveHolds
<1>3. TypeOK'
  BY <1>1, CatalogConstants DEF TypeOK, engine, txn, caches
<1>4. SoundCatalog'
  BY <1>2 DEF SoundCatalog, ReconciledExists, engine
<1>5. SoundTx'
  BY TxUntouched DEF txn, caches
<1>6. SoundCounts'
  BY CountsUntouched DEF engine, txn, caches
<1>7. TxCountExact'
  BY TxCountUntouched DEF txn, caches
<1>8. SoundAuto'
  BY <1>2 DEF SoundAuto, SoundCatalog, engine, caches
<1> QED BY <1>3, <1>4, <1>5, <1>6, <1>7, <1>8

(* The children DROP TABLE drops along with a table of the database are in *)
(* it, and those the loop has passed are taken from another's child.       *)
LEMMA GoneAlong ==
  ASSUME TypeOK, SoundCatalog, NEW t \in dropping,
         NEW gone \in SUBSET ChildrenGone(t, frm \cap Home),
         dropping' = dropping \ {t}, Take(gone, frm \cap Home)
  PROVE  /\ gone \subseteq (frm \cap Home) \ {t}
         /\ taken \subseteq taken' /\ taken' \subseteq Table
         /\ \A e \in fks : e[2] \in gone => e[2] \in taken' \/ (e[2] \in dropping' /\ e[1] \in Home)
         /\ gone \subseteq dropping' \cup taken'
<1>1. \A k \in gone : k \in Table /\ k # t /\ k \in frm \cap Home
  BY KeysJoinTables DEF ChildrenGone
<1>2. \A k \in gone : Children(k) \ (frm \cap Home) # {} => k \in taken'
  BY DEF Take
<1>3. \A e \in fks : e[1] \in Table /\ e[1] \in frm /\ e[1] \in Children(e[2])
  BY KeysJoinTables DEF SoundCatalog, Children
<1>4. \A k \in gone : k \notin dropping => k \in taken'
  BY <1>1, <1>2, <1>3 DEF SoundCatalog
<1>5. ASSUME NEW e \in fks, e[2] \in gone
      PROVE  e[2] \in taken' \/ (e[2] \in dropping' /\ e[1] \in Home)
  <2>1. CASE e[1] \in Home
    BY <1>1, <1>4, <1>5, <2>1
  <2>2. CASE e[1] \notin Home
    BY <1>2, <1>3, <1>5, <2>2
  <2> QED BY <2>1, <2>2
<1>6. gone \subseteq dropping' \cup taken'
  BY <1>1, <1>4
<1>7. taken \subseteq taken' /\ taken' \subseteq Table
  BY <1>1 DEF Take, TypeOK
<1> QED BY <1>1, <1>5, <1>6, <1>7

LEMMA DropNextInv ==
  ASSUME IInv, NEW t \in Table, DropNext(t)
  PROVE  IInv'
<1> DEFINE along == frm \cap Home
<1>1. PICK gone \in SUBSET ChildrenGone(t, along) :
        /\ Take(gone, along)
        /\ \/ /\ Children(t) \ along = {} /\ gone = ChildrenGone(t, along)
              /\ rows' = Without({t} \cup gone)
              /\ fks' = {e \in fks : e[1] \notin {t} \cup gone}
              /\ reconciled' = reconciled \ {t} /\ frm' = frm \ {t}
              /\ records' = [records EXCEPT ![t] = None]
              /\ local' = [local EXCEPT ![t] = None]
           \/ /\ Children(t) \ along # {}
              /\ rows' = Without(gone)
              /\ fks' = {e \in fks : e[1] \notin gone}
              /\ UNCHANGED <<frm, reconciled, records, local>>
  BY DEF DropNext, Dropped, Unreconcile, Refusing
<1>2. /\ t \in dropping /\ dropping' = dropping \ {t}
      /\ UNCHANGED <<declared, forced, txn, counts, dirty, due, auto, bounds>>
  BY DEF DropNext
<1>3. /\ t \in frm \cap Home /\ gone \subseteq along \ {t}
      /\ taken \subseteq taken' /\ taken' \subseteq Table
      /\ \A e \in fks : e[2] \in gone => e[2] \in taken' \/ (e[2] \in dropping' /\ e[1] \in Home)
      /\ gone \subseteq dropping' \cup taken'
  BY <1>1, <1>2, GoneAlong DEF IInv, TypeOK, SoundCatalog
<1>4. /\ \A k \in Table \ Home : rows'[k] = rows[k]
      /\ \A k \in Table : rows'[k] \in {rows[k], Gone} /\ records'[k] \in {records[k], None}
      /\ fks' \subseteq fks /\ frm' \subseteq frm /\ reconciled' \subseteq reconciled
  BY <1>1, <1>3 DEF IInv, TypeOK, Without
<1>5. TypeOK'
  BY <1>1, <1>2, <1>3, <1>4 DEF IInv, TypeOK, txn, bounds, Without
<1>6. SoundCatalog'
  <2>1. \A e \in fks : /\ e[1] \in Table /\ e[2] \in Table /\ rows[e[1]] # Gone /\ e[1] \in frm
                       /\ e[1] \in Children(e[2])
    BY KeysJoinTables DEF IInv, SoundCatalog, Children
  <2>2. Children(t) \ along # {} => \E e \in fks : e[2] = t /\ e[1] \notin Home
    BY <2>1 DEF Children
  <2>3. Children(t) \ along # {} /\ rows[t] = Gone => t \in taken
    BY <1>2, <1>3, <2>1, <2>2 DEF IInv, SoundCatalog
  <2>4. /\ rows'[t] = Gone => t \notin frm' \/ t \in taken'
        /\ \A k \in Table : rows'[k] = Gone =>
             rows[k] = Gone \/ k \in gone \/ (k = t /\ Children(t) \ along = {})
    BY <1>1, <1>3, <2>3 DEF Without
  <2>5. \A e \in fks' : rows'[e[1]] # Gone
    BY <1>1, <2>1 DEF Without
  <2>6. ASSUME NEW e \in fks', rows'[e[2]] = Gone
        PROVE  e[2] \in forced' \cup taken' \/ (e[2] \in dropping' /\ e[1] \in Home)
    <3>1. CASE e[2] \in gone
      BY <1>3, <1>4, <3>1
    <3>2. CASE e[2] = t /\ Children(t) \ along = {}
      <4>1. e[1] \in ChildrenGone(t, along)
        BY <1>4, <2>1, <3>2 DEF ChildrenGone
      <4>2. e[1] \in gone /\ e \in fks' /\ fks' = {f \in fks : f[1] \notin {t} \cup gone}
        BY <1>1, <3>2, <4>1
      <4> QED BY <4>2
    <3>3. CASE rows[e[2]] = Gone /\ e[2] # t
      BY <1>2, <1>3, <1>4, <3>3 DEF IInv, SoundCatalog
    <3>4. CASE rows[e[2]] = Gone /\ e[2] = t /\ Children(t) \ along # {}
      BY <1>3, <2>3, <3>4
    <3> QED BY <1>4, <2>1, <2>4, <2>6, <3>1, <3>2, <3>3, <3>4
  <2>7. ASSUME NEW k \in (frm' \cap Home) \ dropping'
        PROVE  \E e \in fks' : e[2] = k /\ e[1] \notin Home
    <3>1. \E e \in fks : e[2] = k /\ e[1] \notin Home
      BY <1>1, <1>2, <1>4, <2>2, <2>7 DEF IInv, SoundCatalog
    <3>2. \A e \in fks : e[1] \notin Home => e \in fks'
      BY <1>1, <1>3
    <3> QED BY <3>1, <3>2
  <2>8. \A k \in reconciled' : rows'[k] = Gone => k \in dropping' \cup taken'
    BY <1>1, <1>2, <1>3, <1>4, <2>3, <2>4 DEF IInv, SoundCatalog, ReconciledExists, TypeOK
  <2>9. \A k \in Table : rows'[k] # Gone => k \in frm'
    BY <1>1, <1>4 DEF IInv, SoundCatalog, Without
  <2>10. \A k \in forced' : k \notin frm' /\ \E e \in declared' : e[2] = k
    BY <1>2, <1>4 DEF IInv, SoundCatalog
  <2>11. dropping' \subseteq Home
    BY <1>2 DEF IInv, SoundCatalog
  <2> QED BY <2>5, <2>6, <2>7, <2>8, <2>9, <2>10, <2>11 DEF SoundCatalog, ReconciledExists
<1>7. SoundTx'
  BY <1>2, TxUntouched DEF IInv, txn
<1>8. SoundCounts'
  <2>1. \A k \in Table : records'[k] # None => records'[k] = records[k] /\ k \in frm'
    BY <1>1, <1>4 DEF IInv, TypeOK, SoundCounts
  <2>2. \A k \in Table : StaleCount(k)' => StaleCount(k)
    BY <1>4 DEF StaleCount
  <2> QED BY <1>2, <1>4, <2>1, <2>2 DEF IInv, SoundCounts, GlobalCountHonest, txn
<1>9. TxCountExact'
  BY <1>2, TxCountUntouched DEF IInv, txn
<1>10. SoundAuto'
  <2>1. \A d \in Conn : auto[d] # None => auto[d][1] \in Table
    BY DEF IInv, TypeOK
  <2> QED BY <1>2, <1>4, <2>1 DEF IInv, SoundAuto
<1> QED BY <1>5, <1>6, <1>7, <1>8, <1>9, <1>10 DEF IInv

-----------------------------------------------------------------------------
(* The theorems.                                                           *)

LEMMA StepInv == IInv /\ [Next]_vars => IInv'
<1> SUFFICES ASSUME IInv, [Next]_vars PROVE IInv'
  OBVIOUS
<1>1. CASE UNCHANGED vars
  <2>1. /\ TypeOK' = TypeOK /\ SoundCatalog' = SoundCatalog /\ SoundTx' = SoundTx
        /\ SoundCounts' = SoundCounts /\ SoundAuto' = SoundAuto
    BY <1>1 DEF TypeOK, SoundCatalog, ReconciledExists, SoundTx, Fits, SoundCounts,
                GlobalCountHonest, StaleCount, SoundAuto,
                vars, engine, catalog, txn, caches, bounds
  <2>2. TxCountExact'
    BY <1>1, TxCountUntouched DEF IInv, vars, txn, caches
  <2> QED BY <2>1, <2>2 DEF IInv
<1>2. ASSUME NEW c \in Conn,
             \/ Begin(c) \/ Savepoint(c) \/ RollbackToSavepoint(c) \/ EndTx(c)
             \/ Invalidate(c) \/ EndStatement(c) \/ DropDatabase(c)
      PROVE  IInv'
  BY <1>2, BeginInv, SavepointInv, RollbackToSavepointInv, EndTxInv, InvalidateInv,
     EndStatementInv, DropDatabaseInv
<1>3. ASSUME NEW c \in Conn, NEW t \in Table,
             Open(c, t) \/ CachedRecords(c, t) \/ CreateTable(c, t) \/ Truncate(c, t)
      PROVE  IInv'
  BY <1>3, OpenInv, CachedRecordsInv, CreateTableInv, TruncateInv
<1>4. ASSUME NEW c \in Conn, NEW t \in Table, NEW check \in BOOLEAN, DropTable(c, t, check)
      PROVE  IInv'
  BY <1>4, DropTableInv
<1>5. ASSUME NEW c \in Conn, NEW t \in Table, NEW to \in Table, RenameTable(c, t, to)
      PROVE  IInv'
  BY <1>5, RenameTableInv
<1>6. ASSUME NEW c \in Conn, NEW t \in Table, NEW d \in Delta,
             Write(c, t, d) \/ WriteDirect(c, t, d) \/ WriteSql(c, t, d) \/ FailedInsert(c, t, d)
      PROVE  IInv'
  BY <1>6, WriteInv, WriteDirectInv, WriteSqlInv, FailedInsertInv
<1>7. ASSUME NEW t \in Table, DropNext(t)
      PROVE  IInv'
  BY <1>7, DropNextInv
<1> QED BY <1>1, <1>2, <1>3, <1>4, <1>5, <1>6, <1>7 DEF Next

(* The inductive invariant holds of every reachable state of Catalog: of   *)
(* its transactions, counts, DDL and FOREIGN KEYs together.                *)
THEOREM CatalogInvariance == Spec => []IInv
<1>1. Init => IInv
  BY InitInv
<1>2. IInv /\ [Next]_vars => IInv'
  BY StepInv
<1> QED BY <1>1, <1>2, PTL DEF Spec

(* Every variable keeps its type: no count leaves 0 .. UINT64_MAX, no      *)
(* committed table a number of rows it cannot have.                        *)
THEOREM TypeCorrect == Spec => []TypeOK
<1>1. IInv => TypeOK
  BY DEF IInv
<1> QED BY <1>1, CatalogInvariance, PTL

(* record_count never publishes, and never keeps past the invalidation of  *)
(* the commit that changed it, a count that is not the committed one.      *)
THEOREM GlobalCountIsHonest == Spec => []GlobalCountHonest
<1>1. IInv => GlobalCountHonest
  BY DEF IInv, SoundCounts
<1> QED BY <1>1, CatalogInvariance, PTL

(* ThdContext::record_counts_ holds what the transaction would count, its  *)
(* own writes included.                                                    *)
THEOREM TxCountIsExact == Spec => []TxCountExact
<1>1. IInv => TxCountExact
  BY DEF IInv
<1> QED BY <1>1, CatalogInvariance, PTL

(* No DDL leaves a table in Engine::reconciled_ that stoolap no longer     *)
(* has: open() would pass it by.                                           *)
THEOREM ReconciledTablesExist == Spec => []ReconciledExists
<1>1. IInv => ReconciledExists
  BY DEF IInv, SoundCatalog
<1> QED BY <1>1, CatalogInvariance, PTL

(* drop_table's order and refusals leave no child with a key to a parent   *)
(* that is gone, where foreign_key_checks was on.                          *)
THEOREM NoOrphanLeft == Spec => []NoOrphans
<1>1. IInv => NoOrphans
  BY DEF IInv, SoundCatalog, NoOrphans
<1> QED BY <1>1, CatalogInvariance, PTL
=============================================================================
