-------------------------- MODULE SessionStoreProofs -------------------------
(***************************************************************************)
(* Sessions as a transactional store, for every set of connections,        *)
(* tables, rows and values.  First what the reads of a session return: its *)
(* own pending writes, its transaction's snapshot, one committed state per *)
(* statement.  Then that the sessions implement the abstract store         *)
(* TxnStore: every step of the handler, of ThdContext and of the Rust      *)
(* Session is one step of the store, or none.                              *)
(***************************************************************************)
EXTENDS SessionProofs

-----------------------------------------------------------------------------
(* What reads return: the observers of Session are tied to the transaction *)
(* the session reads through.                                              *)

(* The transaction a handle would be taken of: the session has no other.   *)
Live(s) == TxIn(s, HandleSlot(s))

(* In mid-statement: a read handle under RC has a view; the view shows the *)
(* session's own writes, except in tables it no longer reads by it; and    *)
(* what the statement first read is what it still reads, until a chunk's   *)
(* transaction takes the place of its own.                                 *)
StatementReads(s, seen, reopened) ==
  /\ \A t \in Table : s.tables[t] # "none" /\ Live(s).level = "RC" => s.view # None
  /\ s.view # None =>
       \A r \in Row : s.writeTables[TableOf[r]] = "none" /\ OwnWrite(s, r) # None =>
         s.view[r] = OwnWrite(s, r)
  /\ ~reopened =>
       /\ s.view # None => seen = s.view
       /\ seen # None =>
            /\ Live(s) # None
            /\ Live(s).level = "RC" => s.view = seen
            /\ Live(s).level = "SI" =>
                 \A r \in Row : Live(s).writes[r] = None => Live(s).snap[r] = seen[r]

(* The observers of c: `base` is the snapshot of an explicit transaction   *)
(* ThdContext holds.                                                       *)
Promised(c) ==
  base[c] # None =>
    /\ explicit[c] /\ hasTx[c]
    /\ sess[c].exec.level = "SI" /\ sess[c].exec.snap = base[c]

ReadsSound(c) ==
  /\ Promised(c)
  /\ pc[c] = "idle" => cut[c] = None
  /\ pc[c] = "stmt" => StatementReads(sess[c], cut[c], bulkOwns[c])
  /\ anomaly[c] \cap {"own", "snapshot", "view"} = {}

(* The inductive invariant, beside IInv of SessionProofs.                  *)
ReadInv == \A c \in Conn : ReadsSound(c)

-----------------------------------------------------------------------------
(* The session's one transaction.                                          *)

LEMMA LiveIsTheOne ==
  ASSUME NEW s, GoodSession(s)
  PROVE  /\ Live(s) \in Transaction \cup {None}
         /\ s.open => Live(s) = s.exec /\ Live(s) \in Transaction
         /\ ~s.open => Live(s) = s.stmtTx /\ s.exec = None
         /\ \A t \in Table : s.tables[t] # "none" =>
              TxIn(s, s.tables[t]) = Live(s) /\ Live(s) \in Transaction
         /\ \A t \in Table : s.writeTables[t] # "none" =>
              TxIn(s, s.writeTables[t]) = Live(s) /\ Live(s) \in Transaction
         /\ \A r \in Row : OwnWrite(s, r) = IF Live(s) = None THEN None
                                                              ELSE Live(s).writes[r]
<1>1. s.exec \in Transaction \cup {None} /\ s.stmtTx \in Transaction \cup {None}
  BY DEF GoodSession, SessionState
<1>2. /\ s.open => Live(s) = s.exec /\ Live(s) \in Transaction /\ s.stmtTx = None
      /\ ~s.open => Live(s) = s.stmtTx /\ s.exec = None
  BY <1>1 DEF GoodSession, Live, TxIn, HandleSlot
<1>3. ASSUME NEW slot \in Slot, slot # "none", TxIn(s, slot) # None
      PROVE  TxIn(s, slot) = Live(s) /\ Live(s) \in Transaction
  BY <1>1, <1>3 DEF GoodSession, Live, TxIn, HandleSlot, Slot
<1>4. \A t \in Table : s.tables[t] \in Slot /\ s.writeTables[t] \in Slot
  BY DEF GoodSession, SessionState
<1>5. \A t \in Table : /\ s.tables[t] # "none" => TxIn(s, s.tables[t]) # None
                       /\ s.writeTables[t] # "none" => TxIn(s, s.writeTables[t]) # None
  BY DEF GoodSession
<1>6. ASSUME NEW r \in Row
      PROVE  OwnWrite(s, r) = IF Live(s) = None THEN None ELSE Live(s).writes[r]
  <2>1. CASE s.open
    <3>1. s.exec # None /\ s.stmtTx = None /\ Live(s) = s.exec
      BY <1>2, <2>1 DEF GoodSession
    <3> QED BY <3>1 DEF OwnWrite, Wrote
  <2>2. CASE ~s.open
    <3>1. s.exec = None /\ Live(s) = s.stmtTx
      BY <1>2, <2>2
    <3> QED BY <3>1 DEF OwnWrite, Wrote
  <2> QED BY <2>1, <2>2
<1> QED BY <1>1, <1>2, <1>3, <1>4, <1>5, <1>6

(* What a transaction sees of a row: its own write, else the snapshot.     *)
LEMMA SeesRow ==
  ASSUME NEW tx \in Transaction, NEW db \in State, NEW r \in Row
  PROVE  /\ tx.writes[r] # None => Sees(tx, db)[r] = tx.writes[r]
         /\ tx.writes[r] = None /\ tx.level = "SI" => Sees(tx, db)[r] = tx.snap[r]
         /\ tx.level \in Level
BY DEF Sees, Transaction

LEMMA NewTransactionFields ==
  ASSUME NEW level \in Level, NEW db \in State
  PROVE  /\ NewTransaction(level, db).level = level
         /\ level = "SI" => NewTransaction(level, db).snap = db
         /\ \A r \in Row : NewTransaction(level, db).writes[r] = None
BY DEF NewTransaction, NoWrites

LEMMA PutFields ==
  ASSUME NEW tx \in Transaction, NEW r \in Row, NEW v \in Val
  PROVE  /\ Put(tx, r, v).level = tx.level /\ Put(tx, r, v).snap = tx.snap
         /\ Put(tx, r, v).writes[r] = v
         /\ \A q \in Row \ {r} : Put(tx, r, v).writes[q] = tx.writes[q]
<1>1. Put(tx, r, v) = [tx EXCEPT !.writes = [tx.writes EXCEPT ![r] = v]]
  BY DEF Put
<1>2. tx.writes \in [Row -> Val \cup {None}]
  BY DEF Transaction, Writes
<1> QED BY <1>1, <1>2 DEF Transaction

(* A statement that has taken no handle has seen nothing.                  *)
LEMMA RestReadsNothing ==
  ASSUME NEW s, AtRest(s), NEW reopened
  PROVE  StatementReads(s, None, reopened)
BY DEF AtRest, StatementReads, NoHandles

-----------------------------------------------------------------------------
(* The handles.                                                            *)

LEMMA HandleTxLive ==
  ASSUME NEW s, GoodSession(s), NEW db \in State
  PROVE  /\ GoodSession(HandleTx(s, db)) /\ Live(HandleTx(s, db)) \in Transaction
         /\ HandleTx(s, db).open = s.open /\ HandleTx(s, db).exec = s.exec
         /\ HandleTx(s, db).view = s.view
         /\ HandleTx(s, db).tables = s.tables /\ HandleTx(s, db).writeTables = s.writeTables
         /\ Live(s) # None => Live(HandleTx(s, db)) = Live(s)
         /\ Live(s) = None => \A r \in Row : Live(HandleTx(s, db)).writes[r] = None
<1>1. /\ GoodSession(HandleTx(s, db)) /\ HandleTx(s, db).open = s.open
      /\ HandleTx(s, db).tables = s.tables /\ HandleTx(s, db).writeTables = s.writeTables
      /\ Live(HandleTx(s, db)) \in Transaction
  BY HandleTxGood DEF Live
<1>2. HandleTx(s, db).exec = s.exec /\ HandleTx(s, db).view = s.view
  BY DEF HandleTx, GoodSession, SessionState
<1>3. Live(s) # None => Live(HandleTx(s, db)) = Live(s)
  BY LiveIsTheOne DEF HandleTx
<1>4. ASSUME Live(s) = None PROVE \A r \in Row : Live(HandleTx(s, db)).writes[r] = None
  <2>1. ~s.open /\ s.stmtTx = None
    BY <1>4, LiveIsTheOne, TransactionIsSome
  <2>2. Live(HandleTx(s, db)) = NewTransaction(DefaultLevel, db)
    BY <2>1 DEF HandleTx, GoodSession, SessionState, Live, HandleSlot, TxIn
  <2> QED BY <2>2, SessionConstants, NewTransactionFields
<1> QED BY <1>1, <1>2, <1>3, <1>4

(* Taking a write handle changes nothing of what the statement reads.      *)
LEMMA WriteHandleReads ==
  ASSUME NEW s, GoodSession(s), NEW t \in Table, NEW db \in State
  PROVE  /\ WriteHandle(s, t, db).exec = s.exec
         /\ WriteHandle(s, t, db).writeTables[t] # "none"
         /\ \A seen, reopened : StatementReads(s, seen, reopened) =>
              StatementReads(WriteHandle(s, t, db), seen, reopened)
<1> DEFINE w == [s EXCEPT !.stmtWrote = s.stmtWrote \/ ~s.open]
           h == HandleTx(w, db)
           n == WriteHandle(s, t, db)
<1>1. GoodSession(w) /\ Live(w) = Live(s) /\ \A r \in Row : OwnWrite(w, r) = OwnWrite(s, r)
  BY DEF GoodSession, SessionState, TxIn, Live, HandleSlot, OwnWrite
<1>2. /\ w.exec = s.exec /\ w.view = s.view
      /\ w.tables = s.tables /\ w.writeTables = s.writeTables
  BY DEF GoodSession, SessionState
<1>3. GoodSession(n) /\ n.writeTables[t] \in {"exec", "stmtTx"}
  BY WriteHandleGood
<1>4. /\ n.exec = w.exec /\ n.view = w.view /\ n.tables = w.tables
      /\ \A k \in Table \ {t} : n.writeTables[k] = w.writeTables[k]
      /\ Live(w) # None => Live(n) = Live(w)
      /\ Live(w) = None => n = w \/ (Live(n) \in Transaction /\ \A r \in Row : Live(n).writes[r] = None)
  <2>1. CASE s.writeTables[t] # "none"
    <3>1. n = w
      BY <2>1 DEF WriteHandle
    <3> QED BY <3>1
  <2>2. CASE s.writeTables[t] = "none"
    <3>1. n = [h EXCEPT !.writeTables = [h.writeTables EXCEPT ![t] = HandleSlot(h)]]
      BY <2>2 DEF WriteHandle
    <3> HIDE DEF w
    <3>2. /\ GoodSession(h) /\ h.exec = w.exec /\ h.view = w.view /\ h.tables = w.tables
          /\ h.writeTables = w.writeTables /\ Live(h) \in Transaction
          /\ Live(w) # None => Live(h) = Live(w)
          /\ Live(w) = None => \A r \in Row : Live(h).writes[r] = None
      BY <1>1, HandleTxLive
    <3> HIDE DEF h, n
    <3>3. Live(n) = Live(h)
      BY <3>1, <3>2 DEF GoodSession, SessionState, Live, TxIn, HandleSlot
    <3> QED BY <3>1, <3>2, <3>3 DEF GoodSession, SessionState
  <2> QED BY <2>1, <2>2
<1>5. ASSUME NEW seen, NEW reopened, StatementReads(s, seen, reopened)
      PROVE  StatementReads(n, seen, reopened)
  <2> HIDE DEF n, w
  <2>1. \A r \in Row : /\ OwnWrite(s, r) = IF Live(s) = None THEN None ELSE Live(s).writes[r]
                       /\ OwnWrite(n, r) = IF Live(n) = None THEN None ELSE Live(n).writes[r]
    BY <1>3, LiveIsTheOne
  <2>2. \A r \in Row : OwnWrite(n, r) = OwnWrite(s, r)
    BY <1>1, <1>2, <1>4, <2>1, TransactionIsSome
  <2>3. \A k \in Table : n.tables[k] # "none" => Live(s) # None
    BY <1>2, <1>4, LiveIsTheOne, TransactionIsSome
  <2>4. \A k \in Table : n.writeTables[k] = "none" => s.writeTables[k] = "none"
    BY <1>2, <1>3, <1>4
  <2>5. \A k \in Table : n.tables[k] # "none" /\ Live(n).level = "RC" => n.view # None
    BY <1>1, <1>2, <1>4, <1>5, <2>3 DEF StatementReads
  <2>6. n.view # None =>
          \A r \in Row : n.writeTables[TableOf[r]] = "none" /\ OwnWrite(n, r) # None =>
            n.view[r] = OwnWrite(n, r)
    BY <1>2, <1>4, <1>5, <2>2, <2>4, SessionConstants DEF StatementReads
  <2>7. ASSUME ~reopened
        PROVE  /\ n.view # None => seen = n.view
               /\ seen # None =>
                    /\ Live(n) # None
                    /\ Live(n).level = "RC" => n.view = seen
                    /\ Live(n).level = "SI" =>
                         \A r \in Row : Live(n).writes[r] = None => Live(n).snap[r] = seen[r]
    BY <1>1, <1>2, <1>4, <1>5, <2>7 DEF StatementReads
  <2> QED BY <2>5, <2>6, <2>7 DEF StatementReads
<1> QED BY <1>2, <1>3, <1>4, <1>5

(* A write into a table whose write handle is taken: the view is no longer *)
(* how the row is read.                                                    *)
LEMMA PutReads ==
  ASSUME NEW s, GoodSession(s), NEW slot \in {"exec", "stmtTx"},
         TxIn(s, slot) = Live(s), Live(s) \in Transaction,
         NEW r \in Row, NEW v \in Val, s.writeTables[TableOf[r]] # "none"
  PROVE  \A seen, reopened : StatementReads(s, seen, reopened) =>
           StatementReads(PutIn(s, slot, r, v), seen, reopened)
<1> DEFINE n == PutIn(s, slot, r, v)
<1>1. /\ n.view = s.view /\ n.tables = s.tables /\ n.writeTables = s.writeTables
      /\ n.open = s.open
  BY DEF PutIn, GoodSession, SessionState
<1>2. Live(n) = Put(Live(s), r, v)
  <2>1. CASE slot = "exec"
    <3>1. s.open /\ Live(s) = s.exec
      BY <2>1, LiveIsTheOne, TransactionIsSome DEF TxIn
    <3>2. n = [s EXCEPT !.exec = Put(s.exec, r, v)]
      BY <2>1 DEF PutIn
    <3> QED BY <3>1, <3>2 DEF GoodSession, SessionState, Live, TxIn, HandleSlot
  <2>2. CASE slot = "stmtTx"
    <3>1. ~s.open /\ Live(s) = s.stmtTx
      BY <2>2, LiveIsTheOne, TransactionIsSome DEF TxIn, GoodSession
    <3>2. n = [s EXCEPT !.stmtTx = Put(s.stmtTx, r, v)]
      BY <2>2 DEF PutIn
    <3> QED BY <3>1, <3>2 DEF GoodSession, SessionState, Live, TxIn, HandleSlot
  <2> QED BY <2>1, <2>2
<1>3. GoodSession(n)
  BY PutInGood
<1>4. Put(Live(s), r, v) \in Transaction /\ Put(Live(s), r, v) # None
  BY PutType, TransactionIsSome
<1> HIDE DEF n
<1>5. /\ Live(n).level = Live(s).level /\ Live(n).snap = Live(s).snap
      /\ Live(n).writes[r] # None
      /\ \A q \in Row \ {r} : Live(n).writes[q] = Live(s).writes[q]
  BY <1>2, PutFields, NoneIsNoValue
<1>6. \A q \in Row \ {r} : OwnWrite(n, q) = OwnWrite(s, q)
  <2>1. \A q \in Row : /\ OwnWrite(s, q) = IF Live(s) = None THEN None ELSE Live(s).writes[q]
                       /\ OwnWrite(n, q) = IF Live(n) = None THEN None ELSE Live(n).writes[q]
    BY <1>3, LiveIsTheOne
  <2> QED BY <1>2, <1>4, <1>5, <2>1, TransactionIsSome
<1>7. ASSUME NEW seen, NEW reopened, StatementReads(s, seen, reopened)
      PROVE  StatementReads(n, seen, reopened)
  <2>1. \A k \in Table : n.tables[k] # "none" /\ Live(n).level = "RC" => n.view # None
    BY <1>1, <1>5, <1>7 DEF StatementReads
  <2>2. n.view # None =>
          \A q \in Row : n.writeTables[TableOf[q]] = "none" /\ OwnWrite(n, q) # None =>
            n.view[q] = OwnWrite(n, q)
    BY <1>1, <1>6, <1>7 DEF StatementReads
  <2>3. ASSUME ~reopened
        PROVE  /\ n.view # None => seen = n.view
               /\ seen # None =>
                    /\ Live(n) # None
                    /\ Live(n).level = "RC" => n.view = seen
                    /\ Live(n).level = "SI" =>
                         \A q \in Row : Live(n).writes[q] = None => Live(n).snap[q] = seen[q]
    BY <1>1, <1>2, <1>4, <1>5, <1>7, <2>3 DEF StatementReads
  <2> QED BY <2>1, <2>2, <2>3 DEF StatementReads
<1> QED BY <1>7 DEF n

(* A read handle: the transaction it is of, and the view it reads by.      *)
LEMMA ReadHandleLeaves ==
  ASSUME NEW s, GoodSession(s), NEW t \in Table, NEW db \in State
  PROVE  LET n == ReadHandle(s, t, db)
         IN  /\ GoodSession(n) /\ n.open = s.open /\ n.exec = s.exec
             /\ n.writeTables = s.writeTables /\ n.tables[t] # "none"
             /\ Live(n) \in Transaction
             /\ Live(s) # None => Live(n) = Live(s)
             /\ Live(s) = None => \A r \in Row : Live(n).writes[r] = None
             /\ \A k \in Table \ {t} : n.tables[k] = s.tables[k]
             /\ s.tables[t] # "none" => n = s
             /\ s.tables[t] = "none" =>
                  n.view = IF Live(n).level = "RC" /\ s.view = None THEN Sees(Live(n), db)
                                                                   ELSE s.view
<1> DEFINE h == HandleTx(s, db)
           tx == TxIn(h, HandleSlot(h))
           v == IF tx.level = "RC" /\ h.view = None THEN Sees(tx, db)
                                                     ELSE h.view
           taken == [h EXCEPT !.view = v,
                              !.tables = [h.tables EXCEPT ![t] = HandleSlot(h)]]
           n == ReadHandle(s, t, db)
<1> SUFFICES /\ GoodSession(n) /\ n.open = s.open /\ n.exec = s.exec
             /\ n.writeTables = s.writeTables /\ n.tables[t] # "none"
             /\ Live(n) \in Transaction
             /\ Live(s) # None => Live(n) = Live(s)
             /\ Live(s) = None => \A r \in Row : Live(n).writes[r] = None
             /\ \A k \in Table \ {t} : n.tables[k] = s.tables[k]
             /\ s.tables[t] # "none" => n = s
             /\ s.tables[t] = "none" =>
                  n.view = IF Live(n).level = "RC" /\ s.view = None THEN Sees(Live(n), db)
                                                                   ELSE s.view
  OBVIOUS
<1>1. GoodSession(n) /\ n.open = s.open
  BY ReadHandleGood
<1>2. CASE s.tables[t] # "none"
  <2>1. n = s
    BY <1>2 DEF ReadHandle
  <2> QED BY <1>1, <1>2, <2>1, LiveIsTheOne, TransactionIsSome
<1>3. CASE s.tables[t] = "none"
  <2>1. /\ GoodSession(h) /\ h.open = s.open /\ h.exec = s.exec /\ h.view = s.view
        /\ h.tables = s.tables /\ h.writeTables = s.writeTables /\ Live(h) \in Transaction
        /\ Live(s) # None => Live(h) = Live(s)
        /\ Live(s) = None => \A r \in Row : Live(h).writes[r] = None
    BY HandleTxLive
  <2>2. n = taken
    <3> HIDE DEF h
    <3>1. h \in SessionState
      BY <2>1 DEF GoodSession
    <3> QED BY <1>3, <3>1 DEF ReadHandle, SessionState, h
  <2>3. tx = Live(h)
    BY DEF Live
  <2> HIDE DEF h, n
  <2>4. /\ n.exec = h.exec /\ n.writeTables = h.writeTables /\ n.view = v
        /\ n.tables[t] # "none" /\ \A k \in Table \ {t} : n.tables[k] = h.tables[k]
        /\ Live(n) = Live(h)
    BY <2>1, <2>2 DEF GoodSession, SessionState, HandleSlot, TxIn, Live
  <2> QED BY <1>1, <1>3, <2>1, <2>3, <2>4
<1> QED BY <1>2, <1>3

(* A direct read of row r: the statement's promises hold after it, and the *)
(* value read keeps them.                                                  *)
LEMMA DirectReadKeeps ==
  ASSUME NEW s, GoodSession(s), NEW r \in Row, NEW db \in State,
         NEW seen, NEW reopened, StatementReads(s, seen, reopened)
  PROVE  LET t == TableOf[r]
             n == TableForRead(s, t, db)
             through == n.writeTables[t] = "none"
             now == Sees(TxIn(n, HandleSlot(n)), db)
             v == DirectValue(n, t, r, db)
         IN  /\ n.exec = s.exec
             /\ StatementReads(n, IF seen = None /\ through THEN now ELSE seen, reopened)
             /\ OwnWrite(n, r) # None => v = OwnWrite(n, r)
             /\ OwnWrite(n, r) = None /\ s.open /\ s.exec.level = "SI" => v = s.exec.snap[r]
             /\ through /\ OwnWrite(n, r) = None /\ seen # None /\ ~reopened => v = seen[r]
<1> DEFINE t == TableOf[r]
           n == TableForRead(s, t, db)
           through == n.writeTables[t] = "none"
           now == Sees(TxIn(n, HandleSlot(n)), db)
           v == DirectValue(n, t, r, db)
<1> SUFFICES /\ n.exec = s.exec
             /\ StatementReads(n, IF seen = None /\ through THEN now ELSE seen, reopened)
             /\ OwnWrite(n, r) # None => v = OwnWrite(n, r)
             /\ OwnWrite(n, r) = None /\ s.open /\ s.exec.level = "SI" => v = s.exec.snap[r]
             /\ through /\ OwnWrite(n, r) = None /\ seen # None /\ ~reopened => v = seen[r]
  OBVIOUS
<1>1. t \in Table
  BY SessionConstants
<1>2. now = Sees(Live(n), db)
  BY DEF Live
<1>3. CASE s.writeTables[t] # "none"
  <2>1. n = s /\ ~through
    BY <1>3 DEF TableForRead
  <2>2. TxIn(s, s.writeTables[t]) = Live(s) /\ Live(s) \in Transaction
    BY <1>1, <1>3, LiveIsTheOne
  <2>3. v = Sees(Live(s), db)[r]
    BY <1>3, <2>1, <2>2 DEF DirectValue
  <2>4. OwnWrite(s, r) = Live(s).writes[r] /\ (s.open => Live(s) = s.exec)
    BY <2>2, LiveIsTheOne, TransactionIsSome
  <2> HIDE DEF v, n
  <2> QED BY <2>1, <2>2, <2>3, <2>4, SeesRow
<1>4. CASE s.writeTables[t] = "none"
  <2>1. n = ReadHandle(s, t, db)
    BY <1>4 DEF TableForRead
  <2>2. /\ GoodSession(n) /\ n.open = s.open /\ n.exec = s.exec
        /\ n.writeTables = s.writeTables /\ n.tables[t] # "none"
        /\ Live(n) \in Transaction
        /\ Live(s) # None => Live(n) = Live(s)
        /\ Live(s) = None => \A q \in Row : Live(n).writes[q] = None
        /\ \A k \in Table \ {t} : n.tables[k] = s.tables[k]
        /\ s.tables[t] # "none" => n = s
        /\ s.tables[t] = "none" =>
             n.view = IF Live(n).level = "RC" /\ s.view = None THEN Sees(Live(n), db)
                                                              ELSE s.view
    BY <1>1, <2>1, ReadHandleLeaves
  <2>3. through /\ Live(n) # None /\ Live(n).level \in {"RC", "SI"}
    BY <1>4, <2>2, TransactionIsSome DEF Transaction, Level
  <2>4. TxIn(n, n.tables[t]) = Live(n)
    BY <1>1, <2>2, LiveIsTheOne
  <2>5. v = IF Live(n).level = "RC" THEN n.view[r] ELSE Sees(Live(n), db)[r]
    BY <2>3, <2>4 DEF DirectValue
  <2>6. \A q \in Row : OwnWrite(n, q) = Live(n).writes[q]
    BY <2>2, <2>3, LiveIsTheOne
  <2>7. \A q \in Row : OwnWrite(s, q) = OwnWrite(n, q)
    <3>1. \A q \in Row : OwnWrite(s, q) = IF Live(s) = None THEN None ELSE Live(s).writes[q]
      BY LiveIsTheOne
    <3> HIDE DEF n
    <3> QED BY <2>2, <2>3, <2>6, <3>1
  <2>8. Live(n).level = "RC" => n.view # None
    <3>1. CASE s.tables[t] # "none"
      BY <1>1, <2>2, <3>1 DEF StatementReads
    <3>2. CASE s.tables[t] = "none"
      <4>1. Sees(Live(n), db) # None
        BY <2>2, SeesType, NoneIsNoValue
      <4> QED BY <2>2, <3>2, <4>1
    <3> QED BY <3>1, <3>2
  <2>9. \/ n.view = s.view
        \/ Live(n).level = "RC" /\ s.view = None /\ n.view = Sees(Live(n), db)
    BY <2>2
  <2>10. seen = None /\ ~reopened => s.view = None
    BY DEF StatementReads
  <2>11. seen # None /\ ~reopened => Live(s) # None
    BY DEF StatementReads
  <2> HIDE DEF v, n
  <2> DEFINE first == IF seen = None THEN now ELSE seen
  <2>12. StatementReads(n, first, reopened)
    <3>1. \A k \in Table : n.tables[k] # "none" /\ Live(n).level = "RC" => n.view # None
      BY <2>8
    <3>2. ASSUME n.view # None, NEW q \in Row, n.writeTables[TableOf[q]] = "none",
                 OwnWrite(n, q) # None
          PROVE  n.view[q] = OwnWrite(n, q)
      <4>1. CASE n.view = s.view
        BY <2>2, <2>7, <3>2, <4>1 DEF StatementReads
      <4>2. CASE n.view = Sees(Live(n), db)
        BY <2>2, <2>6, <3>2, <4>2, SeesRow
      <4> QED BY <2>9, <4>1, <4>2
    <3>3. ASSUME ~reopened, n.view # None
          PROVE  first = n.view
      <4>1. CASE seen = None
        BY <1>2, <2>9, <2>10, <3>3, <4>1
      <4>2. CASE seen # None
        <5>1. Live(s) = Live(n) /\ (Live(s).level = "RC" => s.view = seen)
          BY <2>2, <2>11, <3>3, <4>2 DEF StatementReads
        <5> QED BY <2>9, <3>3, <4>2, <5>1 DEF StatementReads
      <4> QED BY <4>1, <4>2
    <3>4. ASSUME ~reopened, first # None, Live(n).level = "SI",
                 NEW q \in Row, Live(n).writes[q] = None
          PROVE  Live(n).snap[q] = first[q]
      <4>1. CASE seen = None
        BY <1>2, <2>2, <3>4, <4>1, SeesRow
      <4>2. CASE seen # None
        BY <2>2, <2>11, <3>4, <4>2 DEF StatementReads
      <4> QED BY <4>1, <4>2
    <3> HIDE DEF first
    <3> QED BY <2>3, <2>8, <3>1, <3>2, <3>3, <3>4 DEF StatementReads
  <2>13. ASSUME OwnWrite(n, r) # None PROVE v = OwnWrite(n, r)
    <3>1. CASE Live(n).level = "RC"
      BY <1>1, <2>3, <2>5, <2>8, <2>12, <2>13, <3>1 DEF StatementReads
    <3>2. CASE Live(n).level = "SI"
      BY <2>2, <2>5, <2>6, <2>13, <3>2, SeesRow
    <3> QED BY <2>3, <3>1, <3>2
  <2>14. ASSUME OwnWrite(n, r) = None, s.open, s.exec.level = "SI"
         PROVE  v = s.exec.snap[r]
    <3>1. Live(n) = s.exec
      BY <2>2, <2>14, LiveIsTheOne
    <3> QED BY <2>2, <2>5, <2>6, <2>14, <3>1, SeesRow
  <2>15. ASSUME OwnWrite(n, r) = None, seen # None, ~reopened
         PROVE  v = seen[r]
    <3>1. CASE Live(n).level = "RC"
      BY <2>5, <2>8, <2>12, <2>15, <3>1 DEF StatementReads
    <3>2. CASE Live(n).level = "SI"
      <4>1. v = Live(n).snap[r] /\ Live(n).writes[r] = None
        BY <2>2, <2>5, <2>6, <2>15, <3>2, SeesRow
      <4> QED BY <2>12, <2>15, <3>2, <4>1 DEF StatementReads
    <3> QED BY <2>3, <3>1, <3>2
  <2>16. (IF seen = None /\ through THEN now ELSE seen) = first
    BY <2>3
  <2> HIDE DEF first, through, now
  <2> QED BY <2>2, <2>12, <2>13, <2>14, <2>15, <2>16
<1> QED BY <1>3, <1>4

-----------------------------------------------------------------------------
(* Transactions that begin and end.                                        *)

LEMMA RestReadsAny ==
  ASSUME NEW s, AtRest(s), NEW seen
  PROVE  StatementReads(s, seen, TRUE)
BY DEF AtRest, StatementReads, NoHandles

(* end_statement leaves the open transaction alone, and the rows too when  *)
(* the statement had no transaction of its own.                            *)
LEMMA EndStatementKeeps ==
  ASSUME NEW s, GoodSession(s), NEW commit \in BOOLEAN, NEW db \in State,
         NEW o \in EndStatement(s, commit, db)
  PROVE  o.s.exec = s.exec /\ (s.stmtTx = None => o.db = db)
<1> DEFINE cleared == [s EXCEPT !.tables = NoHandles, !.writeTables = NoHandles,
                                !.view = None]
           ended == [cleared EXCEPT !.stmtTx = None, !.stmtWrote = FALSE]
<1>1. cleared.exec = s.exec /\ ended.exec = s.exec
  BY DEF GoodSession, SessionState
<1>2. \/ o = Ok(cleared, db) \/ o = Ok(ended, db) \/ o = Err(ended, db)
      \/ o = Ok(ended, Install(s.stmtTx.writes, db)) /\ s.stmtTx # None
  BY DEF EndStatement, CommitOutcomes
<1> HIDE DEF cleared, ended
<1> QED BY <1>1, <1>2, ResultFields

LEMMA BeginSessionKeeps ==
  ASSUME NEW s, GoodSession(s), NEW level \in Level, NEW db \in State,
         NEW o \in BeginSession(s, level, db), o.res = "Ok"
  PROVE  /\ o.s.exec = NewTransaction(level, o.db)
         /\ s.stmtTx = None => o.db = db
<1>1. ~s.open
  BY BeginSessionGood
<1>2. PICK e \in EndStatement(s, TRUE, db) :
        o = IF e.res = "Ok"
              THEN Ok([e.s EXCEPT !.exec = NewTransaction(level, e.db),
                                       !.open = TRUE], e.db)
              ELSE e
  BY <1>1 DEF BeginSession
<1>3. e \in EndStatement(s, TRUE, db)
  BY <1>2
<1>4. GoodSession(e.s) /\ (s.stmtTx = None => e.db = db)
  BY <1>3, EndStatementGood, EndStatementKeeps, Zenon
<1> DEFINE begun == [e.s EXCEPT !.exec = NewTransaction(level, e.db), !.open = TRUE]
<1>5. begun.exec = NewTransaction(level, e.db)
  BY <1>4 DEF GoodSession, SessionState
<1>6. e.res = "Ok"
  BY <1>2
<1> HIDE DEF begun
<1>7. o = Ok(begun, e.db)
  BY <1>2, <1>6 DEF begun
<1> QED BY <1>4, <1>5, <1>7, ResultFields

-----------------------------------------------------------------------------
(* The actions.                                                            *)

(* A step of one connection, its observers included.                       *)
OthersRead(c) ==
  \A d \in Conn \ {c} :
    /\ sess'[d] = sess[d] /\ hasTx'[d] = hasTx[d] /\ pc'[d] = pc[d]
    /\ explicit'[d] = explicit[d] /\ bulkOwns'[d] = bulkOwns[d]
    /\ base'[d] = base[d] /\ cut'[d] = cut[d] /\ anomaly'[d] = anomaly[d]

LEMMA OneReader ==
  ASSUME ReadInv, NEW c \in Conn, OthersRead(c), ReadsSound(c)'
  PROVE  ReadInv'
<1>1. ASSUME NEW d \in Conn \ {c} PROVE ReadsSound(d)'
  BY <1>1 DEF ReadInv, OthersRead, ReadsSound, Promised
<1> QED BY <1>1 DEF ReadInv

(* A snapshot transaction is ThdContext's.                                 *)
LEMMA PromisedIsOpen ==
  ASSUME IInv, ReadInv, NEW c \in Conn, base[c] # None
  PROVE  /\ sess[c].open /\ sess[c].stmtTx = None /\ hasTx[c] /\ explicit[c]
         /\ pc[c] # "bulk"
         /\ pc[c] = "stmt" => ~bulkOwns[c]
BY DEF IInv, InStep, GoodSession, ReadInv, ReadsSound, Promised

LEMMA BeginTrxReads ==
  ASSUME IInv, ReadInv, NEW c \in Conn, BeginTrx(c)
  PROVE  ReadInv'
<1>1. OthersRead(c)
  BY DEF BeginTrx, OthersRead, IInv, Typed, observers
<1>2. ReadsSound(c)'
  BY DEF BeginTrx, ReadInv, ReadsSound, Promised, IInv, Typed, observers
<1> QED BY <1>1, <1>2, OneReader

LEMMA StartConsistentSnapshotReads ==
  ASSUME IInv, ReadInv, NEW c \in Conn, StartConsistentSnapshot(c)
  PROVE  ReadInv'
<1>1. PICK o \in BeginSession(sess[c], "SI", store) :
        /\ o.res = "Ok" /\ sess' = [sess EXCEPT ![c] = o.s] /\ store' = o.db
        /\ hasTx' = [hasTx EXCEPT ![c] = TRUE]
  BY DEF StartConsistentSnapshot, ContextBegin
<1>2. GoodSession(sess[c]) /\ store \in State /\ sess[c].stmtTx = None /\ "SI" \in Level
  BY AtStatement DEF StartConsistentSnapshot, InStep, AtRest, Level
<1>3. o.s.exec = NewTransaction("SI", store)
  BY <1>1, <1>2, BeginSessionKeeps
<1>4. o.s.exec.level = "SI" /\ o.s.exec.snap = store
  BY <1>2, <1>3, NewTransactionFields
<1>5. base' = [base EXCEPT ![c] = store] /\ explicit' = [explicit EXCEPT ![c] = TRUE]
      /\ pc[c] = "idle" /\ UNCHANGED <<bulkOwns, pc, cut, landed, anomaly>>
  BY DEF StartConsistentSnapshot, Promise
<1>6. OthersRead(c)
  BY <1>1, <1>5 DEF OthersRead, IInv, Typed
<1>7. ReadsSound(c)'
  BY <1>1, <1>4, <1>5 DEF ReadInv, ReadsSound, Promised, IInv, Typed
<1> QED BY <1>6, <1>7, OneReader

LEMMA StartStatementReads ==
  ASSUME IInv, ReadInv, NEW c \in Conn, StartStatement(c)
  PROVE  ReadInv'
<1>1. /\ pc[c] = "idle" /\ pc' = [pc EXCEPT ![c] = "stmt"]
      /\ bulkOwns' = [bulkOwns EXCEPT ![c] = FALSE]
      /\ UNCHANGED <<explicit, cut, landed, anomaly>>
  BY DEF StartStatement
<1>2. /\ GoodSession(sess[c]) /\ store \in State /\ AtRest(sess[c]) /\ cut[c] = None
      /\ sess[c].stmtTx = None
  BY <1>1, AtStatement DEF InStep, AtRest, ReadInv, ReadsSound
<1>3. CASE explicit[c] /\ ~hasTx[c]
  <2>1. PICK l \in Level : ContextBegin(c, l) /\ Promise(c, l, store)
    BY <1>3 DEF StartStatement
  <2>2. PICK o \in BeginSession(sess[c], l, store) :
          /\ o.res = "Ok" /\ sess' = [sess EXCEPT ![c] = o.s] /\ store' = o.db
          /\ hasTx' = [hasTx EXCEPT ![c] = TRUE]
    BY <2>1 DEF ContextBegin
  <2>3. o.s.exec = NewTransaction(l, store)
    BY <1>2, <2>2, BeginSessionKeeps
  <2>4. o.s.exec.level = l /\ (l = "SI" => o.s.exec.snap = store)
    BY <1>2, <2>3, NewTransactionFields
  <2>5. AtRest(o.s)
    BY <1>2, <2>2, BeginSessionGood
  <2>6. StatementReads(o.s, None, FALSE)
    BY <2>5, RestReadsNothing
  <2>7. base' = [base EXCEPT ![c] = IF l = "SI" THEN store ELSE None]
    BY <2>1 DEF Promise
  <2>8. OthersRead(c)
    BY <1>1, <2>2, <2>7 DEF OthersRead, IInv, Typed
  <2>9. ReadsSound(c)'
    BY <1>1, <1>2, <1>3, <2>2, <2>4, <2>6, <2>7 DEF ReadInv, ReadsSound, Promised, IInv, Typed
  <2> QED BY <2>8, <2>9, OneReader
<1>4. CASE ~(explicit[c] /\ ~hasTx[c])
  <2>1. UNCHANGED <<store, sess, hasTx, base>>
    BY <1>4 DEF StartStatement
  <2>2. StatementReads(sess[c], None, FALSE)
    BY <1>2, RestReadsNothing
  <2>3. OthersRead(c)
    BY <1>1, <2>1 DEF OthersRead, IInv, Typed
  <2>4. ReadsSound(c)'
    BY <1>1, <1>2, <2>1, <2>2 DEF ReadInv, ReadsSound, Promised, IInv, Typed
  <2> QED BY <2>3, <2>4, OneReader
<1> QED BY <1>3, <1>4

(* The callbacks: a promise is kept as it is, or its transaction ends.     *)
PromiseKept(c, all) ==
  \E s, h, b :
    /\ sess' = [sess EXCEPT ![c] = s] /\ hasTx' = [hasTx EXCEPT ![c] = h]
    /\ base' = [base EXCEPT ![c] = b]
    /\ b # None => /\ b = base[c] /\ h = hasTx[c] /\ s.exec = sess[c].exec
                   /\ ~RealEnd(c, all)

LEMMA CommitCallbackKeeps ==
  ASSUME IInv, ReadInv, NEW c \in Conn, NEW all \in BOOLEAN, CommitCallback(c, all)
  PROVE  PromiseKept(c, all)
<1>1. GoodSession(sess[c]) /\ store \in State
  BY AtStatement
<1>2. PICK o \in EndStatement(sess[c], TRUE, store) :
        IF o.res = "Ok" /\ RealEnd(c, all) /\ hasTx[c]
          THEN \E p \in CommitSession(o.s, o.db) :
                 /\ sess' = [sess EXCEPT ![c] = p.s]
                 /\ hasTx' = [hasTx EXCEPT ![c] = FALSE]
                 /\ base' = [base EXCEPT ![c] = None]
          ELSE sess' = [sess EXCEPT ![c] = o.s] /\ UNCHANGED <<hasTx, base>>
  BY DEF CommitCallback
<1>3. o.s.exec = sess[c].exec /\ (sess[c].stmtTx = None => o.res = "Ok")
  BY <1>1, <1>2, EndStatementGood, EndStatementKeeps
<1>4. CASE o.res = "Ok" /\ RealEnd(c, all) /\ hasTx[c]
  BY <1>2, <1>4 DEF PromiseKept
<1>5. CASE ~(o.res = "Ok" /\ RealEnd(c, all) /\ hasTx[c])
  <2>1. hasTx' = [hasTx EXCEPT ![c] = hasTx[c]] /\ base' = [base EXCEPT ![c] = base[c]]
    BY <1>2, <1>5 DEF IInv, Typed
  <2>2. base[c] # None => ~RealEnd(c, all)
    BY <1>3, <1>5, PromisedIsOpen
  <2> QED BY <1>2, <1>3, <1>5, <2>1, <2>2 DEF PromiseKept
<1> QED BY <1>4, <1>5

LEMMA RollbackCallbackKeeps ==
  ASSUME IInv, ReadInv, NEW c \in Conn, NEW all \in BOOLEAN, RollbackCallback(c, all)
  PROVE  PromiseKept(c, all)
<1>1. GoodSession(sess[c]) /\ store \in State
  BY AtStatement
<1>2. PICK o \in EndStatement(sess[c], FALSE, store) :
        IF RealEnd(c, all) /\ hasTx[c]
          THEN /\ sess' = [sess EXCEPT ![c] = RollbackSession(o.s)]
               /\ hasTx' = [hasTx EXCEPT ![c] = FALSE]
               /\ base' = [base EXCEPT ![c] = None]
          ELSE sess' = [sess EXCEPT ![c] = o.s] /\ UNCHANGED <<hasTx, base>>
  BY DEF RollbackCallback
<1>3. o.s.exec = sess[c].exec
  BY <1>1, <1>2, EndStatementKeeps
<1>4. CASE RealEnd(c, all) /\ hasTx[c]
  BY <1>2, <1>4 DEF PromiseKept
<1>5. CASE ~(RealEnd(c, all) /\ hasTx[c])
  <2>1. hasTx' = [hasTx EXCEPT ![c] = hasTx[c]] /\ base' = [base EXCEPT ![c] = base[c]]
    BY <1>2, <1>5 DEF IInv, Typed
  <2>2. base[c] # None => ~RealEnd(c, all)
    BY <1>5, PromisedIsOpen
  <2> QED BY <1>2, <1>3, <1>5, <2>1, <2>2 DEF PromiseKept
<1> QED BY <1>4, <1>5

LEMMA StatementEndsReads ==
  ASSUME IInv, ReadInv, NEW c \in Conn, PromiseKept(c, FALSE), StatementOver(c),
         UNCHANGED <<bulkOwns, explicit>>
  PROVE  ReadInv'
<1>1. PICK s, h, b :
        /\ sess' = [sess EXCEPT ![c] = s] /\ hasTx' = [hasTx EXCEPT ![c] = h]
        /\ base' = [base EXCEPT ![c] = b]
        /\ b # None => b = base[c] /\ h = hasTx[c] /\ s.exec = sess[c].exec
  BY DEF PromiseKept
<1>2. OthersRead(c)
  BY <1>1 DEF OthersRead, IInv, Typed, StatementOver
<1>3. ReadsSound(c)'
  BY <1>1 DEF ReadInv, ReadsSound, Promised, IInv, Typed, StatementOver
<1> QED BY <1>2, <1>3, OneReader

LEMMA TransactionEndsReads ==
  ASSUME IInv, ReadInv, NEW c \in Conn, pc[c] = "idle", PromiseKept(c, TRUE),
         explicit' = [explicit EXCEPT ![c] = FALSE],
         UNCHANGED <<bulkOwns, pc, cut, landed, anomaly>>
  PROVE  ReadInv'
<1>1. PICK s, h :
        /\ sess' = [sess EXCEPT ![c] = s] /\ hasTx' = [hasTx EXCEPT ![c] = h]
        /\ base' = [base EXCEPT ![c] = None]
  BY DEF PromiseKept, RealEnd
<1>2. OthersRead(c)
  BY <1>1 DEF OthersRead, IInv, Typed
<1>3. ReadsSound(c)'
  BY <1>1 DEF ReadInv, ReadsSound, Promised, IInv, Typed
<1> QED BY <1>2, <1>3, OneReader

LEMMA CloseConnectionReads ==
  ASSUME IInv, ReadInv, NEW c \in Conn, CloseConnection(c)
  PROVE  ReadInv'
<1>1. OthersRead(c)
  BY DEF CloseConnection, OthersRead, IInv, Typed
<1>2. ReadsSound(c)'
  BY DEF CloseConnection, ReadInv, ReadsSound, Promised, IInv, Typed
<1> QED BY <1>1, <1>2, OneReader

(* A step of a statement that reads on: what it takes and writes keeps the *)
(* promises of its reads.                                                  *)
LEMMA ReadsOnAfter ==
  ASSUME IInv, ReadInv, NEW c \in Conn, NEW s, pc[c] = "stmt",
         sess' = [sess EXCEPT ![c] = s], pc' = pc,
         base[c] # None =>
           s.exec.level = sess[c].exec.level /\ s.exec.snap = sess[c].exec.snap,
         StatementReads(s, cut[c], bulkOwns[c]),
         UNCHANGED <<hasTx, bulkOwns, explicit, base, cut, anomaly>>
  PROVE  ReadInv'
<1>1. OthersRead(c)
  BY DEF OthersRead, IInv, Typed
<1>2. ReadsSound(c)'
  BY DEF ReadInv, ReadsSound, Promised, IInv, Typed
<1> QED BY <1>1, <1>2, OneReader

LEMMA ObserveSound ==
  ASSUME NEW c \in Conn, NEW s, NEW r \in Row, NEW v, NEW through,
         anomaly \in [Conn -> SUBSET Anomaly], Observe(c, s, r, v, through),
         OwnWrite(s, r) # None => v = OwnWrite(s, r),
         OwnWrite(s, r) = None /\ base[c] # None => v = base[c][r],
         through /\ OwnWrite(s, r) = None /\ cut[c] # None /\ ~bulkOwns[c] => v = cut[c][r]
  PROVE  /\ anomaly'[c] \cap {"own", "snapshot", "view"} = {}
         /\ \A d \in Conn \ {c} : anomaly'[d] = anomaly[d]
<1> DEFINE own == OwnWrite(s, r)
           torn == through /\ own = None /\ cut[c] # None /\ v # cut[c][r]
           seen == {a \in Anomaly :
                      \/ a = "own" /\ own # None /\ v # own
                      \/ a = "snapshot" /\ own = None /\ base[c] # None /\ v # base[c][r]
                      \/ a = "view" /\ torn /\ ~bulkOwns[c]
                      \/ a = "reopened" /\ torn /\ bulkOwns[c]}
<1>1. anomaly' = [anomaly EXCEPT ![c] = seen]
  BY DEF Observe
<1>2. seen \cap {"own", "snapshot", "view"} = {}
  OBVIOUS
<1> HIDE DEF seen
<1> QED BY <1>1, <1>2

LEMMA DirectReadReads ==
  ASSUME IInv, ReadInv, NEW c \in Conn, NEW r \in Row, DirectRead(c, r)
  PROVE  ReadInv'
<1> DEFINE t == TableOf[r]
           n == TableForRead(sess[c], t, store)
           through == n.writeTables[t] = "none"
           now == Sees(TxIn(n, HandleSlot(n)), store)
           v == DirectValue(n, t, r, store)
<1>1. /\ pc[c] = "stmt" /\ sess' = [sess EXCEPT ![c] = n]
      /\ Observe(c, n, r, v, through)
      /\ cut' = [cut EXCEPT ![c] = IF cut[c] = None /\ through THEN now ELSE cut[c]]
      /\ UNCHANGED <<store, hasTx, bulkOwns, pc, explicit, reply, base, landed>>
  BY DEF DirectRead
<1>2. /\ GoodSession(sess[c]) /\ store \in State
      /\ StatementReads(sess[c], cut[c], bulkOwns[c])
      /\ anomaly \in [Conn -> SUBSET Anomaly]
  BY <1>1, AtStatement DEF ReadInv, ReadsSound
<1>3. /\ n.exec = sess[c].exec
      /\ StatementReads(n, IF cut[c] = None /\ through THEN now ELSE cut[c], bulkOwns[c])
      /\ OwnWrite(n, r) # None => v = OwnWrite(n, r)
      /\ OwnWrite(n, r) = None /\ sess[c].open /\ sess[c].exec.level = "SI" =>
           v = sess[c].exec.snap[r]
      /\ through /\ OwnWrite(n, r) = None /\ cut[c] # None /\ ~bulkOwns[c] => v = cut[c][r]
  BY <1>2, DirectReadKeeps
<1>4. base[c] # None => /\ sess[c].open /\ sess[c].exec.level = "SI"
                        /\ sess[c].exec.snap = base[c] /\ explicit[c] /\ hasTx[c]
  BY PromisedIsOpen DEF ReadInv, ReadsSound, Promised
<1> HIDE DEF n, v, through, now
<1>5. /\ anomaly'[c] \cap {"own", "snapshot", "view"} = {}
      /\ \A d \in Conn \ {c} : anomaly'[d] = anomaly[d]
  BY <1>1, <1>2, <1>3, <1>4, ObserveSound
<1>6. OthersRead(c)
  BY <1>1, <1>5 DEF OthersRead, IInv, Typed
<1>7. ReadsSound(c)'
  BY <1>1, <1>3, <1>4, <1>5 DEF ReadsSound, Promised, IInv, Typed
<1> QED BY <1>6, <1>7, OneReader

(* run, for a SELECT, reads the session's one transaction, or the rows as  *)
(* committed where it has none.                                            *)
LEMMA QueryReads ==
  ASSUME IInv, ReadInv, NEW c \in Conn, NEW r \in Row, Query(c, r)
  PROVE  ReadInv'
<1> DEFINE s == sess[c]
           v == QueryValue(s, r, store)
<1>1. /\ pc[c] = "stmt" /\ Observe(c, s, r, v, FALSE)
      /\ UNCHANGED <<store, sess, hasTx, bulkOwns, pc, explicit, reply, base, cut, landed>>
  BY DEF Query
<1>2. GoodSession(s) /\ store \in State /\ anomaly \in [Conn -> SUBSET Anomaly]
  BY AtStatement
<1>3. base[c] # None => s.open /\ s.exec.level = "SI" /\ s.exec.snap = base[c]
  BY PromisedIsOpen DEF ReadInv, ReadsSound, Promised
<1> HIDE DEF s
<1>4. /\ Live(s) \in Transaction \cup {None}
      /\ s.open => Live(s) = s.exec /\ Live(s) \in Transaction
      /\ ~s.open => Live(s) = s.stmtTx
      /\ OwnWrite(s, r) = IF Live(s) = None THEN None ELSE Live(s).writes[r]
  BY <1>2, LiveIsTheOne
<1>5. v = IF Live(s) = None THEN store[r] ELSE Sees(Live(s), store)[r]
  BY <1>4, TransactionIsSome DEF QueryValue
<1> HIDE DEF v
<1>6. OwnWrite(s, r) # None => v = OwnWrite(s, r)
  BY <1>2, <1>4, <1>5, SeesRow
<1>7. OwnWrite(s, r) = None /\ base[c] # None => v = base[c][r]
  BY <1>2, <1>3, <1>4, <1>5, SeesRow, TransactionIsSome
<1>8. /\ anomaly'[c] \cap {"own", "snapshot", "view"} = {}
      /\ \A d \in Conn \ {c} : anomaly'[d] = anomaly[d]
  BY <1>1, <1>2, <1>6, <1>7, ObserveSound
<1>9. OthersRead(c)
  BY <1>1, <1>8 DEF OthersRead
<1>10. ReadsSound(c)'
  BY <1>1, <1>8 DEF ReadInv, ReadsSound, Promised
<1> QED BY <1>9, <1>10, OneReader

(* A write into the session's transaction keeps its level and snapshot.    *)
LEMMA PutKeepsSnapshot ==
  ASSUME NEW s, GoodSession(s), NEW slot \in {"exec", "stmtTx"},
         NEW r \in Row, NEW v \in Val, s.open, TxIn(s, slot) \in Transaction
  PROVE  /\ PutIn(s, slot, r, v).exec.level = s.exec.level
         /\ PutIn(s, slot, r, v).exec.snap = s.exec.snap
<1>1. s.exec \in Transaction /\ s.stmtTx = None /\ slot = "exec"
  BY TransactionIsSome DEF GoodSession, SessionState, TxIn
<1>2. PutIn(s, slot, r, v).exec = Put(s.exec, r, v)
  BY <1>1 DEF PutIn, GoodSession, SessionState
<1> QED BY <1>1, <1>2, PutFields

LEMMA DirectWriteReads ==
  ASSUME IInv, ReadInv, NEW c \in Conn, NEW r \in Row, NEW v \in Val, DirectWrite(c, r, v)
  PROVE  ReadInv'
<1> DEFINE t == TableOf[r]
           w == WriteHandle(sess[c], t, store)
           slot == w.writeTables[t]
           s == PutIn(w, slot, r, v)
<1>1. /\ pc[c] = "stmt" /\ sess' = [sess EXCEPT ![c] = s]
      /\ UNCHANGED <<store, hasTx, bulkOwns, pc, explicit, reply, observers>>
  BY DEF DirectWrite
<1>2. /\ GoodSession(sess[c]) /\ store \in State /\ t \in Table
      /\ StatementReads(sess[c], cut[c], bulkOwns[c])
  BY <1>1, AtStatement, SessionConstants DEF ReadInv, ReadsSound
<1>3. /\ GoodSession(w) /\ w.open = sess[c].open /\ slot \in {"exec", "stmtTx"}
      /\ TxIn(w, slot) \in Transaction /\ w.exec = sess[c].exec /\ w.writeTables[t] # "none"
      /\ StatementReads(w, cut[c], bulkOwns[c])
  BY <1>2, WriteHandleGood, WriteHandleReads
<1> HIDE DEF w
<1>4. TxIn(w, slot) = Live(w) /\ Live(w) \in Transaction
  BY <1>2, <1>3, LiveIsTheOne
<1> HIDE DEF slot
<1>5. StatementReads(s, cut[c], bulkOwns[c])
  BY <1>3, <1>4, PutReads
<1>6. base[c] # None =>
        s.exec.level = sess[c].exec.level /\ s.exec.snap = sess[c].exec.snap
  BY <1>3, PromisedIsOpen, PutKeepsSnapshot
<1> HIDE DEF s
<1> QED BY <1>1, <1>5, <1>6, ReadsOnAfter DEF observers

(* The same through SQL: the write handle was taken first.                 *)
LEMMA RowSqlWriteReads ==
  ASSUME IInv, ReadInv, NEW c \in Conn, NEW r \in Row, NEW v \in Val, RowSqlWrite(c, r, v)
  PROVE  ReadInv'
<1> DEFINE t == TableOf[r]
           w == WriteHandle(sess[c], t, store)
<1>1. /\ pc[c] = "stmt" /\ RunWrite(c, w, r, v)
      /\ UNCHANGED <<hasTx, bulkOwns, pc, explicit, reply, base, cut, anomaly>>
  BY DEF RowSqlWrite
<1>2. /\ GoodSession(sess[c]) /\ store \in State /\ t \in Table
      /\ StatementReads(sess[c], cut[c], bulkOwns[c])
  BY <1>1, AtStatement, SessionConstants DEF ReadInv, ReadsSound
<1>3. /\ GoodSession(w) /\ w.open = sess[c].open
      /\ w.exec = sess[c].exec /\ w.writeTables[t] # "none"
      /\ StatementReads(w, cut[c], bulkOwns[c])
  BY <1>2, WriteHandleGood, WriteHandleReads
<1> HIDE DEF w
<1>4. CASE w.open
  <2> DEFINE s == PutIn(w, "exec", r, v)
  <2>1. sess' = [sess EXCEPT ![c] = s]
    BY <1>1, <1>4 DEF RunWrite
  <2>2. TxIn(w, "exec") = Live(w) /\ Live(w) \in Transaction
    BY <1>3, <1>4, LiveIsTheOne DEF TxIn
  <2>3. StatementReads(s, cut[c], bulkOwns[c])
    BY <1>3, <2>2, PutReads
  <2>4. s.exec.level = sess[c].exec.level /\ s.exec.snap = sess[c].exec.snap
    BY <1>3, <1>4, <2>2, PutKeepsSnapshot
  <2> HIDE DEF s
  <2> QED BY <1>1, <2>1, <2>3, <2>4, ReadsOnAfter
<1>5. CASE ~w.open
  <2>1. sess' = [sess EXCEPT ![c] = w]
    BY <1>1, <1>5 DEF RunWrite
  <2> QED BY <1>1, <1>3, <2>1, ReadsOnAfter
<1> QED BY <1>4, <1>5

LEMMA WriteFailsReads ==
  ASSUME IInv, ReadInv, NEW c \in Conn, NEW t \in Table, WriteFails(c, t)
  PROVE  ReadInv'
<1> DEFINE w == WriteHandle(sess[c], t, store)
<1>1. PICK p \in {"stmt", "failed"} :
        /\ pc[c] = "stmt" /\ sess' = [sess EXCEPT ![c] = w] /\ pc' = [pc EXCEPT ![c] = p]
        /\ UNCHANGED <<store, hasTx, bulkOwns, explicit, reply, observers>>
  BY DEF WriteFails
<1>2. /\ GoodSession(sess[c]) /\ store \in State
      /\ StatementReads(sess[c], cut[c], bulkOwns[c])
  BY <1>1, AtStatement DEF ReadInv, ReadsSound
<1>3. w.exec = sess[c].exec /\ StatementReads(w, cut[c], bulkOwns[c])
  BY <1>2, WriteHandleReads
<1> HIDE DEF w
<1>4. OthersRead(c)
  BY <1>1 DEF OthersRead, IInv, Typed, observers
<1>5. ReadsSound(c)'
  BY <1>1, <1>3 DEF ReadInv, ReadsSound, Promised, IInv, Typed, observers
<1> QED BY <1>4, <1>5, OneReader

LEMMA DirectModifyReads ==
  ASSUME IInv, ReadInv, NEW c \in Conn, NEW r \in Row, NEW v \in Val, DirectModify(c, r, v)
  PROVE  ReadInv'
<1>1. /\ pc[c] = "stmt" /\ RunWrite(c, sess[c], r, v)
      /\ pc' = [pc EXCEPT ![c] = "modified"]
      /\ UNCHANGED <<hasTx, bulkOwns, explicit, reply, base, cut, anomaly>>
  BY DEF DirectModify
<1>2. GoodSession(sess[c])
  BY AtStatement
<1>3. \E s : /\ sess' = [sess EXCEPT ![c] = s]
             /\ base[c] # None =>
                  s.exec.level = sess[c].exec.level /\ s.exec.snap = sess[c].exec.snap
  <2>1. CASE sess[c].open
    <3>1. TxIn(sess[c], "exec") \in Transaction
      BY <1>2, <2>1 DEF GoodSession, SessionState, TxIn
    <3>2. /\ PutIn(sess[c], "exec", r, v).exec.level = sess[c].exec.level
          /\ PutIn(sess[c], "exec", r, v).exec.snap = sess[c].exec.snap
      BY <1>2, <2>1, <3>1, PutKeepsSnapshot
    <3>3. sess' = [sess EXCEPT ![c] = PutIn(sess[c], "exec", r, v)]
      BY <1>1, <2>1 DEF RunWrite
    <3> QED BY <3>2, <3>3
  <2>2. CASE ~sess[c].open
    BY <1>1, <2>2 DEF RunWrite
  <2> QED BY <2>1, <2>2
<1>4. PICK s : /\ sess' = [sess EXCEPT ![c] = s]
               /\ base[c] # None =>
                    s.exec.level = sess[c].exec.level /\ s.exec.snap = sess[c].exec.snap
  BY <1>3
<1>5. OthersRead(c)
  BY <1>1, <1>4 DEF OthersRead, IInv, Typed
<1>6. ReadsSound(c)'
  BY <1>1, <1>4 DEF ReadInv, ReadsSound, Promised, IInv, Typed
<1> QED BY <1>5, <1>6, OneReader

(* The steps of a statement that has read its last, where no snapshot was  *)
(* promised.                                                               *)
LEMMA NothingPromised ==
  ASSUME IInv, ReadInv, NEW c \in Conn, OthersRead(c),
         base[c] = None, base'[c] = base[c], anomaly'[c] = anomaly[c],
         pc'[c] \notin {"idle", "stmt"}
  PROVE  ReadInv'
<1>1. ReadsSound(c)'
  BY DEF ReadInv, ReadsSound, Promised
<1> QED BY <1>1, OneReader

LEMMA DirectModifyFailsReads ==
  ASSUME IInv, ReadInv, NEW c \in Conn, DirectModifyFails(c)
  PROVE  ReadInv'
<1>1. /\ pc' = [pc EXCEPT ![c] = "failed"]
      /\ UNCHANGED <<sess, hasTx, bulkOwns, explicit, base, cut, anomaly>>
  BY DEF DirectModifyFails, observers
<1>2. OthersRead(c)
  BY <1>1 DEF OthersRead, IInv, Typed
<1>3. ReadsSound(c)'
  BY <1>1 DEF ReadInv, ReadsSound, Promised, IInv, Typed
<1> QED BY <1>2, <1>3, OneReader

LEMMA BulkStepsRead ==
  ASSUME IInv, ReadInv, NEW c \in Conn,
         \/ BulkInsertFails(c) \/ BulkInsertCommits(c)
         \/ \E r \in Row, v \in Val : BulkInsertRow(c, r, v)
  PROVE  ReadInv'
<1>1. /\ pc[c] = "bulk"
      /\ UNCHANGED <<hasTx, bulkOwns, explicit, base, cut, anomaly>>
  BY DEF BulkInsertFails, BulkInsertCommits, BulkInsertRow, observers
<1>2. base[c] = None
  BY <1>1, PromisedIsOpen
<1>3. \E s : sess' = [sess EXCEPT ![c] = s]
  BY Zenon DEF BulkInsertFails, BulkInsertCommits, BulkInsertRow, RunWrite
<1>4. \E p : pc' = [pc EXCEPT ![c] = p] /\ p \in {"bulk", "failed", "modified"}
  <2>1. CASE BulkInsertFails(c)
    BY <2>1 DEF BulkInsertFails
  <2>2. CASE BulkInsertCommits(c)
    BY <2>2 DEF BulkInsertCommits
  <2>3. CASE \E r \in Row, v \in Val : BulkInsertRow(c, r, v)
    <3>1. pc' = [pc EXCEPT ![c] = "bulk"]
      BY <1>1, <2>3 DEF BulkInsertRow, IInv, Typed
    <3> QED BY <3>1
  <2> QED BY <2>1, <2>2, <2>3
<1>5. OthersRead(c) /\ pc'[c] \in {"bulk", "failed", "modified"}
  BY <1>1, <1>3, <1>4 DEF OthersRead, IInv, Typed
<1> QED BY <1>1, <1>2, <1>5, NothingPromised

LEMMA ChunkFailsReads ==
  ASSUME IInv, ReadInv, NEW c \in Conn, ChunkFails(c)
  PROVE  ReadInv'
<1>1. /\ pc[c] = "stmt" /\ bulkOwns[c]
      /\ sess' = [sess EXCEPT ![c] = RollbackSession(sess[c])]
      /\ hasTx' = [hasTx EXCEPT ![c] = FALSE] /\ bulkOwns' = [bulkOwns EXCEPT ![c] = FALSE]
      /\ pc' = [pc EXCEPT ![c] = "failed"] /\ UNCHANGED <<explicit, base, cut, anomaly>>
  BY DEF ChunkFails, observers
<1>2. base[c] = None
  BY <1>1, PromisedIsOpen
<1>3. OthersRead(c) /\ pc'[c] = "failed"
  BY <1>1 DEF OthersRead, IInv, Typed
<1> QED BY <1>1, <1>2, <1>3, NothingPromised

LEMMA BulkInsertBeginsReads ==
  ASSUME IInv, ReadInv, NEW c \in Conn, NEW t \in Table, BulkInsertBegins(c, t)
  PROVE  ReadInv'
<1>1. PICK o \in BeginSession(WriteHandle(sess[c], t, store), DefaultLevel, store) :
        /\ sess' = [sess EXCEPT ![c] = o.s]
        /\ pc' = [pc EXCEPT ![c] = IF o.res = "Ok" THEN "bulk" ELSE "failed"]
  BY DEF BulkInsertBegins
<1>2. /\ ~sess[c].open /\ UNCHANGED <<hasTx, bulkOwns, explicit, base, cut, anomaly>>
  BY DEF BulkInsertBegins, observers
<1>3. base[c] = None
  BY <1>2, PromisedIsOpen
<1>4. OthersRead(c) /\ pc'[c] \in {"bulk", "failed"}
  BY <1>1, <1>2 DEF OthersRead, IInv, Typed
<1> QED BY <1>2, <1>3, <1>4, NothingPromised

LEMMA ChunkOpensTxReads ==
  ASSUME IInv, ReadInv, NEW c \in Conn, ChunkOpensTx(c)
  PROVE  ReadInv'
<1>1. PICK o \in BeginSession(sess[c], "RC", store) :
        /\ o.res = "Ok" /\ sess' = [sess EXCEPT ![c] = o.s] /\ store' = o.db
        /\ hasTx' = [hasTx EXCEPT ![c] = TRUE]
  BY DEF ChunkOpensTx, ContextBegin
<1>2. /\ pc[c] = "stmt" /\ ~hasTx[c] /\ bulkOwns' = [bulkOwns EXCEPT ![c] = TRUE]
      /\ UNCHANGED <<pc, explicit, reply, base, cut, anomaly>>
  BY DEF ChunkOpensTx, observers
<1>3. GoodSession(sess[c]) /\ store \in State /\ "RC" \in Level /\ base[c] = None
  BY <1>2, AtStatement, PromisedIsOpen DEF Level
<1>4. AtRest(o.s)
  BY <1>1, <1>3, BeginSessionGood
<1>5. StatementReads(o.s, cut[c], TRUE)
  BY <1>4, RestReadsAny
<1>6. OthersRead(c)
  BY <1>1, <1>2 DEF OthersRead, IInv, Typed
<1>7. ReadsSound(c)'
  BY <1>1, <1>2, <1>3, <1>5 DEF ReadInv, ReadsSound, Promised, IInv, Typed
<1> QED BY <1>6, <1>7, OneReader

-----------------------------------------------------------------------------
(* The theorems.                                                           *)

LEMMA InitReads == Init => ReadInv
<1> SUFFICES ASSUME Init, NEW c \in Conn PROVE ReadsSound(c)
  BY DEF ReadInv
<1> QED BY DEF Init, ReadsSound, Promised

LEMMA StepReads == IInv /\ ReadInv /\ [Next]_vars => ReadInv'
<1> SUFFICES ASSUME IInv, ReadInv, [Next]_vars PROVE ReadInv'
  OBVIOUS
<1>1. CASE UNCHANGED vars
  BY <1>1 DEF ReadInv, ReadsSound, Promised, vars
<1>2. ASSUME NEW c \in Conn, TransactionStep(c) PROVE ReadInv'
  <2>1. CASE BeginTrx(c)
    BY <2>1, BeginTrxReads
  <2>2. CASE StartConsistentSnapshot(c)
    BY <2>2, StartConsistentSnapshotReads
  <2>3. CASE StartStatement(c)
    BY <2>3, StartStatementReads
  <2>4. CASE StatementCommits(c)
    BY <2>4, CommitCallbackKeeps, StatementEndsReads DEF StatementCommits
  <2>5. CASE StatementRollsBack(c)
    BY <2>5, RollbackCallbackKeeps, StatementEndsReads DEF StatementRollsBack
  <2>6. CASE CommitTrx(c)
    BY <2>6, CommitCallbackKeeps, TransactionEndsReads DEF CommitTrx
  <2>7. CASE RollbackTrx(c)
    BY <2>7, RollbackCallbackKeeps, TransactionEndsReads DEF RollbackTrx
  <2>8. CASE CloseConnection(c)
    BY <2>8, CloseConnectionReads
  <2> QED BY <1>2, <2>1, <2>2, <2>3, <2>4, <2>5, <2>6, <2>7, <2>8
      DEF TransactionStep
<1>3. ASSUME NEW c \in Conn, StatementStep(c) PROVE ReadInv'
  <2>1. CASE \E r \in Row : DirectRead(c, r) \/ Query(c, r)
    BY <2>1, DirectReadReads, QueryReads
  <2>2. CASE \E r \in Row, v \in Val : DirectWrite(c, r, v) \/ RowSqlWrite(c, r, v)
    BY <2>2, DirectWriteReads, RowSqlWriteReads
  <2>3. CASE \E r \in Row, v \in Val : DirectModify(c, r, v)
    BY <2>3, DirectModifyReads
  <2>4. CASE \E t \in Table : WriteFails(c, t) \/ BulkInsertBegins(c, t)
    BY <2>4, WriteFailsReads, BulkInsertBeginsReads
  <2>5. CASE DirectModifyFails(c)
    BY <2>5, DirectModifyFailsReads
  <2>6. CASE \/ BulkInsertFails(c) \/ BulkInsertCommits(c)
             \/ \E r \in Row, v \in Val : BulkInsertRow(c, r, v)
    BY <2>6, BulkStepsRead
  <2>7. CASE ChunkOpensTx(c)
    BY <2>7, ChunkOpensTxReads
  <2>8. CASE ChunkFails(c)
    BY <2>8, ChunkFailsReads
  <2> QED BY <1>3, <2>1, <2>2, <2>3, <2>4, <2>5, <2>6, <2>7, <2>8
      DEF StatementStep
<1> QED BY <1>1, <1>2, <1>3 DEF Next

(* What a session may still read is what it was promised, whatever the     *)
(* connections do: the reads' promises are kept by every step of session.rs *)
(* and of the handlerton's callbacks.                                      *)
THEOREM ReadInvariance == Spec => [](IInv /\ ReadInv)
BY InitInv, StepInv, InitReads, StepReads, PTL DEF Spec

(* Session::run, with_table and with_write_table: a statement reads what   *)
(* it, or its transaction, has written, whichever way the write and the    *)
(* read went.                                                              *)
THEOREM ReadsOwnWritesAlways == Spec => []ReadsOwnWrites
<1>1. IInv /\ ReadInv => ReadsOwnWrites
  BY DEF ReadInv, ReadsSound, ReadsOwnWrites
<1> QED BY <1>1, ReadInvariance, PTL

(* Session::begin and with_handle: a transaction at REPEATABLE READ or     *)
(* above, or one WITH CONSISTENT SNAPSHOT, reads the rows as they were     *)
(* committed when it was opened.                                           *)
THEOREM SnapshotAlwaysHolds == Spec => []SnapshotHolds
<1>1. IInv /\ ReadInv => SnapshotHolds
  BY DEF ReadInv, ReadsSound, SnapshotHolds
<1> QED BY <1>1, ReadInvariance, PTL

(* open_table's view: the direct reads of one statement, in tables it has  *)
(* not written, read one committed state, a chunk's new transaction aside. *)
THEOREM OneViewHolds == Spec => []OneStatementView
<1>1. IInv /\ ReadInv => OneStatementView
  BY DEF ReadInv, ReadsSound, OneStatementView
<1> QED BY <1>1, ReadInvariance, PTL

-----------------------------------------------------------------------------
(* The sessions implement TxnStore.                                        *)

(* The writes a session holds pending.                                     *)
Held(s) ==
  CASE s.exec # None -> s.exec.writes
    [] s.exec = None /\ s.stmtTx # None -> s.stmtTx.writes
    [] OTHER -> NoWrites

(* end_statement commits the statement's own transaction only when         *)
(* stmt_wrote is set; where it is not, there is nothing to lose.           *)
WritesMarked(s) ==
  s.stmtTx # None /\ ~s.stmtWrote => s.stmtTx.writes = NoWrites

(* The inductive invariant, beside IInv of SessionProofs.                  *)
MarkInv == \A c \in Conn : WritesMarked(sess[c])

-----------------------------------------------------------------------------
(* What is pending.                                                        *)

LEMMA HeldIsLive ==
  ASSUME NEW s, GoodSession(s)
  PROVE  /\ Held(s) = IF Live(s) = None THEN NoWrites ELSE Live(s).writes
         /\ Held(s) \in Writes
<1>1. /\ s.open => Live(s) = s.exec /\ Live(s) \in Transaction
      /\ ~s.open => Live(s) = s.stmtTx /\ s.exec = None
      /\ Live(s) \in Transaction \cup {None}
  BY LiveIsTheOne
<1>2. NoWrites \in Writes
  BY DEF NoWrites, Writes
<1>3. CASE s.open
  <2>1. s.exec # None /\ Live(s) = s.exec /\ s.exec \in Transaction
    BY <1>1, <1>3, TransactionIsSome
  <2> QED BY <2>1, TransactionIsSome DEF Held
<1>4. CASE ~s.open
  <2>1. s.exec = None /\ Live(s) = s.stmtTx /\ s.stmtTx \in Transaction \cup {None}
    BY <1>1, <1>4
  <2> QED BY <1>2, <2>1, TransactionIsSome DEF Held
<1> QED BY <1>3, <1>4

LEMMA RestHoldsNothing ==
  ASSUME NEW s, s.exec = None, s.stmtTx = None
  PROVE  Held(s) = NoWrites
BY DEF Held

(* A row no transaction of d holds is not pending in d.                    *)
LEMMA NotPending ==
  ASSUME IInv, NEW d \in Conn, NEW r \in Row, ~HoldsRow(d, r)
  PROVE  Pending[d][r] = None
<1>1. Pending[d] = Held(sess[d])
  BY DEF Pending, Held
<1>2. Held(sess[d])[r] = None
  BY DEF Held, HoldsRow, Wrote, NoWrites
<1> QED BY <1>1, <1>2

(* A step of c's session, in the abstract store.                           *)
LEMMA PendingMoves ==
  ASSUME IInv, NEW c \in Conn, NEW s, sess' = [sess EXCEPT ![c] = s]
  PROVE  /\ Pending[c] = Held(sess[c])
         /\ Pending' = [Pending EXCEPT ![c] = Held(s)]
<1>1. Pending = [d \in Conn |-> Held(sess[d])] /\ Pending' = [d \in Conn |-> Held(sess'[d])]
  BY DEF Pending, Held
<1>2. sess'[c] = s /\ \A d \in Conn \ {c} : sess'[d] = sess[d]
  BY DEF IInv, Typed
<1> QED BY <1>1, <1>2

-----------------------------------------------------------------------------
(* The steps of the store, by what a step of the session leaves pending.   *)

Simulates == [Abstract!Next]_Abstract!vars

LEMMA Stutters ==
  ASSUME IInv, NEW c \in Conn, NEW s, sess' = [sess EXCEPT ![c] = s],
         Held(s) = Held(sess[c]), UNCHANGED <<store, explicit, reply>>
  PROVE  Simulates
<1>1. Pending' = Pending
  <2>1. Pending' = [Pending EXCEPT ![c] = Pending[c]]
    BY PendingMoves
  <2> QED BY <2>1 DEF Pending
<1> QED BY <1>1 DEF Simulates, Abstract!vars

LEMMA Requests ==
  ASSUME IInv, NEW c \in Conn, NEW s, sess' = [sess EXCEPT ![c] = s],
         Held(s) = Held(sess[c]), UNCHANGED store,
         reply' = [reply EXCEPT ![c] = "none"],
         \/ UNCHANGED explicit
         \/ Held(sess[c]) = NoWrites /\ explicit' = [explicit EXCEPT ![c] = TRUE]
  PROVE  Simulates
<1>1. Pending' = Pending /\ Pending[c] = Held(sess[c])
  <2>1. Pending' = [Pending EXCEPT ![c] = Pending[c]] /\ Pending[c] = Held(sess[c])
    BY PendingMoves
  <2> QED BY <2>1 DEF Pending
<1>2. Abstract!Request(c)
  BY <1>1 DEF Abstract!Request, Abstract!NothingPending, NoWrites
<1> QED BY <1>2 DEF Simulates, Abstract!Next

LEMMA WritesRow ==
  ASSUME IInv, NEW c \in Conn, NEW s, sess' = [sess EXCEPT ![c] = s],
         NEW r \in Row, NEW v \in Val, Held(s) = [Held(sess[c]) EXCEPT ![r] = v],
         \A d \in Conn \ {c} : ~HoldsRow(d, r),
         UNCHANGED <<store, explicit, reply>>
  PROVE  Simulates
<1>1. Pending' = [Pending EXCEPT ![c] = [Pending[c] EXCEPT ![r] = v]]
  BY PendingMoves
<1>2. \A d \in Conn \ {c} : Pending[d][r] = None
  BY NotPending
<1>3. Abstract!Write(c, r, v)
  BY <1>1, <1>2 DEF Abstract!Write
<1> QED BY <1>3 DEF Simulates, Abstract!Next

LEMMA WritesAlone ==
  ASSUME IInv, NEW c \in Conn, NEW s, sess' = [sess EXCEPT ![c] = s],
         NEW r \in Row, NEW v \in Val, Held(s) = Held(sess[c]), ~explicit[c],
         \A d \in Conn : ~HoldsRow(d, r),
         store' = [store EXCEPT ![r] = v], UNCHANGED <<explicit, reply>>
  PROVE  Simulates
<1>1. Pending' = Pending
  <2>1. Pending' = [Pending EXCEPT ![c] = Pending[c]]
    BY PendingMoves
  <2> QED BY <2>1 DEF Pending
<1>2. \A d \in Conn : Pending[d][r] = None
  BY NotPending
<1>3. Abstract!AutoWrite(c, r, v)
  BY <1>1, <1>2 DEF Abstract!AutoWrite
<1> QED BY <1>3 DEF Simulates, Abstract!Next

LEMMA EndsStatement ==
  ASSUME IInv, NEW c \in Conn, NEW s, sess' = [sess EXCEPT ![c] = s],
         Held(s) = Held(sess[c]), explicit[c], NEW how \in Reply,
         reply' = [reply EXCEPT ![c] = how], UNCHANGED <<store, explicit>>
  PROVE  Simulates
<1>1. Pending' = Pending
  <2>1. Pending' = [Pending EXCEPT ![c] = Pending[c]]
    BY PendingMoves
  <2> QED BY <2>1 DEF Pending
<1>2. Abstract!StatementEnds(c)
  BY <1>1 DEF Abstract!StatementEnds, Abstract!Reply, Reply
<1> QED BY <1>2 DEF Simulates, Abstract!Next

LEMMA Commits ==
  ASSUME IInv, NEW c \in Conn, NEW s, sess' = [sess EXCEPT ![c] = s],
         Held(s) = NoWrites, store' = Install(Held(sess[c]), store),
         explicit' = [explicit EXCEPT ![c] = FALSE],
         NEW how \in {reply[c], "done"}, reply' = [reply EXCEPT ![c] = how]
  PROVE  Simulates
<1>1. Pending[c] = Held(sess[c]) /\ Pending' = [Pending EXCEPT ![c] = NoWrites]
  BY PendingMoves
<1>2. Abstract!Commit(c)
  BY <1>1 DEF Abstract!Commit, Abstract!NothingPending, NoWrites, Install
<1> QED BY <1>2 DEF Simulates, Abstract!Next

LEMMA Aborts ==
  ASSUME IInv, NEW c \in Conn, NEW s, sess' = [sess EXCEPT ![c] = s],
         Held(s) = NoWrites, UNCHANGED store,
         explicit' = [explicit EXCEPT ![c] = FALSE],
         NEW how \in {reply[c], "undone"}, reply' = [reply EXCEPT ![c] = how]
  PROVE  Simulates
<1>1. Pending' = [Pending EXCEPT ![c] = NoWrites]
  BY PendingMoves
<1>2. Abstract!Abort(c)
  BY <1>1 DEF Abstract!Abort, Abstract!NothingPending, NoWrites
<1> QED BY <1>2 DEF Simulates, Abstract!Next


-----------------------------------------------------------------------------
(* What the session's calls leave pending, and marked.                     *)

(* What end_statement leaves of the pending writes.                        *)
EndLeaves(s, commit, db, o) ==
  /\ o.s.exec = s.exec /\ o.s.stmtTx = None
  /\ s.open => Held(o.s) = Held(s) /\ o.db = db
  /\ ~s.open => Held(o.s) = NoWrites
  /\ ~s.open /\ ~commit => o.db = db
  /\ ~s.open /\ o.res = "Ok" /\ commit => o.db = Install(Held(s), db)
  /\ o.res # "Ok" => o.db = db /\ WroteAnything(s.stmtTx)

LEMMA EndStatementPending ==
  ASSUME NEW s, GoodSession(s), WritesMarked(s), NEW commit \in BOOLEAN,
         NEW db \in State, NEW o \in EndStatement(s, commit, db)
  PROVE  EndLeaves(s, commit, db, o)
<1> USE DEF EndLeaves
<1> DEFINE cleared == [s EXCEPT !.tables = NoHandles, !.writeTables = NoHandles,
                                !.view = None]
           ended == [cleared EXCEPT !.stmtTx = None, !.stmtWrote = FALSE]
<1>1. /\ cleared.exec = s.exec /\ cleared.stmtTx = s.stmtTx
      /\ ended.exec = s.exec /\ ended.stmtTx = None
  BY DEF GoodSession, SessionState
<1> HIDE DEF cleared
<1>2. /\ s.open => s.exec # None /\ s.stmtTx = None
      /\ ~s.open => s.exec = None
  BY DEF GoodSession
<1>3. Install(NoWrites, db) = db
  BY DEF Install, NoWrites, State
<1> HIDE DEF ended
<1>4. CASE s.stmtTx = None
  <2>1. o = Ok(cleared, db)
    BY <1>4 DEF EndStatement, cleared
  <2>2. o.s = cleared /\ o.db = db /\ o.res = "Ok"
    BY <2>1, ResultFields
  <2>3. Held(cleared) = Held(s) /\ (~s.open => Held(s) = NoWrites)
    BY <1>1, <1>2, <1>4 DEF Held
  <2> QED BY <1>1, <1>3, <1>4, <2>2, <2>3
<1>5. CASE s.stmtTx # None
  <2>1. ~s.open /\ s.exec = None /\ Held(s) = s.stmtTx.writes /\ Held(ended) = NoWrites
    BY <1>1, <1>2, <1>5 DEF Held
  <2>2. CASE commit /\ s.stmtWrote
    <3>1. \/ o = Ok(ended, Install(s.stmtTx.writes, db))
          \/ o = Err(ended, db) /\ WroteAnything(s.stmtTx)
      BY <1>5, <2>2 DEF EndStatement, CommitOutcomes, ended, cleared
    <3>2. \/ o.s = ended /\ o.db = Install(s.stmtTx.writes, db) /\ o.res = "Ok"
          \/ o.s = ended /\ o.db = db /\ o.res = "Err" /\ WroteAnything(s.stmtTx)
      BY <3>1, ResultFields
    <3> QED BY <1>1, <2>1, <2>2, <3>2
  <2>3. CASE ~(commit /\ s.stmtWrote)
    <3>1. o = Ok(ended, db)
      BY <1>5, <2>3 DEF EndStatement, ended, cleared
    <3>2. o.s = ended /\ o.db = db /\ o.res = "Ok"
      BY <3>1, ResultFields
    <3>3. commit => s.stmtTx.writes = NoWrites
      BY <1>5, <2>3 DEF WritesMarked
    <3> QED BY <1>1, <1>3, <2>1, <3>2, <3>3
  <2> QED BY <2>2, <2>3
<1> QED BY <1>4, <1>5

(* begin, where the statement's own access wrote nothing.                  *)
LEMMA BeginSessionPending ==
  ASSUME NEW s, GoodSession(s), WritesMarked(s), NEW level \in Level,
         NEW db \in State, ~s.open, Held(s) = NoWrites,
         NEW o \in BeginSession(s, level, db)
  PROVE  /\ o.res = "Ok" /\ o.db = db
         /\ Held(o.s) = NoWrites /\ o.s.stmtTx = None
<1>1. PICK e \in EndStatement(s, TRUE, db) :
        o = IF e.res = "Ok"
              THEN Ok([e.s EXCEPT !.exec = NewTransaction(level, e.db),
                                       !.open = TRUE], e.db)
              ELSE e
  BY DEF BeginSession
<1>2. /\ e.s.stmtTx = None
      /\ e.res = "Ok" => e.db = Install(NoWrites, db)
      /\ e.res # "Ok" => WroteAnything(s.stmtTx)
  <2>1. e \in EndStatement(s, TRUE, db)
    BY <1>1
  <2>2. EndLeaves(s, TRUE, db, e)
    BY <2>1, EndStatementPending, Zenon
  <2> QED BY <2>2 DEF EndLeaves
<1>3. Install(NoWrites, db) = db
  BY DEF Install, NoWrites, State
<1>4. e.res = "Ok"
  <2>1. s.stmtTx = None => e.res = "Ok"
    BY <1>1, EndStatementGood, Zenon
  <2>2. s.stmtTx # None => s.stmtTx.writes = NoWrites
    BY DEF Held, GoodSession
  <2>3. s.stmtTx # None => ~WroteAnything(s.stmtTx)
    BY <2>2 DEF WroteAnything, Wrote, NoWrites
  <2> QED BY <1>2, <2>1, <2>3
<1>5. GoodSession(e.s) /\ e.db = db
  <2>1. GoodSession(e.s)
    BY <1>1, EndStatementGood, Zenon
  <2> QED BY <1>2, <1>3, <1>4, <2>1
<1> DEFINE begun == [e.s EXCEPT !.exec = NewTransaction(level, db), !.open = TRUE]
<1>6. begun.exec = NewTransaction(level, db) /\ begun.stmtTx = None
  BY <1>2, <1>5 DEF GoodSession, SessionState
<1>7. NewTransaction(level, db) # None /\ NewTransaction(level, db).writes = NoWrites
  BY NewTransactionType, TransactionIsSome DEF NewTransaction
<1>8. Held(begun) = NoWrites
  BY <1>6, <1>7 DEF Held
<1> HIDE DEF begun
<1>9. o = Ok(begun, db)
  BY <1>1, <1>4, <1>5 DEF begun
<1> QED BY <1>6, <1>8, <1>9, ResultFields

LEMMA TakePending ==
  ASSUME NEW s, GoodSession(s), s.stmtTx = None
  PROVE  Held(Take(s)) = NoWrites /\ Take(s).stmtTx = None
<1>1. Take(s).exec = None /\ Take(s).stmtTx = None
  BY DEF Take, GoodSession, SessionState
<1> QED BY <1>1, RestHoldsNothing

LEMMA CommitSessionPending ==
  ASSUME NEW s, GoodSession(s), s.open, NEW db \in State,
         NEW o \in CommitSession(s, db)
  PROVE  /\ Held(o.s) = NoWrites /\ o.s.stmtTx = None
         /\ o.res = "Ok" => o.db = Install(Held(s), db)
         /\ o.res # "Ok" => o.db = db
<1>1. s.exec # None /\ s.stmtTx = None /\ Held(s) = s.exec.writes
  BY DEF GoodSession, Held
<1>2. \/ o = Err(Take(s), db)
      \/ o = Ok(Take(s), Install(s.exec.writes, db))
  BY <1>1 DEF CommitSession, CommitOutcomes
<1> QED BY <1>1, <1>2, TakePending, ResultFields

(* Handles take nothing and add nothing, and the write handle marks.       *)
LEMMA HandleTxPending ==
  ASSUME NEW s, GoodSession(s), WritesMarked(s), NEW db \in State
  PROVE  /\ Held(HandleTx(s, db)) = Held(s) /\ WritesMarked(HandleTx(s, db))
         /\ HandleTx(s, db).stmtWrote = s.stmtWrote
<1>1. CASE s.open \/ s.stmtTx # None
  BY <1>1 DEF HandleTx
<1>2. CASE ~s.open /\ s.stmtTx = None
  <2> DEFINE n == NewTransaction(DefaultLevel, db)
             h == [s EXCEPT !.stmtTx = n]
  <2>1. n # None /\ n.writes = NoWrites
    BY SessionConstants, NewTransactionType, TransactionIsSome DEF NewTransaction
  <2> HIDE DEF n
  <2>2. h.exec = None /\ h.stmtTx = n /\ s.exec = None /\ h.stmtWrote = s.stmtWrote
    BY <1>2 DEF GoodSession, SessionState
  <2>3. HandleTx(s, db) = h
    BY <1>2 DEF HandleTx, n
  <2> HIDE DEF h
  <2> QED BY <1>2, <2>1, <2>2, <2>3 DEF Held, WritesMarked
<1> QED BY <1>1, <1>2

LEMMA ReadHandlePending ==
  ASSUME NEW s, GoodSession(s), WritesMarked(s), NEW t \in Table, NEW db \in State
  PROVE  /\ Held(ReadHandle(s, t, db)) = Held(s)
         /\ WritesMarked(ReadHandle(s, t, db))
<1> DEFINE h == HandleTx(s, db)
           tx == TxIn(h, HandleSlot(h))
           n == ReadHandle(s, t, db)
<1>1. /\ GoodSession(h) /\ Held(h) = Held(s) /\ WritesMarked(h)
  BY HandleTxGood, HandleTxPending
<1>2. CASE s.tables[t] # "none"
  BY <1>2 DEF ReadHandle
<1>3. CASE s.tables[t] = "none"
  <2> DEFINE viewed == [h EXCEPT !.view = IF h.view = None THEN Sees(tx, db) ELSE @]
             m == IF tx.level = "RC" THEN viewed ELSE h
  <2>1. n = [m EXCEPT !.tables = [m.tables EXCEPT ![t] = HandleSlot(h)]]
    BY <1>3 DEF ReadHandle
  <2> HIDE DEF h, tx, n
  <2>2. m.exec = h.exec /\ m.stmtTx = h.stmtTx /\ m.stmtWrote = h.stmtWrote
        /\ DOMAIN m = DOMAIN h
    BY <1>1 DEF GoodSession, SessionState
  <2> HIDE DEF m
  <2>3. n.exec = h.exec /\ n.stmtTx = h.stmtTx /\ n.stmtWrote = h.stmtWrote
    BY <1>1, <2>1, <2>2 DEF GoodSession, SessionState
  <2>4. Held(n) = Held(h) /\ WritesMarked(n)
    BY <1>1, <2>3 DEF Held, WritesMarked
  <2> QED BY <1>1, <2>4 DEF n
<1> QED BY <1>2, <1>3

LEMMA WriteHandlePending ==
  ASSUME NEW s, GoodSession(s), WritesMarked(s), NEW t \in Table, NEW db \in State
  PROVE  /\ Held(WriteHandle(s, t, db)) = Held(s)
         /\ WritesMarked(WriteHandle(s, t, db))
         /\ ~s.open => WriteHandle(s, t, db).stmtWrote
<1> DEFINE w == [s EXCEPT !.stmtWrote = s.stmtWrote \/ ~s.open]
           h == HandleTx(w, db)
           n == WriteHandle(s, t, db)
<1>1. /\ GoodSession(w) /\ w.exec = s.exec /\ w.stmtTx = s.stmtTx
      /\ w.stmtWrote <=> (s.stmtWrote \/ ~s.open)
  BY DEF GoodSession, SessionState, TxIn
<1>2. Held(w) = Held(s) /\ WritesMarked(w)
  BY <1>1 DEF Held, WritesMarked
<1>3. CASE s.writeTables[t] # "none"
  <2>1. n = w
    BY <1>3 DEF WriteHandle
  <2> QED BY <1>1, <1>2, <2>1
<1>4. CASE s.writeTables[t] = "none"
  <2>1. n = [h EXCEPT !.writeTables = [h.writeTables EXCEPT ![t] = HandleSlot(h)]]
    BY <1>4 DEF WriteHandle
  <2> HIDE DEF w, n
  <2>2. /\ GoodSession(h) /\ Held(h) = Held(w) /\ WritesMarked(h)
        /\ h.stmtWrote = w.stmtWrote
    BY <1>1, <1>2, HandleTxGood, HandleTxPending
  <2> HIDE DEF h
  <2>3. n.exec = h.exec /\ n.stmtTx = h.stmtTx /\ n.stmtWrote = h.stmtWrote
    BY <2>1, <2>2 DEF GoodSession, SessionState
  <2>4. Held(n) = Held(h) /\ WritesMarked(n)
    BY <2>2, <2>3 DEF Held, WritesMarked
  <2> QED BY <1>1, <1>2, <2>2, <2>3, <2>4 DEF n
<1> QED BY <1>3, <1>4

LEMMA PutInPending ==
  ASSUME NEW s, GoodSession(s), WritesMarked(s), NEW slot \in {"exec", "stmtTx"},
         TxIn(s, slot) \in Transaction, slot = "stmtTx" => s.stmtWrote,
         NEW r \in Row, NEW v \in Val
  PROVE  /\ Held(PutIn(s, slot, r, v)) = [Held(s) EXCEPT ![r] = v]
         /\ WritesMarked(PutIn(s, slot, r, v))
<1> DEFINE n == PutIn(s, slot, r, v)
           p == Put(TxIn(s, slot), r, v)
<1>1. p # None /\ p.writes = [TxIn(s, slot).writes EXCEPT ![r] = v]
  BY PutType, TransactionIsSome DEF Put, Transaction
<1>2. TxIn(s, slot) # None
  BY TransactionIsSome
<1> HIDE DEF p
<1>3. CASE slot = "exec"
  <2>1. s.exec # None /\ s.stmtTx = None
    BY <1>2, <1>3 DEF GoodSession, TxIn
  <2>2. n = [s EXCEPT !.exec = p]
    BY <1>3 DEF PutIn, p, TxIn
  <2>3. n.exec = p /\ n.stmtTx = None
    BY <2>1, <2>2 DEF GoodSession, SessionState
  <2> HIDE DEF n
  <2>4. Held(n) = [Held(s) EXCEPT ![r] = v] /\ WritesMarked(n)
    BY <1>1, <1>3, <2>1, <2>3 DEF Held, WritesMarked, TxIn
  <2> QED BY <2>4 DEF n
<1>4. CASE slot = "stmtTx"
  <2>1. s.stmtTx # None /\ s.exec = None
    BY <1>2, <1>4 DEF GoodSession, TxIn
  <2>2. n = [s EXCEPT !.stmtTx = p]
    BY <1>4 DEF PutIn, p, TxIn
  <2>3. n.exec = None /\ n.stmtTx = p /\ n.stmtWrote = s.stmtWrote
    BY <2>1, <2>2 DEF GoodSession, SessionState
  <2> HIDE DEF n
  <2>4. Held(n) = [Held(s) EXCEPT ![r] = v] /\ WritesMarked(n)
    BY <1>1, <1>4, <2>1, <2>3 DEF Held, WritesMarked, TxIn
  <2> QED BY <2>4 DEF n
<1> QED BY <1>3, <1>4

-----------------------------------------------------------------------------
(* The actions.                                                            *)

LEMMA MarkMoves ==
  ASSUME IInv, MarkInv, NEW c \in Conn, NEW s, sess' = [sess EXCEPT ![c] = s],
         WritesMarked(s)
  PROVE  MarkInv'
BY DEF MarkInv, IInv, Typed

(* What a connection's step starts from.                                   *)
LEMMA AtStep ==
  ASSUME IInv, MarkInv, NEW c \in Conn
  PROVE  /\ GoodSession(sess[c]) /\ WritesMarked(sess[c]) /\ InStep(c)
         /\ store \in State /\ sess = [sess EXCEPT ![c] = sess[c]]
         /\ explicit \in [Conn -> BOOLEAN] /\ reply \in [Conn -> Reply]
         /\ explicit[c] \in BOOLEAN /\ reply[c] \in Reply
         /\ sess[c].stmtTx = None /\ ~sess[c].open => Held(sess[c]) = NoWrites
BY RestHoldsNothing DEF IInv, Typed, MarkInv, GoodSession

LEMMA BeginTrxSimulates ==
  ASSUME IInv, MarkInv, NEW c \in Conn, BeginTrx(c)
  PROVE  Simulates /\ MarkInv'
<1>1. /\ pc[c] = "idle" /\ ~explicit[c] /\ explicit' = [explicit EXCEPT ![c] = TRUE]
      /\ reply' = [reply EXCEPT ![c] = "none"] /\ UNCHANGED <<store, sess>>
  BY DEF BeginTrx, Tell
<1>2. sess' = [sess EXCEPT ![c] = sess[c]] /\ Held(sess[c]) = NoWrites
  BY <1>1, AtStep DEF InStep, AtRest
<1>3. MarkInv'
  BY <1>2, AtStep, MarkMoves
<1> QED BY <1>1, <1>2, <1>3, Requests

LEMMA StartConsistentSnapshotSimulates ==
  ASSUME IInv, MarkInv, NEW c \in Conn, StartConsistentSnapshot(c)
  PROVE  Simulates /\ MarkInv'
<1>1. PICK o \in BeginSession(sess[c], "SI", store) :
        sess' = [sess EXCEPT ![c] = o.s] /\ store' = o.db
  BY DEF StartConsistentSnapshot, ContextBegin
<1>2. /\ pc[c] = "idle" /\ ~explicit[c] /\ explicit' = [explicit EXCEPT ![c] = TRUE]
      /\ reply' = [reply EXCEPT ![c] = "none"]
  BY DEF StartConsistentSnapshot, Tell
<1>3. ~sess[c].open /\ Held(sess[c]) = NoWrites /\ "SI" \in Level
  BY <1>2, AtStep DEF InStep, AtRest, Level
<1>4. o.db = store /\ Held(o.s) = NoWrites /\ o.s.stmtTx = None
  BY <1>1, <1>3, AtStep, BeginSessionPending
<1>5. MarkInv'
  BY <1>1, <1>4, MarkMoves DEF WritesMarked
<1> QED BY <1>1, <1>2, <1>3, <1>4, <1>5, Requests

LEMMA StartStatementSimulates ==
  ASSUME IInv, MarkInv, NEW c \in Conn, StartStatement(c)
  PROVE  Simulates /\ MarkInv'
<1>1. /\ pc[c] = "idle" /\ reply' = [reply EXCEPT ![c] = "none"] /\ UNCHANGED explicit
  BY DEF StartStatement, Tell
<1>2. CASE explicit[c] /\ ~hasTx[c]
  <2>1. PICK l \in Level : ContextBegin(c, l)
    BY <1>2 DEF StartStatement
  <2>2. PICK o \in BeginSession(sess[c], l, store) :
          sess' = [sess EXCEPT ![c] = o.s] /\ store' = o.db
    BY <2>1 DEF ContextBegin
  <2>3. ~sess[c].open /\ Held(sess[c]) = NoWrites
    BY <1>1, <1>2, AtStep DEF InStep, AtRest
  <2>4. o.db = store /\ Held(o.s) = NoWrites /\ o.s.stmtTx = None
    BY <2>2, <2>3, AtStep, BeginSessionPending
  <2>5. MarkInv'
    BY <2>2, <2>4, MarkMoves DEF WritesMarked
  <2> QED BY <1>1, <2>2, <2>3, <2>4, <2>5, Requests
<1>3. CASE ~(explicit[c] /\ ~hasTx[c])
  <2>1. UNCHANGED store /\ sess' = [sess EXCEPT ![c] = sess[c]]
    BY <1>3, AtStep DEF StartStatement
  <2>2. MarkInv'
    BY <2>1, AtStep, MarkMoves
  <2> QED BY <1>1, <2>1, <2>2, Requests
<1> QED BY <1>2, <1>3

(* The callbacks.  ends: the explicit flag after it, which a statement     *)
(* leaves alone and a COMMIT or ROLLBACK clears.                           *)
LEMMA CommitCallbackSimulates ==
  ASSUME IInv, MarkInv, NEW c \in Conn, NEW all \in BOOLEAN, pc[c] # "bulk",
         CommitCallback(c, all),
         all => pc[c] = "idle" /\ explicit' = [explicit EXCEPT ![c] = FALSE],
         ~all => pc[c] # "idle" /\ UNCHANGED explicit
  PROVE  Simulates /\ MarkInv'
<1>1. PICK o \in EndStatement(sess[c], TRUE, store) :
        IF o.res = "Ok" /\ RealEnd(c, all) /\ hasTx[c]
          THEN \E p \in CommitSession(o.s, o.db) :
                 /\ sess' = [sess EXCEPT ![c] = p.s]
                 /\ store' = p.db
                 /\ Tell(c, IF p.res = "Ok" THEN "done" ELSE "undone")
          ELSE /\ sess' = [sess EXCEPT ![c] = o.s]
               /\ store' = o.db
               /\ Tell(c, IF o.res = "Ok" THEN "done" ELSE "undone")
  BY DEF CommitCallback
<1>2. o \in EndStatement(sess[c], TRUE, store)
  BY <1>1
<1>3. /\ GoodSession(o.s) /\ o.s.open = sess[c].open /\ o.res \in {"Ok", "Err"}
      /\ sess[c].stmtTx = None => o.res = "Ok"
  BY <1>2, AtStep, EndStatementGood, Zenon
<1>4. /\ o.s.stmtTx = None
      /\ sess[c].open => Held(o.s) = Held(sess[c]) /\ o.db = store
      /\ ~sess[c].open => Held(o.s) = NoWrites
      /\ ~sess[c].open /\ o.res = "Ok" => o.db = Install(Held(sess[c]), store)
      /\ o.res # "Ok" => o.db = store
  <2>1. GoodSession(sess[c]) /\ WritesMarked(sess[c]) /\ store \in State
    BY AtStep
  <2>2. EndLeaves(sess[c], TRUE, store, o)
    BY <1>2, <2>1, EndStatementPending, Zenon
  <2> QED BY <2>2 DEF EndLeaves
<1>5. /\ sess[c].open <=> hasTx[c]
      /\ RealEnd(c, all) => explicit' = [explicit EXCEPT ![c] = FALSE]
      /\ ~hasTx[c] => explicit' = [explicit EXCEPT ![c] = FALSE]
      /\ ~RealEnd(c, all) => explicit[c] /\ UNCHANGED explicit
      /\ sess[c].open => o.res = "Ok"
  BY <1>3, AtStep DEF InStep, RealEnd, GoodSession
<1>6. CASE hasTx[c] /\ RealEnd(c, all)
  <2>1. PICK p \in CommitSession(o.s, o.db) :
          /\ sess' = [sess EXCEPT ![c] = p.s] /\ store' = p.db
          /\ Tell(c, IF p.res = "Ok" THEN "done" ELSE "undone")
    BY <1>1, <1>5, <1>6
  <2>2. /\ Held(p.s) = NoWrites /\ p.s.stmtTx = None
        /\ p.res = "Ok" => p.db = Install(Held(sess[c]), store)
        /\ p.res # "Ok" => p.db = store
    BY <1>3, <1>4, <1>5, <1>6, <2>1, AtStep, CommitSessionPending
  <2>3. MarkInv'
    BY <2>1, <2>2, MarkMoves DEF WritesMarked
  <2>4. CASE p.res = "Ok"
    BY <1>5, <1>6, <2>1, <2>2, <2>3, <2>4, Commits DEF Tell
  <2>5. CASE p.res # "Ok"
    BY <1>5, <1>6, <2>1, <2>2, <2>3, <2>5, Aborts DEF Tell
  <2> QED BY <2>4, <2>5
<1>7. CASE hasTx[c] /\ ~RealEnd(c, all)
  <2>1. sess' = [sess EXCEPT ![c] = o.s] /\ store' = store /\ Tell(c, "done")
    BY <1>1, <1>4, <1>5, <1>7
  <2>2. MarkInv'
    BY <1>4, <2>1, MarkMoves DEF WritesMarked
  <2> QED BY <1>4, <1>5, <1>7, <2>1, <2>2, EndsStatement DEF Tell, Reply
<1>8. CASE ~hasTx[c]
  <2>1. /\ sess' = [sess EXCEPT ![c] = o.s] /\ store' = o.db
        /\ Tell(c, IF o.res = "Ok" THEN "done" ELSE "undone")
    BY <1>1, <1>8
  <2>2. MarkInv'
    BY <1>4, <2>1, MarkMoves DEF WritesMarked
  <2>3. CASE o.res = "Ok"
    BY <1>4, <1>5, <1>8, <2>1, <2>2, <2>3, Commits DEF Tell
  <2>4. CASE o.res # "Ok"
    BY <1>4, <1>5, <1>8, <2>1, <2>2, <2>4, Aborts DEF Tell
  <2> QED BY <2>3, <2>4
<1> QED BY <1>6, <1>7, <1>8

LEMMA RollbackCallbackSimulates ==
  ASSUME IInv, MarkInv, NEW c \in Conn, NEW all \in BOOLEAN, pc[c] # "bulk",
         RollbackCallback(c, all),
         all => pc[c] = "idle" /\ explicit' = [explicit EXCEPT ![c] = FALSE],
         ~all => pc[c] # "idle" /\ UNCHANGED explicit
  PROVE  Simulates /\ MarkInv'
<1>1. PICK o \in EndStatement(sess[c], FALSE, store) :
        /\ Tell(c, "undone") /\ store' = o.db
        /\ sess' = [sess EXCEPT ![c] = IF RealEnd(c, all) /\ hasTx[c] THEN Take(o.s)
                                                                     ELSE o.s]
  BY DEF RollbackCallback, RollbackSession
<1>2. o \in EndStatement(sess[c], FALSE, store)
  BY <1>1
<1>3. GoodSession(o.s) /\ o.s.open = sess[c].open
  BY <1>2, AtStep, EndStatementGood, Zenon
<1>4. /\ o.s.stmtTx = None /\ o.db = store
      /\ sess[c].open => Held(o.s) = Held(sess[c])
      /\ ~sess[c].open => Held(o.s) = NoWrites
  <2>1. GoodSession(sess[c]) /\ WritesMarked(sess[c]) /\ store \in State
    BY AtStep
  <2>2. EndLeaves(sess[c], FALSE, store, o)
    BY <1>2, <2>1, EndStatementPending, Zenon
  <2> QED BY <2>2 DEF EndLeaves
<1>5. /\ sess[c].open <=> hasTx[c]
      /\ RealEnd(c, all) \/ ~hasTx[c] => explicit' = [explicit EXCEPT ![c] = FALSE]
      /\ ~RealEnd(c, all) => explicit[c] /\ UNCHANGED explicit
  BY <1>3, AtStep DEF InStep, RealEnd, GoodSession
<1>6. CASE hasTx[c] /\ RealEnd(c, all)
  <2>1. sess' = [sess EXCEPT ![c] = Take(o.s)]
    BY <1>1, <1>6
  <2>2. Held(Take(o.s)) = NoWrites /\ Take(o.s).stmtTx = None
    BY <1>3, <1>4, TakePending
  <2>3. MarkInv'
    BY <2>1, <2>2, MarkMoves DEF WritesMarked
  <2> QED BY <1>1, <1>4, <1>5, <1>6, <2>1, <2>2, <2>3, Aborts DEF Tell
<1>7. CASE ~(hasTx[c] /\ RealEnd(c, all))
  <2>1. sess' = [sess EXCEPT ![c] = o.s]
    BY <1>1, <1>7
  <2>2. MarkInv'
    BY <1>4, <2>1, MarkMoves DEF WritesMarked
  <2>3. CASE hasTx[c]
    BY <1>1, <1>4, <1>5, <1>7, <2>1, <2>2, <2>3, EndsStatement DEF Tell, Reply
  <2>4. CASE ~hasTx[c]
    BY <1>1, <1>4, <1>5, <2>1, <2>2, <2>4, Aborts DEF Tell
  <2> QED BY <2>3, <2>4
<1> QED BY <1>6, <1>7

LEMMA CloseConnectionSimulates ==
  ASSUME IInv, MarkInv, NEW c \in Conn, CloseConnection(c)
  PROVE  Simulates /\ MarkInv'
<1>1. /\ sess' = [sess EXCEPT ![c] = NewSession] /\ UNCHANGED store
      /\ explicit' = [explicit EXCEPT ![c] = FALSE]
      /\ reply' = [reply EXCEPT ![c] = "undone"]
  BY DEF CloseConnection, Tell
<1>2. Held(NewSession) = NoWrites /\ WritesMarked(NewSession)
  BY DEF NewSession, Held, WritesMarked
<1> QED BY <1>1, <1>2, Aborts, MarkMoves

(* The steps of a statement that only read.                                *)
LEMMA DirectReadSimulates ==
  ASSUME IInv, MarkInv, NEW c \in Conn, NEW r \in Row, DirectRead(c, r)
  PROVE  Simulates /\ MarkInv'
<1> DEFINE n == TableForRead(sess[c], TableOf[r], store)
<1>1. sess' = [sess EXCEPT ![c] = n] /\ UNCHANGED <<store, explicit, reply>>
  BY DEF DirectRead
<1>2. TableOf[r] \in Table
  BY SessionConstants
<1>3. Held(n) = Held(sess[c]) /\ WritesMarked(n)
  BY <1>2, AtStep, ReadHandlePending DEF TableForRead
<1> HIDE DEF n
<1> QED BY <1>1, <1>3, Stutters, MarkMoves

LEMMA NoSessionStepSimulates ==
  ASSUME IInv, MarkInv, NEW c \in Conn, UNCHANGED <<store, sess, explicit, reply>>
  PROVE  Simulates /\ MarkInv'
<1>1. sess' = [sess EXCEPT ![c] = sess[c]]
  BY AtStep
<1> QED BY <1>1, AtStep, Stutters, MarkMoves

(* The steps that write.                                                   *)
LEMMA DirectWriteSimulates ==
  ASSUME IInv, MarkInv, NEW c \in Conn, NEW r \in Row, NEW v \in Val, DirectWrite(c, r, v)
  PROVE  Simulates /\ MarkInv'
<1> DEFINE t == TableOf[r]
           w == WriteHandle(sess[c], t, store)
           slot == w.writeTables[t]
           n == PutIn(w, slot, r, v)
<1>1. /\ sess' = [sess EXCEPT ![c] = n] /\ UNCHANGED <<store, explicit, reply>>
      /\ \A d \in Conn \ {c} : ~HoldsRow(d, r)
  BY DEF DirectWrite, MayPut
<1>2. t \in Table
  BY SessionConstants
<1> HIDE DEF t
<1>3. /\ GoodSession(w) /\ w.open = sess[c].open /\ slot \in {"exec", "stmtTx"}
      /\ TxIn(w, slot) \in Transaction
  BY <1>2, AtStep, WriteHandleGood
<1>4. /\ Held(w) = Held(sess[c]) /\ WritesMarked(w)
      /\ ~sess[c].open => w.stmtWrote
  BY <1>2, AtStep, WriteHandlePending
<1> HIDE DEF w, slot
<1>5. slot = "stmtTx" => w.stmtWrote
  BY <1>3, <1>4, TransactionIsSome DEF GoodSession, TxIn
<1>6. Held(n) = [Held(sess[c]) EXCEPT ![r] = v] /\ WritesMarked(n)
  BY <1>3, <1>4, <1>5, PutInPending
<1> HIDE DEF n
<1> QED BY <1>1, <1>6, WritesRow, MarkMoves

LEMMA RunWriteSimulates ==
  ASSUME IInv, MarkInv, NEW c \in Conn, pc[c] # "idle", NEW w, GoodSession(w), WritesMarked(w),
         w.open = sess[c].open, Held(w) = Held(sess[c]),
         NEW r \in Row, NEW v \in Val, RunWrite(c, w, r, v),
         UNCHANGED <<explicit, reply>>
  PROVE  Simulates /\ MarkInv'
<1>1. CASE w.open
  <2> DEFINE n == PutIn(w, "exec", r, v)
  <2>1. /\ sess' = [sess EXCEPT ![c] = n] /\ UNCHANGED store
        /\ \A d \in Conn \ {c} : ~HoldsRow(d, r)
    BY <1>1 DEF RunWrite, MayPut
  <2>2. TxIn(w, "exec") \in Transaction
    BY <1>1 DEF GoodSession, SessionState, TxIn
  <2>3. Held(n) = [Held(sess[c]) EXCEPT ![r] = v] /\ WritesMarked(n)
    BY <2>2, PutInPending
  <2> HIDE DEF n
  <2> QED BY <2>1, <2>3, WritesRow, MarkMoves
<1>2. CASE ~w.open
  <2>1. /\ sess' = [sess EXCEPT ![c] = w] /\ store' = [store EXCEPT ![r] = v]
        /\ \A d \in Conn : ~HoldsRow(d, r)
    BY <1>2 DEF RunWrite
  <2>2. ~explicit[c]
    BY <1>2, AtStep DEF InStep
  <2> QED BY <2>1, <2>2, WritesAlone, MarkMoves
<1> QED BY <1>1, <1>2

LEMMA RowSqlWriteSimulates ==
  ASSUME IInv, MarkInv, NEW c \in Conn, NEW r \in Row, NEW v \in Val, RowSqlWrite(c, r, v)
  PROVE  Simulates /\ MarkInv'
<1> DEFINE w == WriteHandle(sess[c], TableOf[r], store)
<1>1. pc[c] = "stmt" /\ RunWrite(c, w, r, v) /\ UNCHANGED <<explicit, reply>>
  BY DEF RowSqlWrite
<1>2. TableOf[r] \in Table
  BY SessionConstants
<1>3. GoodSession(w) /\ w.open = sess[c].open /\ Held(w) = Held(sess[c]) /\ WritesMarked(w)
  BY <1>2, AtStep, WriteHandleGood, WriteHandlePending
<1> HIDE DEF w
<1> QED BY <1>1, <1>3, RunWriteSimulates

LEMMA WriteFailsSimulates ==
  ASSUME IInv, MarkInv, NEW c \in Conn, NEW t \in Table, WriteFails(c, t)
  PROVE  Simulates /\ MarkInv'
<1> DEFINE w == WriteHandle(sess[c], t, store)
<1>1. sess' = [sess EXCEPT ![c] = w] /\ UNCHANGED <<store, explicit, reply>>
  BY DEF WriteFails
<1>2. Held(w) = Held(sess[c]) /\ WritesMarked(w)
  BY AtStep, WriteHandlePending
<1> HIDE DEF w
<1> QED BY <1>1, <1>2, Stutters, MarkMoves

LEMMA DirectModifySimulates ==
  ASSUME IInv, MarkInv, NEW c \in Conn, NEW r \in Row, NEW v \in Val, DirectModify(c, r, v)
  PROVE  Simulates /\ MarkInv'
<1>1. pc[c] = "stmt" /\ RunWrite(c, sess[c], r, v) /\ UNCHANGED <<explicit, reply>>
  BY DEF DirectModify
<1> QED BY <1>1, AtStep, RunWriteSimulates

(* The buffer's own transaction, and the chunks'.  Neither is ever inside  *)
(* an explicit transaction.                                                *)
LEMMA BulkInsertBeginsSimulates ==
  ASSUME IInv, MarkInv, NEW c \in Conn, NEW t \in Table, BulkInsertBegins(c, t)
  PROVE  Simulates /\ MarkInv'
<1> DEFINE w == WriteHandle(sess[c], t, store)
<1>1. PICK o \in BeginSession(w, DefaultLevel, store) :
        sess' = [sess EXCEPT ![c] = o.s] /\ store' = o.db
  BY DEF BulkInsertBegins
<1>2. ~sess[c].open /\ ~sess[c].stmtWrote /\ UNCHANGED <<explicit, reply>>
  BY DEF BulkInsertBegins
<1>3. Held(sess[c]) = NoWrites
  BY <1>2, AtStep DEF WritesMarked, Held, GoodSession
<1>4. GoodSession(w) /\ ~w.open /\ Held(w) = NoWrites /\ WritesMarked(w)
  BY <1>2, <1>3, AtStep, WriteHandleGood, WriteHandlePending
<1> HIDE DEF w
<1>5. o.db = store /\ Held(o.s) = NoWrites /\ o.s.stmtTx = None
  BY <1>1, <1>4, AtStep, SessionConstants, BeginSessionPending
<1>6. MarkInv'
  BY <1>1, <1>5, MarkMoves DEF WritesMarked
<1> QED BY <1>1, <1>2, <1>3, <1>5, <1>6, Stutters

LEMMA BulkInsertRowSimulates ==
  ASSUME IInv, MarkInv, NEW c \in Conn, NEW r \in Row, NEW v \in Val, BulkInsertRow(c, r, v)
  PROVE  Simulates /\ MarkInv'
<1>1. pc[c] = "bulk" /\ RunWrite(c, sess[c], r, v) /\ UNCHANGED <<explicit, reply>>
  BY DEF BulkInsertRow
<1> QED BY <1>1, AtStep, RunWriteSimulates

LEMMA BulkInsertFailsSimulates ==
  ASSUME IInv, MarkInv, NEW c \in Conn, BulkInsertFails(c)
  PROVE  Simulates /\ MarkInv'
<1>1. /\ pc[c] = "bulk" /\ sess' = [sess EXCEPT ![c] = Take(sess[c])]
      /\ UNCHANGED <<store, explicit, reply>>
  BY DEF BulkInsertFails, RollbackSession
<1>2. sess[c].stmtTx = None /\ ~explicit[c]
  BY <1>1, AtStep DEF InStep, GoodSession
<1>3. Held(Take(sess[c])) = NoWrites /\ Take(sess[c]).stmtTx = None
  BY <1>2, AtStep, TakePending
<1>4. /\ explicit' = [explicit EXCEPT ![c] = FALSE]
      /\ reply' = [reply EXCEPT ![c] = reply[c]]
  BY <1>1, <1>2, AtStep
<1>5. MarkInv'
  BY <1>1, <1>3, MarkMoves DEF WritesMarked
<1> QED BY <1>1, <1>3, <1>4, <1>5, Aborts

LEMMA BulkInsertCommitsSimulates ==
  ASSUME IInv, MarkInv, NEW c \in Conn, BulkInsertCommits(c)
  PROVE  Simulates /\ MarkInv'
<1>1. PICK o \in CommitSession(sess[c], store) :
        sess' = [sess EXCEPT ![c] = o.s] /\ store' = o.db
  BY DEF BulkInsertCommits
<1>2. pc[c] = "bulk" /\ UNCHANGED <<explicit, reply>>
  BY DEF BulkInsertCommits
<1>3. sess[c].open /\ ~explicit[c]
  BY <1>2, AtStep DEF InStep
<1>4. /\ Held(o.s) = NoWrites /\ o.s.stmtTx = None
      /\ o.res = "Ok" => o.db = Install(Held(sess[c]), store)
      /\ o.res # "Ok" => o.db = store
  BY <1>1, <1>3, AtStep, CommitSessionPending
<1>5. /\ explicit' = [explicit EXCEPT ![c] = FALSE]
      /\ reply' = [reply EXCEPT ![c] = reply[c]]
  BY <1>2, <1>3, AtStep
<1>6. MarkInv'
  BY <1>1, <1>4, MarkMoves DEF WritesMarked
<1>7. CASE o.res = "Ok"
  BY <1>1, <1>4, <1>5, <1>6, <1>7, Commits
<1>8. CASE o.res # "Ok"
  BY <1>1, <1>4, <1>5, <1>6, <1>8, Aborts
<1> QED BY <1>7, <1>8

LEMMA ChunkOpensTxSimulates ==
  ASSUME IInv, MarkInv, NEW c \in Conn, ChunkOpensTx(c)
  PROVE  Simulates /\ MarkInv'
<1>1. PICK o \in BeginSession(sess[c], "RC", store) :
        sess' = [sess EXCEPT ![c] = o.s] /\ store' = o.db
  BY DEF ChunkOpensTx, ContextBegin
<1>2. pc[c] = "stmt" /\ ~hasTx[c] /\ ~sess[c].stmtWrote /\ UNCHANGED <<explicit, reply>>
  BY DEF ChunkOpensTx
<1>3. ~sess[c].open /\ "RC" \in Level
  BY <1>2, AtStep DEF InStep, Level
<1>4. Held(sess[c]) = NoWrites
  BY <1>2, <1>3, AtStep DEF WritesMarked, Held, GoodSession
<1>5. o.db = store /\ Held(o.s) = NoWrites /\ o.s.stmtTx = None
  BY <1>1, <1>3, <1>4, AtStep, BeginSessionPending
<1>6. MarkInv'
  BY <1>1, <1>5, MarkMoves DEF WritesMarked
<1> QED BY <1>1, <1>2, <1>4, <1>5, <1>6, Stutters

LEMMA ChunkFailsSimulates ==
  ASSUME IInv, MarkInv, NEW c \in Conn, ChunkFails(c)
  PROVE  Simulates /\ MarkInv'
<1>1. /\ pc[c] = "stmt" /\ bulkOwns[c] /\ hasTx[c]
      /\ sess' = [sess EXCEPT ![c] = Take(sess[c])]
      /\ UNCHANGED <<store, explicit, reply>>
  BY DEF ChunkFails, RollbackSession
<1>2. sess[c].stmtTx = None /\ ~explicit[c]
  BY <1>1, AtStep DEF InStep, GoodSession
<1>3. Held(Take(sess[c])) = NoWrites /\ Take(sess[c]).stmtTx = None
  BY <1>2, AtStep, TakePending
<1>4. /\ explicit' = [explicit EXCEPT ![c] = FALSE]
      /\ reply' = [reply EXCEPT ![c] = reply[c]]
  BY <1>1, <1>2, AtStep
<1>5. MarkInv'
  BY <1>1, <1>3, MarkMoves DEF WritesMarked
<1> QED BY <1>1, <1>3, <1>4, <1>5, Aborts

-----------------------------------------------------------------------------
(* The theorems.                                                           *)

LEMMA InitSimulates == Init => Abstract!Init /\ MarkInv
<1> SUFFICES ASSUME Init PROVE Abstract!Init /\ MarkInv
  OBVIOUS
<1>1. ASSUME NEW c \in Conn
      PROVE  Held(sess[c]) = NoWrites /\ WritesMarked(sess[c])
  BY DEF Init, NewSession, Held, WritesMarked
<1>2. Pending = [c \in Conn |-> NoWrites]
  <2>1. Pending = [c \in Conn |-> Held(sess[c])]
    BY DEF Pending, Held
  <2> QED BY <1>1, <2>1
<1>3. Abstract!Init
  BY <1>2 DEF Init, Abstract!Init, Abstract!NothingPending, NoWrites, State
<1> QED BY <1>1, <1>3 DEF MarkInv

LEMMA StepSimulates == IInv /\ MarkInv /\ [Next]_vars => Simulates /\ MarkInv'
<1> SUFFICES ASSUME IInv, MarkInv, [Next]_vars PROVE Simulates /\ MarkInv'
  OBVIOUS
<1>1. CASE UNCHANGED vars
  BY <1>1 DEF MarkInv, WritesMarked, vars, Simulates, Abstract!vars, Pending
<1>2. ASSUME NEW c \in Conn, TransactionStep(c) PROVE Simulates /\ MarkInv'
  <2>1. CASE BeginTrx(c)
    BY <2>1, BeginTrxSimulates
  <2>2. CASE StartConsistentSnapshot(c)
    BY <2>2, StartConsistentSnapshotSimulates
  <2>3. CASE StartStatement(c)
    BY <2>3, StartStatementSimulates
  <2>4. CASE StatementCommits(c)
    <3>1. pc[c] \notin {"idle", "bulk"} /\ CommitCallback(c, FALSE) /\ UNCHANGED explicit
      BY <2>4 DEF StatementCommits
    <3> QED BY <3>1, CommitCallbackSimulates
  <2>5. CASE StatementRollsBack(c)
    <3>1. pc[c] \notin {"idle", "bulk"} /\ RollbackCallback(c, FALSE) /\ UNCHANGED explicit
      BY <2>5 DEF StatementRollsBack
    <3> QED BY <3>1, RollbackCallbackSimulates
  <2>6. CASE CommitTrx(c)
    BY <2>6, CommitCallbackSimulates DEF CommitTrx
  <2>7. CASE RollbackTrx(c)
    BY <2>7, RollbackCallbackSimulates DEF RollbackTrx
  <2>8. CASE CloseConnection(c)
    BY <2>8, CloseConnectionSimulates
  <2> QED BY <1>2, <2>1, <2>2, <2>3, <2>4, <2>5, <2>6, <2>7, <2>8
      DEF TransactionStep
<1>3. ASSUME NEW c \in Conn, StatementStep(c) PROVE Simulates /\ MarkInv'
  <2>1. CASE \E r \in Row : DirectRead(c, r)
    BY <2>1, DirectReadSimulates
  <2>2. CASE (\E r \in Row : Query(c, r)) \/ DirectModifyFails(c)
    BY <2>2, NoSessionStepSimulates DEF Query, DirectModifyFails
  <2>3. CASE \E r \in Row, v \in Val : DirectWrite(c, r, v) \/ RowSqlWrite(c, r, v)
    BY <2>3, DirectWriteSimulates, RowSqlWriteSimulates
  <2>4. CASE \E r \in Row, v \in Val : DirectModify(c, r, v) \/ BulkInsertRow(c, r, v)
    BY <2>4, DirectModifySimulates, BulkInsertRowSimulates
  <2>5. CASE \E t \in Table : WriteFails(c, t) \/ BulkInsertBegins(c, t)
    BY <2>5, WriteFailsSimulates, BulkInsertBeginsSimulates
  <2>6. CASE BulkInsertFails(c)
    BY <2>6, BulkInsertFailsSimulates
  <2>7. CASE BulkInsertCommits(c)
    BY <2>7, BulkInsertCommitsSimulates
  <2>8. CASE ChunkOpensTx(c)
    BY <2>8, ChunkOpensTxSimulates
  <2>9. CASE ChunkFails(c)
    BY <2>9, ChunkFailsSimulates
  <2> QED BY <1>3, <2>1, <2>2, <2>3, <2>4, <2>5, <2>6, <2>7, <2>8, <2>9
      DEF StatementStep
<1> QED BY <1>1, <1>2, <1>3 DEF Next

(* Session, ThdContext and the handlerton's callbacks together keep the    *)
(* promise of the abstract store: a transaction's writes become visible    *)
(* together at its end or never, the client is told which, none is lost on *)
(* the way, and an explicit transaction is never committed in part.        *)
THEOREM SessionImplementsTxnStore == Spec => ImplementsTxnStore
<1>1. IInv /\ MarkInv /\ [Next]_vars => [Abstract!Next]_Abstract!vars
  BY StepSimulates DEF Simulates
<1> QED BY <1>1, InitInv, StepInv, InitSimulates, StepSimulates, PTL
    DEF Spec, ImplementsTxnStore, Abstract!Spec
=============================================================================
