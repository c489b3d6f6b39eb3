---------------------------- MODULE SessionProofs ----------------------------
(***************************************************************************)
(* Theorems about Session, for every set of connections, tables, rows and  *)
(* values: the sessions stay well formed and in step with ThdContext, and  *)
(* what follows from it.  The lemmas go from the engine's operators to the *)
(* session's calls to the actions.                                         *)
(***************************************************************************)
EXTENDS Session, TLAPS

(* A session any of its calls may find: typed, at most one transaction,    *)
(* and every cached handle of the one there is.                            *)
GoodSession(s) ==
  /\ s \in SessionState
  /\ s.open <=> s.exec # None
  /\ ~(s.open /\ s.stmtTx # None)
  /\ \A t \in Table :
       /\ s.tables[t] # "none" => TxIn(s, s.tables[t]) # None
       /\ s.writeTables[t] # "none" => TxIn(s, s.writeTables[t]) # None

(* What a session is when its connection runs no statement.                *)
AtRest(s) ==
  /\ s.stmtTx = None /\ s.view = None
  /\ s.tables = NoHandles /\ s.writeTables = NoHandles

(* The session of c agrees with ThdContext and with where MariaDB is.      *)
InStep(c) ==
  /\ hasTx[c] => sess[c].open
  /\ pc[c] # "bulk" /\ sess[c].open => hasTx[c]
  /\ pc[c] = "bulk" => sess[c].open /\ ~hasTx[c]
  /\ pc[c] = "idle" =>
       AtRest(sess[c]) /\ ~landed[c] /\ (sess[c].open => explicit[c])
  /\ pc[c] # "idle" /\ explicit[c] => hasTx[c] /\ ~bulkOwns[c] /\ ~landed[c]

Typed ==
  /\ store \in State
  /\ sess \in [Conn -> SessionState]
  /\ hasTx \in [Conn -> BOOLEAN]
  /\ bulkOwns \in [Conn -> BOOLEAN]
  /\ pc \in [Conn -> Phase]
  /\ explicit \in [Conn -> BOOLEAN]
  /\ reply \in [Conn -> Reply]
  /\ base \in [Conn -> State \cup {None}]
  /\ cut \in [Conn -> State \cup {None}]
  /\ landed \in [Conn -> BOOLEAN]
  /\ anomaly \in [Conn -> SUBSET Anomaly]

(* The inductive invariant.                                                *)
IInv ==
  /\ Typed
  /\ \A c \in Conn : GoodSession(sess[c]) /\ InStep(c)

-----------------------------------------------------------------------------
(* The engine's operators.                                                 *)

LEMMA NewTransactionType ==
  ASSUME NEW level \in Level, NEW db \in State
  PROVE  NewTransaction(level, db) \in Transaction
BY NoneIsNoValue DEF NewTransaction, Transaction, Level, Writes, NoWrites

LEMMA SeesType ==
  ASSUME NEW tx \in Transaction, NEW db \in State
  PROVE  Sees(tx, db) \in State
<1>1. ASSUME NEW r \in Row
      PROVE  (CASE tx.writes[r] # None -> tx.writes[r]
                [] tx.writes[r] = None /\ tx.level = "SI" -> tx.snap[r]
                [] OTHER -> db[r]) \in Val
  BY DEF Transaction, Writes, State
<1> QED BY <1>1 DEF Sees, State

LEMMA InstallType ==
  ASSUME NEW writes \in Writes, NEW db \in State
  PROVE  Install(writes, db) \in State
BY DEF Install, Writes, State

LEMMA PutType ==
  ASSUME NEW tx \in Transaction, NEW r \in Row, NEW v \in Val
  PROVE  Put(tx, r, v) \in Transaction
<1>1. [tx.writes EXCEPT ![r] = v] \in Writes
  BY DEF Transaction, Writes
<1>2. Put(tx, r, v) = [tx EXCEPT !.writes = [tx.writes EXCEPT ![r] = v]]
  BY DEF Put
<1> QED BY <1>1, <1>2 DEF Transaction

(* A transaction is not None.                                              *)
LEMMA TransactionIsSome ==
  ASSUME NEW tx \in Transaction
  PROVE  tx # None /\ tx.writes \in Writes
BY NoneIsNoValue DEF Transaction

-----------------------------------------------------------------------------
(* The session's calls.                                                    *)

LEMMA ResultFields ==
  ASSUME NEW s, NEW db
  PROVE  /\ Ok(s, db).s = s /\ Ok(s, db).db = db /\ Ok(s, db).res = "Ok"
         /\ Err(s, db).s = s /\ Err(s, db).db = db /\ Err(s, db).res = "Err"
BY DEF Ok, Err

LEMMA NewSessionGood == GoodSession(NewSession) /\ AtRest(NewSession)
BY DEF GoodSession, AtRest, NewSession, SessionState, NoHandles, Slot, TxIn

(* end_statement leaves a good session at rest.                            *)
LEMMA EndStatementGood ==
  ASSUME NEW s, GoodSession(s), NEW commit \in BOOLEAN, NEW db \in State,
         NEW o \in EndStatement(s, commit, db)
  PROVE  /\ GoodSession(o.s) /\ AtRest(o.s)
         /\ o.db \in State /\ o.res \in {"Ok", "Err"}
         /\ o.s.open = s.open
         /\ s.stmtTx = None => o.res = "Ok"
<1> DEFINE cleared == [s EXCEPT !.tables = NoHandles, !.writeTables = NoHandles,
                                !.view = None]
           ended == [cleared EXCEPT !.stmtTx = None, !.stmtWrote = FALSE]
<1>1. GoodSession(ended) /\ AtRest(ended) /\ ended.open = s.open
  BY DEF GoodSession, AtRest, SessionState, NoHandles, Slot, TxIn
<1>2. CASE s.stmtTx = None
  <2>1. o = Ok(cleared, db)
    BY <1>2 DEF EndStatement
  <2>2. GoodSession(cleared) /\ AtRest(cleared) /\ cleared.open = s.open
    BY <1>2 DEF GoodSession, AtRest, SessionState, NoHandles, Slot, TxIn
  <2> QED BY <2>1, <2>2 DEF Ok, Err
<1>3. CASE s.stmtTx # None
  <2>1. s.stmtTx \in Transaction
    BY <1>3 DEF GoodSession, SessionState
  <2>2. \/ o = Ok(ended, db)
        \/ o = Err(ended, db)
        \/ o = Ok(ended, Install(s.stmtTx.writes, db))
    BY <1>3 DEF EndStatement, CommitOutcomes
  <2>3. Install(s.stmtTx.writes, db) \in State
    BY <2>1, TransactionIsSome, InstallType
  <2>4. /\ o.s = ended /\ o.db \in State /\ o.res \in {"Ok", "Err"}
    <3> HIDE DEF ended
    <3> QED BY <2>2, <2>3, ResultFields
  <2> QED BY <1>1, <1>3, <2>4
<1> QED BY <1>2, <1>3

LEMMA BeginSessionGood ==
  ASSUME NEW s, GoodSession(s), NEW level \in Level, NEW db \in State,
         NEW o \in BeginSession(s, level, db)
  PROVE  /\ GoodSession(o.s)
         /\ o.db \in State
         /\ ~s.open => AtRest(o.s) /\ (o.s.open <=> o.res = "Ok")
         /\ o.res = "Ok" => ~s.open /\ o.s.open
         /\ o.res \in {"Ok", "Err"}
<1>1. CASE s.open
  <2>1. o = Err(s, db)
    BY <1>1 DEF BeginSession
  <2> QED BY <1>1, <2>1, ResultFields
<1>2. CASE ~s.open
  <2>1. PICK e \in EndStatement(s, TRUE, db) :
          o = IF e.res = "Ok"
                THEN Ok([e.s EXCEPT !.exec = NewTransaction(level, e.db),
                                         !.open = TRUE], e.db)
                ELSE e
    BY <1>2 DEF BeginSession
  <2>2. /\ GoodSession(e.s) /\ AtRest(e.s) /\ e.db \in State
        /\ e.res \in {"Ok", "Err"} /\ ~e.s.open
    <3>1. e \in EndStatement(s, TRUE, db)
      BY <2>1
    <3>2. /\ GoodSession(e.s) /\ AtRest(e.s)
          /\ e.db \in State /\ e.res \in {"Ok", "Err"}
          /\ e.s.open = s.open
      BY <3>1, EndStatementGood, Zenon
    <3> QED BY <1>2, <3>2
  <2>3. NewTransaction(level, e.db) \in Transaction
    BY <2>2, NewTransactionType
  <2>4. NewTransaction(level, e.db) # None
    BY <2>3, TransactionIsSome
  <2> DEFINE begun == [e.s EXCEPT !.exec = NewTransaction(level, e.db),
                                  !.open = TRUE]
  <2>5. GoodSession(begun) /\ AtRest(begun) /\ begun.open
    BY <2>2, <2>3, <2>4 DEF GoodSession, AtRest, SessionState, NoHandles, TxIn
  <2> QED BY <1>2, <2>1, <2>2, <2>5 DEF Ok, Err
<1> QED BY <1>1, <1>2

(* take drops the open transaction with every handle on it.                *)
LEMMA TakeGood ==
  ASSUME NEW s, GoodSession(s)
  PROVE  /\ GoodSession(Take(s)) /\ ~Take(s).open
         /\ AtRest(s) => AtRest(Take(s))
BY DEF Take, GoodSession, AtRest, SessionState, NoHandles, Slot, TxIn

LEMMA CommitSessionGood ==
  ASSUME NEW s, GoodSession(s), NEW db \in State,
         NEW o \in CommitSession(s, db)
  PROVE  o.s = Take(s) /\ o.db \in State /\ o.res \in {"Ok", "Err"}
<1>1. CASE s.exec = None
  <2>1. o = Err(Take(s), db)
    BY <1>1 DEF CommitSession
  <2> QED BY <2>1, ResultFields
<1>2. CASE s.exec # None
  <2>1. s.exec \in Transaction
    BY <1>2 DEF GoodSession, SessionState
  <2>2. Install(s.exec.writes, db) \in State
    BY <2>1, TransactionIsSome, InstallType
  <2>3. \/ o = Err(Take(s), db)
        \/ o = Ok(Take(s), Install(s.exec.writes, db))
    BY <1>2 DEF CommitSession, CommitOutcomes
  <2> QED BY <2>2, <2>3, ResultFields
<1> QED BY <1>1, <1>2

LEMMA HandleTxGood ==
  ASSUME NEW s, GoodSession(s), NEW db \in State
  PROVE  /\ GoodSession(HandleTx(s, db))
         /\ HandleTx(s, db).open = s.open
         /\ HandleTx(s, db).tables = s.tables
         /\ HandleTx(s, db).writeTables = s.writeTables
         /\ TxIn(HandleTx(s, db), HandleSlot(HandleTx(s, db))) \in Transaction
<1>1. NewTransaction(DefaultLevel, db) \in Transaction
  BY SessionConstants, NewTransactionType
<1>2. NewTransaction(DefaultLevel, db) # None
  BY <1>1, TransactionIsSome
<1>3. CASE s.open \/ s.stmtTx # None
  BY <1>3 DEF HandleTx, HandleSlot, GoodSession, SessionState, TxIn
<1>4. CASE ~s.open /\ s.stmtTx = None
  <2> DEFINE h == [s EXCEPT !.stmtTx = NewTransaction(DefaultLevel, db)]
  <2>1. HandleTx(s, db) = h
    BY <1>4 DEF HandleTx
  <2>2. GoodSession(h)
    BY <1>1, <1>2, <1>4 DEF GoodSession, SessionState, TxIn
  <2>3. /\ h.open = s.open /\ h.tables = s.tables
        /\ h.writeTables = s.writeTables
        /\ TxIn(h, HandleSlot(h)) \in Transaction
    BY <1>1, <1>4 DEF GoodSession, SessionState, TxIn, HandleSlot
  <2> QED BY <2>1, <2>2, <2>3
<1> QED BY <1>3, <1>4

LEMMA ReadHandleGood ==
  ASSUME NEW s, GoodSession(s), NEW t \in Table, NEW db \in State
  PROVE  /\ GoodSession(ReadHandle(s, t, db))
         /\ ReadHandle(s, t, db).open = s.open
         /\ TxIn(ReadHandle(s, t, db), HandleSlot(ReadHandle(s, t, db)))
              \in Transaction
<1> DEFINE h == HandleTx(s, db)
           tx == TxIn(h, HandleSlot(h))
           v == IF tx.level = "RC" /\ h.view = None THEN Sees(tx, db)
                                                     ELSE h.view
           taken == [h EXCEPT !.view = v,
                              !.tables = [h.tables EXCEPT ![t] = HandleSlot(h)]]
<1>1. /\ GoodSession(h) /\ h.open = s.open
      /\ h.tables = s.tables /\ tx \in Transaction
  BY HandleTxGood
<1>2. tx # None /\ Sees(tx, db) \in State
  BY <1>1, TransactionIsSome, SeesType
<1>3. CASE s.tables[t] # "none"
  <2>1. ReadHandle(s, t, db) = s
    BY <1>3 DEF ReadHandle
  <2>2. TxIn(s, HandleSlot(s)) \in Transaction
    BY <1>3 DEF GoodSession, SessionState, TxIn, HandleSlot, Slot
  <2> QED BY <2>1, <2>2
<1>4. CASE s.tables[t] = "none"
  <2>1. ReadHandle(s, t, db) = taken
    <3> HIDE DEF h
    <3>1. h \in SessionState
      BY <1>1 DEF GoodSession
    <3> QED BY <1>4, <3>1 DEF ReadHandle, SessionState, h
  <2>2. GoodSession(taken) /\ taken.open = h.open
    <3> HIDE DEF h
    <3> QED BY <1>1, <1>2 DEF GoodSession, SessionState, Slot, HandleSlot, TxIn
  <2>3. TxIn(taken, HandleSlot(taken)) = tx
    <3> HIDE DEF h
    <3> QED BY <1>1 DEF GoodSession, SessionState, HandleSlot, TxIn
  <2> QED BY <1>1, <2>1, <2>2, <2>3
<1> QED BY <1>3, <1>4

LEMMA WriteHandleGood ==
  ASSUME NEW s, GoodSession(s), NEW t \in Table, NEW db \in State
  PROVE  /\ GoodSession(WriteHandle(s, t, db))
         /\ WriteHandle(s, t, db).open = s.open
         /\ WriteHandle(s, t, db).writeTables[t] \in {"exec", "stmtTx"}
         /\ TxIn(WriteHandle(s, t, db), WriteHandle(s, t, db).writeTables[t])
              \in Transaction
<1> DEFINE w == [s EXCEPT !.stmtWrote = s.stmtWrote \/ ~s.open]
           h == HandleTx(w, db)
           taken == [h EXCEPT !.writeTables =
                                [h.writeTables EXCEPT ![t] = HandleSlot(h)]]
<1>1. /\ GoodSession(w) /\ w.open = s.open
      /\ w.writeTables = s.writeTables
  BY DEF GoodSession, SessionState, TxIn
<1>2. CASE s.writeTables[t] # "none"
  <2>1. WriteHandle(s, t, db) = w
    BY <1>2 DEF WriteHandle
  <2>2. /\ TxIn(w, w.writeTables[t]) \in Transaction
        /\ w.writeTables[t] \in {"exec", "stmtTx"}
    <3> HIDE DEF w
    <3> QED BY <1>1, <1>2 DEF GoodSession, SessionState, TxIn, Slot
  <2> QED BY <1>1, <2>1, <2>2
<1>3. CASE s.writeTables[t] = "none"
  <2>1. /\ GoodSession(h) /\ h.open = w.open
        /\ TxIn(h, HandleSlot(h)) \in Transaction
    <3> HIDE DEF w
    <3> QED BY <1>1, HandleTxGood
  <2>2. WriteHandle(s, t, db) = taken
    BY <1>3 DEF WriteHandle
  <2> HIDE DEF h
  <2>3. TxIn(h, HandleSlot(h)) # None
    BY <2>1, TransactionIsSome
  <2>4. GoodSession(taken) /\ taken.open = h.open
    BY <2>1, <2>3 DEF GoodSession, SessionState, Slot, HandleSlot, TxIn
  <2>5. /\ TxIn(taken, taken.writeTables[t]) = TxIn(h, HandleSlot(h))
        /\ taken.writeTables[t] \in {"exec", "stmtTx"}
    BY <2>1 DEF GoodSession, SessionState, HandleSlot, TxIn
  <2> QED BY <1>1, <2>1, <2>2, <2>4, <2>5
<1> QED BY <1>2, <1>3

LEMMA PutInGood ==
  ASSUME NEW s, GoodSession(s), NEW slot \in {"exec", "stmtTx"},
         TxIn(s, slot) \in Transaction, NEW r \in Row, NEW v \in Val
  PROVE  GoodSession(PutIn(s, slot, r, v)) /\ PutIn(s, slot, r, v).open = s.open
<1>1. Put(TxIn(s, slot), r, v) \in Transaction
  BY PutType
<1>2. Put(TxIn(s, slot), r, v) # None /\ TxIn(s, slot) # None
  BY <1>1, TransactionIsSome
<1>3. CASE slot = "exec"
  BY <1>1, <1>2, <1>3 DEF PutIn, GoodSession, SessionState, TxIn
<1>4. CASE slot = "stmtTx"
  BY <1>1, <1>2, <1>4 DEF PutIn, GoodSession, SessionState, TxIn
<1> QED BY <1>3, <1>4

-----------------------------------------------------------------------------
(* The actions.                                                            *)

(* A step of one connection: what is left to show is that everything stays *)
(* typed, and that connection in order.                                    *)
Others(c) ==
  \A d \in Conn \ {c} :
    /\ sess'[d] = sess[d] /\ hasTx'[d] = hasTx[d] /\ pc'[d] = pc[d]
    /\ explicit'[d] = explicit[d] /\ bulkOwns'[d] = bulkOwns[d]
    /\ landed'[d] = landed[d]

LEMMA OneConnection ==
  ASSUME IInv, NEW c \in Conn, Typed', Others(c),
         GoodSession(sess'[c]), InStep(c)'
  PROVE  IInv'
<1>1. ASSUME NEW d \in Conn \ {c}
      PROVE  GoodSession(sess'[d]) /\ InStep(d)'
  BY <1>1 DEF IInv, Others, InStep
<1>2. \A d \in Conn : GoodSession(sess'[d]) /\ InStep(d)'
  BY <1>1
<1> QED BY <1>2 DEF IInv

LEMMA BeginTrxInv ==
  ASSUME IInv, NEW c \in Conn, BeginTrx(c)
  PROVE  IInv'
<1>1. Typed'
  BY DEF IInv, Typed, BeginTrx, Tell, Reply, observers
<1>2. Others(c) /\ GoodSession(sess'[c])
  BY DEF IInv, Typed, BeginTrx, Others, observers
<1>3. InStep(c)'
  BY DEF IInv, Typed, BeginTrx, InStep, observers
<1> QED BY <1>1, <1>2, <1>3, OneConnection

LEMMA StartConsistentSnapshotInv ==
  ASSUME IInv, NEW c \in Conn, StartConsistentSnapshot(c)
  PROVE  IInv'
<1> USE DEF StartConsistentSnapshot, Promise, Tell, Reply
<1>1. PICK o \in BeginSession(sess[c], "SI", store) :
        /\ o.res = "Ok"
        /\ sess' = [sess EXCEPT ![c] = o.s]
        /\ store' = o.db
        /\ hasTx' = [hasTx EXCEPT ![c] = TRUE]
  BY DEF ContextBegin
<1>2. /\ GoodSession(o.s) /\ o.s.open /\ AtRest(o.s)
      /\ o.db \in State
  BY <1>1, BeginSessionGood DEF IInv, Typed, Level
<1>3. o.s \in SessionState
  BY <1>2 DEF GoodSession
<1>4. Typed'
  BY <1>1, <1>2, <1>3 DEF IInv, Typed
<1>5. Others(c) /\ GoodSession(sess'[c])
  BY <1>1, <1>2 DEF IInv, Typed, Others
<1>6. InStep(c)'
  BY <1>1, <1>2 DEF IInv, Typed, InStep
<1> QED BY <1>4, <1>5, <1>6, OneConnection

LEMMA StartStatementInv ==
  ASSUME IInv, NEW c \in Conn, StartStatement(c)
  PROVE  IInv'
<1> USE DEF StartStatement, Promise, Tell, Reply
<1>1. CASE explicit[c] /\ ~hasTx[c]
  <2>1. PICK l \in Level : ContextBegin(c, l) /\ Promise(c, l, store)
    BY <1>1
  <2>2. PICK o \in BeginSession(sess[c], l, store) :
          /\ o.res = "Ok"
          /\ sess' = [sess EXCEPT ![c] = o.s]
          /\ store' = o.db
          /\ hasTx' = [hasTx EXCEPT ![c] = TRUE]
    BY <2>1 DEF ContextBegin
  <2>3. GoodSession(o.s) /\ o.s.open /\ o.db \in State
    BY <2>2, BeginSessionGood DEF IInv, Typed
  <2>4. o.s \in SessionState
    BY <2>3 DEF GoodSession
  <2>5. Typed'
    BY <2>1, <2>2, <2>3, <2>4 DEF IInv, Typed, Phase
  <2>6. Others(c) /\ GoodSession(sess'[c])
    BY <2>2, <2>3 DEF IInv, Typed, Others
  <2>7. InStep(c)'
    BY <1>1, <2>2, <2>3 DEF IInv, Typed, InStep
  <2> QED BY <2>5, <2>6, <2>7, OneConnection
<1>2. CASE ~(explicit[c] /\ ~hasTx[c])
  <2>1. Typed'
    BY <1>2 DEF IInv, Typed, Phase
  <2>2. Others(c) /\ GoodSession(sess'[c])
    BY <1>2 DEF IInv, Typed, Others
  <2>3. InStep(c)'
    BY <1>2 DEF IInv, Typed, InStep
  <2> QED BY <2>1, <2>2, <2>3, OneConnection
<1> QED BY <1>1, <1>2

(* What the callbacks leave, whatever the statement did.                   *)
CallbackLeaves(c, all) ==
  \E s, h, b, how :
    /\ sess' = [sess EXCEPT ![c] = s]
    /\ hasTx' = [hasTx EXCEPT ![c] = h]
    /\ base' = [base EXCEPT ![c] = b]
    /\ reply' = [reply EXCEPT ![c] = how]
    /\ GoodSession(s) /\ AtRest(s) /\ store' \in State
    /\ h \in BOOLEAN /\ b \in State \cup {None} /\ how \in Reply
    /\ pc[c] # "bulk" => (h <=> s.open)
    /\ pc[c] # "bulk" /\ RealEnd(c, all) => ~s.open

LEMMA CommitCallbackLeaves ==
  ASSUME IInv, NEW c \in Conn, NEW all \in BOOLEAN, CommitCallback(c, all)
  PROVE  CallbackLeaves(c, all)
<1> USE DEF Tell, Reply, CallbackLeaves
<1>1. GoodSession(sess[c]) /\ store \in State /\ InStep(c)
  BY DEF IInv, Typed
<1>2. PICK o \in EndStatement(sess[c], TRUE, store) :
        IF o.res = "Ok" /\ RealEnd(c, all) /\ hasTx[c]
          THEN \E p \in CommitSession(o.s, o.db) :
                 /\ sess' = [sess EXCEPT ![c] = p.s]
                 /\ store' = p.db
                 /\ hasTx' = [hasTx EXCEPT ![c] = FALSE]
                 /\ base' = [base EXCEPT ![c] = None]
                 /\ Tell(c, IF p.res = "Ok" THEN "done" ELSE "undone")
          ELSE /\ sess' = [sess EXCEPT ![c] = o.s]
               /\ store' = o.db
               /\ Tell(c, IF o.res = "Ok" THEN "done" ELSE "undone")
               /\ UNCHANGED <<hasTx, base>>
  BY DEF CommitCallback
<1>3. /\ GoodSession(o.s) /\ AtRest(o.s) /\ o.db \in State
      /\ o.s.open = sess[c].open
      /\ sess[c].stmtTx = None => o.res = "Ok"
  BY <1>1, <1>2, EndStatementGood
<1>4. sess[c].open => o.res = "Ok"
  BY <1>1, <1>3 DEF GoodSession
<1>5. CASE o.res = "Ok" /\ RealEnd(c, all) /\ hasTx[c]
  <2>1. PICK p \in CommitSession(o.s, o.db) :
          /\ sess' = [sess EXCEPT ![c] = p.s]
          /\ store' = p.db
          /\ hasTx' = [hasTx EXCEPT ![c] = FALSE]
          /\ base' = [base EXCEPT ![c] = None]
          /\ Tell(c, IF p.res = "Ok" THEN "done" ELSE "undone")
    BY <1>2, <1>5
  <2>2. /\ GoodSession(p.s) /\ AtRest(p.s) /\ p.db \in State /\ ~p.s.open
    BY <1>3, <2>1, CommitSessionGood, TakeGood
  <2> QED BY <2>1, <2>2
<1>6. CASE ~(o.res = "Ok" /\ RealEnd(c, all) /\ hasTx[c])
  <2>1. /\ sess' = [sess EXCEPT ![c] = o.s]
        /\ store' = o.db
        /\ Tell(c, IF o.res = "Ok" THEN "done" ELSE "undone")
        /\ UNCHANGED <<hasTx, base>>
    BY <1>2, <1>6
  <2>2. hasTx' = [hasTx EXCEPT ![c] = hasTx[c]]
        /\ base' = [base EXCEPT ![c] = base[c]]
    BY <2>1 DEF IInv, Typed
  <2>3. hasTx[c] \in BOOLEAN /\ base[c] \in State \cup {None}
    BY DEF IInv, Typed
  <2>4. /\ pc[c] # "bulk" => (hasTx[c] <=> o.s.open)
        /\ pc[c] # "bulk" /\ RealEnd(c, all) => ~o.s.open
    BY <1>1, <1>3, <1>4, <1>6 DEF InStep
  <2> QED BY <1>3, <2>1, <2>2, <2>3, <2>4
<1> QED BY <1>5, <1>6

LEMMA RollbackCallbackLeaves ==
  ASSUME IInv, NEW c \in Conn, NEW all \in BOOLEAN, RollbackCallback(c, all)
  PROVE  CallbackLeaves(c, all)
<1> USE DEF Tell, Reply, CallbackLeaves
<1>1. GoodSession(sess[c]) /\ store \in State /\ InStep(c)
  BY DEF IInv, Typed
<1>2. PICK o \in EndStatement(sess[c], FALSE, store) :
        /\ Tell(c, "undone")
        /\ IF RealEnd(c, all) /\ hasTx[c]
             THEN /\ sess' = [sess EXCEPT ![c] = RollbackSession(o.s)]
                  /\ store' = o.db
                  /\ hasTx' = [hasTx EXCEPT ![c] = FALSE]
                  /\ base' = [base EXCEPT ![c] = None]
             ELSE /\ sess' = [sess EXCEPT ![c] = o.s]
                  /\ store' = o.db
                  /\ UNCHANGED <<hasTx, base>>
  BY DEF RollbackCallback
<1>3. /\ GoodSession(o.s) /\ AtRest(o.s) /\ o.db \in State
      /\ o.s.open = sess[c].open
  BY <1>1, <1>2, EndStatementGood
<1>4. CASE RealEnd(c, all) /\ hasTx[c]
  <2>1. /\ GoodSession(Take(o.s)) /\ AtRest(Take(o.s)) /\ ~Take(o.s).open
    BY <1>3, TakeGood
  <2> QED BY <1>2, <1>3, <1>4, <2>1 DEF RollbackSession
<1>5. CASE ~(RealEnd(c, all) /\ hasTx[c])
  <2>1. hasTx' = [hasTx EXCEPT ![c] = hasTx[c]]
        /\ base' = [base EXCEPT ![c] = base[c]]
    BY <1>2, <1>5 DEF IInv, Typed
  <2>2. hasTx[c] \in BOOLEAN /\ base[c] \in State \cup {None}
    BY DEF IInv, Typed
  <2>3. /\ pc[c] # "bulk" => (hasTx[c] <=> o.s.open)
        /\ pc[c] # "bulk" /\ RealEnd(c, all) => ~o.s.open
    BY <1>1, <1>3, <1>5 DEF InStep
  <2> QED BY <1>2, <1>3, <1>5, <2>1, <2>2, <2>3
<1> QED BY <1>4, <1>5

(* A statement that ends, either way.                                      *)
LEMMA StatementEndsInv ==
  ASSUME IInv, NEW c \in Conn, pc[c] \in {"stmt", "modified", "failed"},
         CallbackLeaves(c, FALSE), StatementOver(c),
         UNCHANGED <<bulkOwns, explicit>>
  PROVE  IInv'
<1> USE DEF StatementOver
<1>1. PICK s, h, b, how :
        /\ sess' = [sess EXCEPT ![c] = s]
        /\ hasTx' = [hasTx EXCEPT ![c] = h]
        /\ base' = [base EXCEPT ![c] = b]
        /\ reply' = [reply EXCEPT ![c] = how]
        /\ GoodSession(s) /\ AtRest(s) /\ store' \in State
        /\ h \in BOOLEAN /\ b \in State \cup {None} /\ how \in Reply
        /\ h <=> s.open
        /\ ~explicit[c] => ~s.open
  BY DEF CallbackLeaves, RealEnd
<1>2. Typed'
  BY <1>1 DEF IInv, Typed, GoodSession, Phase
<1>3. Others(c) /\ GoodSession(sess'[c])
  BY <1>1 DEF IInv, Typed, Others
<1>4. InStep(c)'
  BY <1>1 DEF IInv, Typed, InStep
<1> QED BY <1>2, <1>3, <1>4, OneConnection

(* An explicit transaction that ends, either way.                          *)
LEMMA TransactionEndsInv ==
  ASSUME IInv, NEW c \in Conn, pc[c] = "idle", CallbackLeaves(c, TRUE),
         explicit' = [explicit EXCEPT ![c] = FALSE],
         UNCHANGED <<bulkOwns, pc, cut, landed, anomaly>>
  PROVE  IInv'
<1>1. PICK s, h, b, how :
        /\ sess' = [sess EXCEPT ![c] = s]
        /\ hasTx' = [hasTx EXCEPT ![c] = h]
        /\ base' = [base EXCEPT ![c] = b]
        /\ reply' = [reply EXCEPT ![c] = how]
        /\ GoodSession(s) /\ AtRest(s) /\ store' \in State
        /\ h \in BOOLEAN /\ b \in State \cup {None} /\ how \in Reply
        /\ h <=> s.open
        /\ ~s.open
  BY DEF CallbackLeaves, RealEnd
<1>2. Typed'
  BY <1>1 DEF IInv, Typed, GoodSession
<1>3. Others(c) /\ GoodSession(sess'[c])
  BY <1>1 DEF IInv, Typed, Others
<1>4. InStep(c)'
  BY <1>1 DEF IInv, Typed, InStep
<1> QED BY <1>2, <1>3, <1>4, OneConnection

LEMMA CloseConnectionInv ==
  ASSUME IInv, NEW c \in Conn, CloseConnection(c)
  PROVE  IInv'
<1> USE DEF CloseConnection, Tell, Reply
<1>1. Typed'
  BY NewSessionGood DEF IInv, Typed, GoodSession
<1>2. Others(c) /\ GoodSession(sess'[c])
  BY NewSessionGood DEF IInv, Typed, Others
<1>3. InStep(c)'
  <2>1. ~NewSession.open
    BY DEF NewSession
  <2> QED BY <2>1, NewSessionGood DEF IInv, Typed, InStep
<1> QED BY <1>1, <1>2, <1>3, OneConnection

(* A step in the middle of a statement that leaves a good session, as open *)
(* as it was.                                                              *)
LEMMA MidStatementInv ==
  ASSUME IInv, NEW c \in Conn, NEW s, NEW p \in Phase \ {"idle", "bulk"},
         GoodSession(s), s.open = sess[c].open,
         pc[c] = "stmt", store' \in State,
         sess' = [sess EXCEPT ![c] = s], pc' = [pc EXCEPT ![c] = p],
         cut' \in [Conn -> State \cup {None}],
         anomaly' \in [Conn -> SUBSET Anomaly],
         \/ UNCHANGED landed
         \/ ~s.open /\ landed' = [landed EXCEPT ![c] = TRUE],
         UNCHANGED <<hasTx, bulkOwns, explicit, reply, base>>
  PROVE  IInv'
<1>1. Typed'
  BY DEF IInv, Typed, GoodSession
<1>2. Others(c) /\ GoodSession(sess'[c])
  BY DEF IInv, Typed, Others
<1>3. InStep(c)'
  BY DEF IInv, Typed, InStep, Phase
<1> QED BY <1>1, <1>2, <1>3, OneConnection

(* What c holds that the steps of its statement start from.                *)
LEMMA AtStatement ==
  ASSUME IInv, NEW c \in Conn
  PROVE  /\ GoodSession(sess[c]) /\ store \in State /\ InStep(c)
         /\ sess \in [Conn -> SessionState] /\ pc \in [Conn -> Phase]
         /\ cut \in [Conn -> State \cup {None}]
         /\ anomaly \in [Conn -> SUBSET Anomaly]
         /\ landed \in [Conn -> BOOLEAN]
BY DEF IInv, Typed

LEMMA ObserveTyped ==
  ASSUME NEW c \in Conn, NEW s, NEW r, NEW v, NEW through,
         anomaly \in [Conn -> SUBSET Anomaly], Observe(c, s, r, v, through)
  PROVE  anomaly' \in [Conn -> SUBSET Anomaly]
BY Zenon DEF Observe

LEMMA DirectReadInv ==
  ASSUME IInv, NEW c \in Conn, NEW r \in Row, DirectRead(c, r)
  PROVE  IInv'
<1> DEFINE t == TableOf[r]
           s == TableForRead(sess[c], t, store)
           now == Sees(TxIn(s, HandleSlot(s)), store)
<1>1. GoodSession(s) /\ s.open = sess[c].open /\ now \in State
  <2>0. t \in Table
    BY SessionConstants
  <2>1. CASE sess[c].writeTables[t] # "none"
    <3>1. s = sess[c]
      BY <2>1 DEF TableForRead
    <3>2. TxIn(s, HandleSlot(s)) \in Transaction
      <4> HIDE DEF s, t
      <4> QED BY <2>0, <2>1, <3>1, AtStatement
          DEF GoodSession, SessionState, TxIn, HandleSlot, Slot
    <3> QED BY <3>1, <3>2, AtStatement, SeesType
  <2>2. CASE sess[c].writeTables[t] = "none"
    <3>1. s = ReadHandle(sess[c], t, store)
      BY <2>2 DEF TableForRead
    <3> QED BY <2>0, <3>1, AtStatement, ReadHandleGood, SeesType
  <2> QED BY <2>1, <2>2
<1>2. /\ pc[c] = "stmt" /\ sess' = [sess EXCEPT ![c] = s]
      /\ \E w : cut' = [cut EXCEPT ![c] = w] /\ w \in {cut[c], now}
      /\ UNCHANGED <<store, hasTx, bulkOwns, pc, explicit, reply, base, landed>>
  <2> HIDE DEF s, now
  <2>1. cut' = [cut EXCEPT ![c] =
                  IF cut[c] = None /\ s.writeTables[t] = "none"
                    THEN now ELSE cut[c]]
    BY DEF DirectRead, s, now
  <2> QED BY <2>1 DEF DirectRead, s
<1>3. anomaly' \in [Conn -> SUBSET Anomaly]
  BY AtStatement, ObserveTyped DEF DirectRead
<1> HIDE DEF s, now
<1>4. cut' \in [Conn -> State \cup {None}]
  BY <1>1, <1>2, AtStatement
<1>5. pc' = [pc EXCEPT ![c] = "stmt"] /\ store' \in State
  BY <1>2, AtStatement
<1> QED BY <1>1, <1>2, <1>3, <1>4, <1>5, MidStatementInv DEF Phase

LEMMA QueryInv ==
  ASSUME IInv, NEW c \in Conn, NEW r \in Row, Query(c, r)
  PROVE  IInv'
<1>1. anomaly' \in [Conn -> SUBSET Anomaly]
  BY AtStatement, ObserveTyped DEF Query
<1>2. /\ sess' = [sess EXCEPT ![c] = sess[c]]
      /\ pc' = [pc EXCEPT ![c] = "stmt"]
      /\ cut' \in [Conn -> State \cup {None}] /\ store' \in State
  BY AtStatement DEF Query
<1> QED BY <1>1, <1>2, AtStatement, MidStatementInv DEF Query, Phase

LEMMA DirectWriteInv ==
  ASSUME IInv, NEW c \in Conn, NEW r \in Row, NEW v \in Val,
         DirectWrite(c, r, v)
  PROVE  IInv'
<1> DEFINE t == TableOf[r]
           w == WriteHandle(sess[c], t, store)
           s == PutIn(w, w.writeTables[t], r, v)
<1>1. t \in Table
  BY SessionConstants
<1> HIDE DEF t
<1>2. /\ GoodSession(w) /\ w.open = sess[c].open
      /\ TxIn(w, w.writeTables[t]) \in Transaction
      /\ w.writeTables[t] \in {"exec", "stmtTx"}
  BY <1>1, AtStatement, WriteHandleGood
<1> HIDE DEF w
<1>3. GoodSession(s) /\ s.open = w.open
  BY <1>2, PutInGood
<1>4. /\ pc[c] = "stmt" /\ sess' = [sess EXCEPT ![c] = s]
      /\ UNCHANGED <<store, hasTx, bulkOwns, pc, explicit, reply, observers>>
  BY DEF DirectWrite, w, t
<1> HIDE DEF s
<1>5. /\ pc' = [pc EXCEPT ![c] = "stmt"] /\ store' \in State
      /\ cut' \in [Conn -> State \cup {None}]
      /\ anomaly' \in [Conn -> SUBSET Anomaly]
  BY <1>4, AtStatement DEF observers
<1> QED BY <1>2, <1>3, <1>4, <1>5, MidStatementInv DEF Phase, observers

(* run's write leaves a good session, and lands only outside an open       *)
(* transaction.                                                            *)
LEMMA RunWriteGood ==
  ASSUME IInv, NEW c \in Conn, NEW s, GoodSession(s), NEW r \in Row,
         NEW v \in Val, RunWrite(c, s, r, v)
  PROVE  /\ store' \in State
         /\ \E n : /\ GoodSession(n) /\ n.open = s.open
                  /\ sess' = [sess EXCEPT ![c] = n]
         /\ \/ UNCHANGED landed
            \/ ~s.open /\ landed' = [landed EXCEPT ![c] = TRUE]
<1>1. CASE s.open
  <2>1. TxIn(s, "exec") \in Transaction
    BY <1>1 DEF GoodSession, SessionState, TxIn
  <2>2. /\ GoodSession(PutIn(s, "exec", r, v))
        /\ PutIn(s, "exec", r, v).open = s.open
    BY <2>1, PutInGood
  <2> QED BY <1>1, <2>2, AtStatement DEF RunWrite
<1>2. CASE ~s.open
  <2>1. [store EXCEPT ![r] = v] \in State
    BY AtStatement DEF State
  <2> QED BY <1>2, <2>1 DEF RunWrite
<1> QED BY <1>1, <1>2

LEMMA RowSqlWriteInv ==
  ASSUME IInv, NEW c \in Conn, NEW r \in Row, NEW v \in Val,
         RowSqlWrite(c, r, v)
  PROVE  IInv'
<1> DEFINE w == WriteHandle(sess[c], TableOf[r], store)
<1>1. GoodSession(w) /\ w.open = sess[c].open
  BY SessionConstants, AtStatement, WriteHandleGood
<1>2. /\ pc[c] = "stmt" /\ RunWrite(c, w, r, v)
      /\ UNCHANGED <<hasTx, bulkOwns, pc, explicit, reply, base, cut, anomaly>>
  BY DEF RowSqlWrite
<1> HIDE DEF w
<1>3. PICK n : /\ GoodSession(n) /\ n.open = w.open
               /\ sess' = [sess EXCEPT ![c] = n]
               /\ store' \in State
               /\ \/ UNCHANGED landed
                  \/ ~w.open /\ landed' = [landed EXCEPT ![c] = TRUE]
  BY <1>1, <1>2, RunWriteGood
<1>4. /\ pc' = [pc EXCEPT ![c] = "stmt"]
      /\ cut' \in [Conn -> State \cup {None}]
      /\ anomaly' \in [Conn -> SUBSET Anomaly]
  BY <1>2, AtStatement
<1> QED BY <1>1, <1>2, <1>3, <1>4, MidStatementInv DEF Phase

LEMMA WriteFailsInv ==
  ASSUME IInv, NEW c \in Conn, NEW t \in Table, WriteFails(c, t)
  PROVE  IInv'
<1> DEFINE w == WriteHandle(sess[c], t, store)
<1>1. GoodSession(w) /\ w.open = sess[c].open
  BY AtStatement, WriteHandleGood
<1>2. PICK p \in {"stmt", "failed"} :
        /\ pc[c] = "stmt" /\ sess' = [sess EXCEPT ![c] = w]
        /\ pc' = [pc EXCEPT ![c] = p]
        /\ UNCHANGED <<store, hasTx, bulkOwns, explicit, reply, observers>>
  BY DEF WriteFails
<1> HIDE DEF w
<1>3. /\ store' \in State
      /\ cut' \in [Conn -> State \cup {None}]
      /\ anomaly' \in [Conn -> SUBSET Anomaly]
  BY <1>2, AtStatement DEF observers
<1> QED BY <1>1, <1>2, <1>3, MidStatementInv DEF Phase, observers

LEMMA DirectModifyInv ==
  ASSUME IInv, NEW c \in Conn, NEW r \in Row, NEW v \in Val,
         DirectModify(c, r, v)
  PROVE  IInv'
<1>1. /\ pc[c] = "stmt" /\ RunWrite(c, sess[c], r, v)
      /\ pc' = [pc EXCEPT ![c] = "modified"]
      /\ UNCHANGED <<hasTx, bulkOwns, explicit, reply, base, cut, anomaly>>
  BY DEF DirectModify
<1>2. PICK n : /\ GoodSession(n) /\ n.open = sess[c].open
               /\ sess' = [sess EXCEPT ![c] = n]
               /\ store' \in State
               /\ \/ UNCHANGED landed
                  \/ ~sess[c].open /\ landed' = [landed EXCEPT ![c] = TRUE]
  BY <1>1, AtStatement, RunWriteGood
<1>3. /\ cut' \in [Conn -> State \cup {None}]
      /\ anomaly' \in [Conn -> SUBSET Anomaly]
  BY <1>1, AtStatement
<1> QED BY <1>1, <1>2, <1>3, MidStatementInv DEF Phase

LEMMA DirectModifyFailsInv ==
  ASSUME IInv, NEW c \in Conn, DirectModifyFails(c)
  PROVE  IInv'
<1>1. /\ pc[c] = "stmt" /\ pc' = [pc EXCEPT ![c] = "failed"]
      /\ UNCHANGED <<store, sess, hasTx, bulkOwns, explicit, reply, observers>>
  BY DEF DirectModifyFails
<1>2. /\ sess' = [sess EXCEPT ![c] = sess[c]] /\ store' \in State
      /\ cut' \in [Conn -> State \cup {None}]
      /\ anomaly' \in [Conn -> SUBSET Anomaly]
  BY <1>1, AtStatement DEF observers
<1> QED BY <1>1, <1>2, AtStatement, MidStatementInv DEF Phase, observers

(* A buffer's own transaction: begun, ended, or shared by the chunks.      *)
LEMMA BulkInsertBeginsInv ==
  ASSUME IInv, NEW c \in Conn, NEW t \in Table, BulkInsertBegins(c, t)
  PROVE  IInv'
<1>1. PICK o \in BeginSession(WriteHandle(sess[c], t, store), DefaultLevel,
                             store) :
        /\ sess' = [sess EXCEPT ![c] = o.s]
        /\ store' = o.db
        /\ pc' = [pc EXCEPT ![c] = IF o.res = "Ok" THEN "bulk" ELSE "failed"]
  BY DEF BulkInsertBegins
<1>2. /\ pc[c] = "stmt" /\ ~sess[c].open
      /\ UNCHANGED <<hasTx, bulkOwns, explicit, reply, observers>>
  BY DEF BulkInsertBegins
<1>3. /\ GoodSession(WriteHandle(sess[c], t, store))
      /\ ~WriteHandle(sess[c], t, store).open
  BY <1>2, AtStatement, WriteHandleGood
<1>4. /\ GoodSession(o.s) /\ o.db \in State
      /\ o.s.open <=> o.res = "Ok"
  BY <1>1, <1>3, AtStatement, SessionConstants, BeginSessionGood
<1>5. Typed'
  BY <1>1, <1>2, <1>4 DEF IInv, Typed, GoodSession, Phase, observers
<1>6. Others(c) /\ GoodSession(sess'[c])
  BY <1>1, <1>2, <1>4 DEF IInv, Typed, Others, observers
<1>7. InStep(c)'
  BY <1>1, <1>2, <1>4 DEF IInv, Typed, InStep, observers
<1> QED BY <1>5, <1>6, <1>7, OneConnection

LEMMA BulkInsertRowInv ==
  ASSUME IInv, NEW c \in Conn, NEW r \in Row, NEW v \in Val,
         BulkInsertRow(c, r, v)
  PROVE  IInv'
<1>1. /\ pc[c] = "bulk" /\ RunWrite(c, sess[c], r, v)
      /\ UNCHANGED <<hasTx, bulkOwns, pc, explicit, reply, base, cut, anomaly>>
  BY DEF BulkInsertRow
<1>2. sess[c].open
  BY <1>1, AtStatement DEF InStep
<1>3. PICK n : /\ GoodSession(n) /\ n.open
               /\ sess' = [sess EXCEPT ![c] = n]
               /\ store' \in State
               /\ UNCHANGED landed
  BY <1>1, <1>2, AtStatement, RunWriteGood
<1>4. Typed'
  BY <1>1, <1>3 DEF IInv, Typed, GoodSession
<1>5. Others(c) /\ GoodSession(sess'[c])
  BY <1>1, <1>3 DEF IInv, Typed, Others
<1>6. InStep(c)'
  BY <1>1, <1>3 DEF IInv, Typed, InStep
<1> QED BY <1>4, <1>5, <1>6, OneConnection

LEMMA BulkInsertFailsInv ==
  ASSUME IInv, NEW c \in Conn, BulkInsertFails(c)
  PROVE  IInv'
<1>1. /\ pc[c] = "bulk" /\ sess' = [sess EXCEPT ![c] = Take(sess[c])]
      /\ pc' = [pc EXCEPT ![c] = "failed"]
      /\ UNCHANGED <<store, hasTx, bulkOwns, explicit, reply, observers>>
  BY DEF BulkInsertFails, RollbackSession
<1>2. GoodSession(Take(sess[c])) /\ ~Take(sess[c]).open
  BY AtStatement, TakeGood
<1>3. Typed'
  BY <1>1, <1>2 DEF IInv, Typed, GoodSession, Phase, observers
<1>4. Others(c) /\ GoodSession(sess'[c])
  BY <1>1, <1>2 DEF IInv, Typed, Others, observers
<1>5. InStep(c)'
  BY <1>1, <1>2 DEF IInv, Typed, InStep, observers
<1> QED BY <1>3, <1>4, <1>5, OneConnection

LEMMA BulkInsertCommitsInv ==
  ASSUME IInv, NEW c \in Conn, BulkInsertCommits(c)
  PROVE  IInv'
<1>1. PICK o \in CommitSession(sess[c], store) :
        /\ sess' = [sess EXCEPT ![c] = o.s]
        /\ store' = o.db
        /\ landed' = [landed EXCEPT ![c] = (o.res = "Ok")]
        /\ pc' = [pc EXCEPT ![c] = IF o.res = "Ok" THEN "modified"
                                                   ELSE "failed"]
  BY DEF BulkInsertCommits
<1>2. /\ pc[c] = "bulk"
      /\ UNCHANGED <<hasTx, bulkOwns, explicit, reply, base, cut, anomaly>>
  BY DEF BulkInsertCommits
<1>3. GoodSession(o.s) /\ ~o.s.open /\ o.db \in State
  BY <1>1, AtStatement, CommitSessionGood, TakeGood
<1>4. Typed'
  BY <1>1, <1>2, <1>3 DEF IInv, Typed, GoodSession, Phase
<1>5. Others(c) /\ GoodSession(sess'[c])
  BY <1>1, <1>2, <1>3 DEF IInv, Typed, Others
<1>6. InStep(c)'
  BY <1>1, <1>2, <1>3 DEF IInv, Typed, InStep
<1> QED BY <1>4, <1>5, <1>6, OneConnection

LEMMA ChunkOpensTxInv ==
  ASSUME IInv, NEW c \in Conn, ChunkOpensTx(c)
  PROVE  IInv'
<1>1. PICK o \in BeginSession(sess[c], "RC", store) :
        /\ o.res = "Ok"
        /\ sess' = [sess EXCEPT ![c] = o.s]
        /\ store' = o.db
        /\ hasTx' = [hasTx EXCEPT ![c] = TRUE]
  BY DEF ChunkOpensTx, ContextBegin
<1>2. /\ pc[c] = "stmt" /\ ~hasTx[c]
      /\ bulkOwns' = [bulkOwns EXCEPT ![c] = TRUE]
      /\ UNCHANGED <<pc, explicit, reply, observers>>
  BY DEF ChunkOpensTx
<1>3. GoodSession(o.s) /\ o.s.open /\ o.db \in State
  BY <1>1, AtStatement, BeginSessionGood DEF Level
<1>4. Typed'
  BY <1>1, <1>2, <1>3 DEF IInv, Typed, GoodSession, observers
<1>5. Others(c) /\ GoodSession(sess'[c])
  BY <1>1, <1>2, <1>3 DEF IInv, Typed, Others, observers
<1>6. InStep(c)'
  BY <1>1, <1>2, <1>3 DEF IInv, Typed, InStep, observers
<1> QED BY <1>4, <1>5, <1>6, OneConnection

LEMMA ChunkFailsInv ==
  ASSUME IInv, NEW c \in Conn, ChunkFails(c)
  PROVE  IInv'
<1>1. /\ pc[c] = "stmt" /\ bulkOwns[c]
      /\ sess' = [sess EXCEPT ![c] = Take(sess[c])]
      /\ hasTx' = [hasTx EXCEPT ![c] = FALSE]
      /\ bulkOwns' = [bulkOwns EXCEPT ![c] = FALSE]
      /\ pc' = [pc EXCEPT ![c] = "failed"]
      /\ UNCHANGED <<store, explicit, reply, observers>>
  BY DEF ChunkFails, RollbackSession
<1>2. GoodSession(Take(sess[c])) /\ ~Take(sess[c]).open
  BY AtStatement, TakeGood
<1>3. ~explicit[c]
  BY <1>1, AtStatement DEF InStep
<1>4. Typed'
  BY <1>1, <1>2 DEF IInv, Typed, GoodSession, Phase, observers
<1>5. Others(c) /\ GoodSession(sess'[c])
  BY <1>1, <1>2 DEF IInv, Typed, Others, observers
<1>6. InStep(c)'
  BY <1>1, <1>2, <1>3 DEF IInv, Typed, InStep, observers
<1> QED BY <1>4, <1>5, <1>6, OneConnection

-----------------------------------------------------------------------------
(* The theorems.                                                           *)

LEMMA InitInv == Init => IInv
<1> SUFFICES ASSUME Init PROVE IInv
  OBVIOUS
<1>1. Typed
  BY NewSessionGood DEF Init, Typed, GoodSession, Phase, Reply
<1>2. ASSUME NEW c \in Conn PROVE GoodSession(sess[c]) /\ InStep(c)
  <2>1. sess[c] = NewSession /\ ~NewSession.open
    BY DEF Init, NewSession
  <2> QED BY <2>1, NewSessionGood DEF Init, InStep
<1> QED BY <1>1, <1>2 DEF IInv

LEMMA StepInv == IInv /\ [Next]_vars => IInv'
<1> SUFFICES ASSUME IInv, [Next]_vars PROVE IInv'
  OBVIOUS
<1>1. CASE UNCHANGED vars
  <2>1. Typed'
    BY <1>1 DEF IInv, Typed, vars
  <2>2. ASSUME NEW c \in Conn PROVE GoodSession(sess'[c]) /\ InStep(c)'
    BY <1>1 DEF IInv, InStep, vars
  <2> QED BY <2>1, <2>2 DEF IInv
<1>2. ASSUME NEW c \in Conn, TransactionStep(c) PROVE IInv'
  <2>1. CASE BeginTrx(c)
    BY <2>1, BeginTrxInv
  <2>2. CASE StartConsistentSnapshot(c)
    BY <2>2, StartConsistentSnapshotInv
  <2>3. CASE StartStatement(c)
    BY <2>3, StartStatementInv
  <2>4. CASE StatementCommits(c)
    BY <2>4, CommitCallbackLeaves, StatementEndsInv DEF StatementCommits
  <2>5. CASE StatementRollsBack(c)
    BY <2>5, RollbackCallbackLeaves, StatementEndsInv DEF StatementRollsBack
  <2>6. CASE CommitTrx(c)
    BY <2>6, CommitCallbackLeaves, TransactionEndsInv DEF CommitTrx
  <2>7. CASE RollbackTrx(c)
    BY <2>7, RollbackCallbackLeaves, TransactionEndsInv DEF RollbackTrx
  <2>8. CASE CloseConnection(c)
    BY <2>8, CloseConnectionInv
  <2> QED BY <1>2, <2>1, <2>2, <2>3, <2>4, <2>5, <2>6, <2>7, <2>8
      DEF TransactionStep
<1>3. ASSUME NEW c \in Conn, StatementStep(c) PROVE IInv'
  <2>1. CASE \E r \in Row : DirectRead(c, r) \/ Query(c, r)
    BY <2>1, DirectReadInv, QueryInv
  <2>2. CASE \E r \in Row, v \in Val :
               \/ DirectWrite(c, r, v)
               \/ RowSqlWrite(c, r, v)
               \/ DirectModify(c, r, v)
               \/ BulkInsertRow(c, r, v)
    BY <2>2, DirectWriteInv, RowSqlWriteInv, DirectModifyInv, BulkInsertRowInv
  <2>3. CASE \E t \in Table : WriteFails(c, t) \/ BulkInsertBegins(c, t)
    BY <2>3, WriteFailsInv, BulkInsertBeginsInv
  <2>4. CASE DirectModifyFails(c)
    BY <2>4, DirectModifyFailsInv
  <2>5. CASE BulkInsertFails(c)
    BY <2>5, BulkInsertFailsInv
  <2>6. CASE BulkInsertCommits(c)
    BY <2>6, BulkInsertCommitsInv
  <2>7. CASE ChunkOpensTx(c)
    BY <2>7, ChunkOpensTxInv
  <2>8. CASE ChunkFails(c)
    BY <2>8, ChunkFailsInv
  <2> QED BY <1>3, <2>1, <2>2, <2>3, <2>4, <2>5, <2>6, <2>7, <2>8
      DEF StatementStep
<1> QED BY <1>1, <1>2, <1>3 DEF Next

(* The session, ThdContext and MariaDB's statement stay in step, whatever  *)
(* the connections do and whatever fails.                                  *)
THEOREM Invariance == Spec => []IInv
BY InitInv, StepInv, PTL DEF Spec

(* Session and ThdContext state is well formed: every field of session.rs  *)
(* holds a value of its type, in every reachable state.                    *)
THEOREM TypeCorrect == Spec => []TypeOK
<1>1. IInv => TypeOK
  BY DEF IInv, Typed, TypeOK
<1> QED BY <1>1, Invariance, PTL

(* session.rs, in_transaction / with_handle / run: the open transaction    *)
(* and the statement's own never exist together, and ThdContext::has_tx    *)
(* agrees with the session (a multi-row SQL insert's own aside).           *)
THEOREM OneTransactionAlways == Spec => []OneTransaction
<1>1. IInv => OneTransaction
  BY DEF IInv, InStep, GoodSession, OneTransaction
<1> QED BY <1>1, Invariance, PTL

(* session.rs, take / end_statement: no cached table handle outlives the   *)
(* transaction it was taken of.                                            *)
THEOREM HandlesStayLive == Spec => []HandlesAreLive
<1>1. IInv => HandlesAreLive
  BY DEF IInv, GoodSession, HandlesAreLive
<1> QED BY <1>1, Invariance, PTL

(* commit_cb / rollback_cb: whichever way a statement ended, it left no    *)
(* transaction, handle or view behind, a bulk insert's included.           *)
THEOREM QuietAlways == Spec => []QuietBetweenStatements
<1>1. IInv => QuietBetweenStatements
  BY DEF IInv, InStep, AtRest, QuietBetweenStatements
<1> QED BY <1>1, Invariance, PTL

(* Session::run and sql_write.rs: no write of an explicit transaction goes *)
(* autocommit.                                                             *)
THEOREM ExplicitNeverLandsAlways == Spec => []ExplicitNeverLands
<1>1. IInv => ExplicitNeverLands
  BY DEF IInv, InStep, ExplicitNeverLands
<1> QED BY <1>1, Invariance, PTL
=============================================================================
