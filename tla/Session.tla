-------------------------------- MODULE Session --------------------------------
(***************************************************************************)
(* One plugin session per connection: how MariaDB's statement and          *)
(* transaction callbacks, the per-connection context (ThdContext) and the  *)
(* Rust Session decide which Stoolap transaction a read or a write goes    *)
(* through, and which of them is committed or rolled back when.            *)
(*                                                                         *)
(* A session holds at most two transactions: the open one, installed in    *)
(* the executor, and the statement's own, opened by direct access outside  *)
(* an open one.  Table handles belong to whichever it was when they were   *)
(* taken.                                                                  *)
(***************************************************************************)
EXTENDS StoolapEngine

CONSTANTS
  Conn,          \* client connections
  Table,
  TableOf,       \* TableOf[r]: the table row r is in
  FkTable,       \* the tables a FOREIGN KEY names, as child or parent
  DefaultLevel   \* the level of a transaction begun without naming one

ASSUME SessionConstants ==
  /\ TableOf \in [Row -> Table]
  /\ FkTable \subseteq Table
  /\ DefaultLevel \in Level

VARIABLES
  store,      \* the committed rows
  sess,       \* sess[c]: the Rust Session of c
  hasTx,      \* hasTx[c]: ThdContext holds a StoolapTx handle
  bulkOwns,   \* bulkOwns[c]: the bulk insert of the statement opened it
  pc,         \* pc[c]: where MariaDB is in c's statement
  explicit,   \* explicit[c]: OPTION_NOT_AUTOCOMMIT | OPTION_BEGIN
  reply,      \* reply[c]: what c was last told of its writes
  base,       \* observer: the rows c's snapshot transaction was promised
  cut,        \* observer: the rows as c's statement first read them
  landed,     \* observer: c's statement committed a write before its end
  anomaly     \* observer: what c read against those promises

vars == <<store, sess, hasTx, bulkOwns, pc, explicit, reply,
          base, cut, landed, anomaly>>
observers == <<base, cut, landed, anomaly>>

Slot == {"none", "exec", "stmtTx"}     \* whose handle a table handle is
NoHandles == [t \in Table |-> "none"]

SessionState ==
  [open : BOOLEAN,                              \* AtomicBool open
   exec : Transaction \cup {None},              \* installed in the executor
   stmtTx : Transaction \cup {None},            \* the statement's own
   stmtWrote : BOOLEAN,
   tables : [Table -> Slot],                    \* read handles
   writeTables : [Table -> Slot],               \* write handles
   view : State \cup {None}]                    \* the statement's view

NewSession ==
  [open |-> FALSE, exec |-> None, stmtTx |-> None, stmtWrote |-> FALSE,
   tables |-> NoHandles, writeTables |-> NoHandles, view |-> None]

(* "bulk": inside a multi-row SQL insert's own transaction.  "modified": a *)
(* pushed UPDATE / DELETE has run, the whole of its statement.  "failed":  *)
(* an error was returned that MariaDB will fail the statement with.        *)
Phase == {"idle", "stmt", "bulk", "modified", "failed"}

(* Its writes are committed, or as good as the open transaction; or they   *)
(* are not, because of an error or a ROLLBACK.                             *)
Reply == {"none", "done", "undone"}
Tell(c, how) == reply' = [reply EXCEPT ![c] = how]

Anomaly == {"own", "snapshot", "view", "reopened"}

TypeOK ==
  /\ store \in State
  /\ sess \in [Conn -> SessionState]
  /\ hasTx \in [Conn -> BOOLEAN]
  /\ bulkOwns \in [Conn -> BOOLEAN]
  /\ pc \in [Conn -> Phase]
  /\ explicit \in [Conn -> BOOLEAN]
  /\ reply \in [Conn -> Reply]
  /\ base \in [Conn -> State \cup {None}]
  /\ cut \in [Conn -> State \cup {None}]
  /\ landed \in [Conn -> BOOLEAN]
  /\ anomaly \in [Conn -> SUBSET Anomaly]

Init ==
  /\ store \in State
  /\ sess = [c \in Conn |-> NewSession]
  /\ hasTx = [c \in Conn |-> FALSE]
  /\ bulkOwns = [c \in Conn |-> FALSE]
  /\ pc = [c \in Conn |-> "idle"]
  /\ explicit = [c \in Conn |-> FALSE]
  /\ reply = [c \in Conn |-> "none"]
  /\ base = [c \in Conn |-> None]
  /\ cut = [c \in Conn |-> None]
  /\ landed = [c \in Conn |-> FALSE]
  /\ anomaly = [c \in Conn |-> {}]

-----------------------------------------------------------------------------
(* The Rust Session: each of its calls as the session and store it leaves. *)
(* A call's Result, Ok or Err, with the session and the store it leaves.   *)

Ok(s, db) == [s |-> s, db |-> db, res |-> "Ok"]
Err(s, db) == [s |-> s, db |-> db, res |-> "Err"]

TxIn(s, slot) == IF slot = "exec" THEN s.exec ELSE s.stmtTx

(* Mutant: a commit leaves only the rows it wrote.                         *)
CommitForgetsTheRest(s, tx, db) == {Ok(s, tx.writes)}

(* A commit installs every write, or fails and is rolled back, which it    *)
(* may only when there is something to check.                              *)
CommitOutcomes(s, tx, db) ==
  {Ok(s, Install(tx.writes, db))} \cup
  (IF WroteAnything(tx) THEN {Err(s, db)} ELSE {})

EndStatement(s, commit, db) ==
  LET cleared == [s EXCEPT !.tables = NoHandles, !.writeTables = NoHandles,
                           !.view = None]
      ended == [cleared EXCEPT !.stmtTx = None, !.stmtWrote = FALSE]
  IN  CASE s.stmtTx = None -> {Ok(cleared, db)}
        [] s.stmtTx # None /\ commit /\ s.stmtWrote ->
             CommitOutcomes(ended, s.stmtTx, db)
        [] OTHER -> {Ok(ended, db)}

(* Mutant: begin forgets to end the statement's direct access.             *)
BeginKeepsStatement(s, level, db) ==
  {Ok([s EXCEPT !.exec = NewTransaction(level, db), !.open = TRUE],
           db)}

(* begin refuses an open transaction, ends the statement's direct access,  *)
(* and installs a new transaction.                                         *)
BeginSession(s, level, db) ==
  IF s.open THEN {Err(s, db)}
  ELSE {IF o.res = "Ok"
          THEN Ok([o.s EXCEPT !.exec = NewTransaction(level, o.db),
                                   !.open = TRUE], o.db)
          ELSE o : o \in EndStatement(s, TRUE, db)}

(* Mutant: the handles outlive their transaction.                          *)
TakeKeepsHandles(s) == [s EXCEPT !.open = FALSE, !.exec = None]

Take(s) ==
  [s EXCEPT !.open = FALSE, !.tables = NoHandles, !.writeTables = NoHandles,
            !.exec = None]

CommitSession(s, db) ==
  IF s.exec = None THEN {Err(Take(s), db)}
                   ELSE CommitOutcomes(Take(s), s.exec, db)

RollbackSession(s) == Take(s)

(* with_handle, once for the transaction the handle is taken of ...        *)
HandleTx(s, db) ==
  IF s.open \/ s.stmtTx # None
    THEN s
    ELSE [s EXCEPT !.stmtTx = NewTransaction(DefaultLevel, db)]

HandleSlot(s) == IF s.open THEN "exec" ELSE "stmtTx"

(* Mutant: each table's read handle captures a view of its own.            *)
ReadHandleOwnView(s, t, db) ==
  LET h == HandleTx(s, db)
      tx == TxIn(h, HandleSlot(h))
  IN  IF s.tables[t] # "none" THEN s
      ELSE [h EXCEPT !.view = IF tx.level = "RC" THEN Sees(tx, db) ELSE @,
                     !.tables = [@ EXCEPT ![t] = HandleSlot(h)]]

(* ... and once for each map.  open_table captures the statement's view    *)
(* for the first read handle under RC.                                     *)
ReadHandle(s, t, db) ==
  LET h == HandleTx(s, db)
      tx == TxIn(h, HandleSlot(h))
      viewed == [h EXCEPT !.view = IF h.view = None THEN Sees(tx, db) ELSE @]
  IN  IF s.tables[t] # "none" THEN s
      ELSE [(IF tx.level = "RC" THEN viewed ELSE h)
              EXCEPT !.tables = [@ EXCEPT ![t] = HandleSlot(h)]]

(* Mutant: stmt_wrote is not set, and the commit rolls back.               *)
WriteHandleUnmarked(s, t, db) ==
  IF s.writeTables[t] # "none" THEN s
  ELSE [HandleTx(s, db) EXCEPT !.writeTables = [@ EXCEPT ![t] = HandleSlot(HandleTx(s, db))]]

WriteHandle(s, t, db) ==
  LET w == [s EXCEPT !.stmtWrote = @ \/ ~s.open]
      h == HandleTx(w, db)
  IN  IF s.writeTables[t] # "none" THEN w
      ELSE [h EXCEPT !.writeTables = [@ EXCEPT ![t] = HandleSlot(h)]]

(* with_table: the handle a direct read of t goes through, and what row r  *)
(* reads there.                                                            *)
TableForRead(s, t, db) ==
  IF s.writeTables[t] # "none" THEN s ELSE ReadHandle(s, t, db)

DirectValue(s, t, r, db) ==
  LET slot == IF s.writeTables[t] # "none" THEN s.writeTables[t]
                                           ELSE s.tables[t]
      tx == TxIn(s, slot)
  IN  IF s.writeTables[t] = "none" /\ tx.level = "RC"
        THEN s.view[r] ELSE Sees(tx, db)[r]

(* Mutant: outside an open transaction a SELECT is always autocommit.      *)
QueryValueAutocommit(s, r, db) ==
  IF s.open THEN Sees(s.exec, db)[r] ELSE db[r]

(* run, for a SELECT: the open transaction, else the statement's own.      *)
QueryValue(s, r, db) ==
  CASE s.open -> Sees(s.exec, db)[r]
    [] ~s.open /\ s.stmtTx # None -> Sees(s.stmtTx, db)[r]
    [] OTHER -> db[r]

-----------------------------------------------------------------------------
(* Writes and the engine's row conflicts.                                  *)

HoldsRow(d, r) ==
  \/ sess[d].exec # None /\ Wrote(sess[d].exec, r)
  \/ sess[d].stmtTx # None /\ Wrote(sess[d].stmtTx, r)

PutIn(s, slot, r, v) ==
  IF slot = "exec" THEN [s EXCEPT !.exec = Put(@, r, v)]
                   ELSE [s EXCEPT !.stmtTx = Put(@, r, v)]

MayPut(c, s, slot, r) ==
  /\ \A d \in Conn \ {c} : ~HoldsRow(d, r)
  /\ ~Overtaken(TxIn(s, slot), r, store)

(* Mutant: SQL writes do not look for an open transaction.                 *)
RunWriteAutocommit(c, s, r, v) ==
  /\ \A d \in Conn : ~HoldsRow(d, r)
  /\ sess' = [sess EXCEPT ![c] = s]
  /\ store' = [store EXCEPT ![r] = v]
  /\ landed' = [landed EXCEPT ![c] = TRUE]

(* run, for INSERT, UPDATE or DELETE of one row: in the open transaction,  *)
(* or autocommit, where the statement's own transaction is one more other. *)
RunWrite(c, s, r, v) ==
  IF s.open
    THEN /\ MayPut(c, s, "exec", r)
         /\ sess' = [sess EXCEPT ![c] = PutIn(s, "exec", r, v)]
         /\ UNCHANGED <<store, landed>>
    ELSE /\ \A d \in Conn : ~HoldsRow(d, r)
         /\ sess' = [sess EXCEPT ![c] = s]
         /\ store' = [store EXCEPT ![r] = v]
         /\ landed' = [landed EXCEPT ![c] = TRUE]

-----------------------------------------------------------------------------
(* Observers.                                                              *)

OwnWrite(s, r) ==
  CASE s.exec # None /\ Wrote(s.exec, r) -> s.exec.writes[r]
    [] s.stmtTx # None /\ Wrote(s.stmtTx, r) -> s.stmtTx.writes[r]
    [] OTHER -> None

(* c read v in row r with session s; through says whether the read went    *)
(* through a read handle.  "reopened" is a cut lost to a transaction begun *)
(* in mid-statement.                                                       *)
Observe(c, s, r, v, through) ==
  LET own == OwnWrite(s, r)
      torn == through /\ own = None /\ cut[c] # None /\ v # cut[c][r]
      seen == {a \in Anomaly :
                 \/ a = "own" /\ own # None /\ v # own
                 \/ a = "snapshot" /\ own = None /\ base[c] # None
                                   /\ v # base[c][r]
                 \/ a = "view" /\ torn /\ ~bulkOwns[c]
                 \/ a = "reopened" /\ torn /\ bulkOwns[c]}
  IN  anomaly' = [anomaly EXCEPT ![c] = seen]

(* A session that has begun a transaction at level, over db.               *)
Promise(c, level, db) ==
  base' = [base EXCEPT ![c] = IF level = "SI" THEN db ELSE None]

-----------------------------------------------------------------------------
(* MariaDB opens and ends transactions.                                    *)

(* BEGIN / SET autocommit = 0: the engine is not called.                   *)
BeginTrx(c) ==
  /\ pc[c] = "idle" /\ ~explicit[c]
  /\ explicit' = [explicit EXCEPT ![c] = TRUE]
  /\ Tell(c, "none")
  /\ UNCHANGED <<store, sess, hasTx, bulkOwns, pc, observers>>

(* Mutant: the isolation level asked for is not passed on.                 *)
ContextBeginDefault(c, level) ==
  \E o \in BeginSession(sess[c], DefaultLevel, store) :
    /\ o.res = "Ok"
    /\ sess' = [sess EXCEPT ![c] = o.s]
    /\ store' = o.db
    /\ hasTx' = [hasTx EXCEPT ![c] = TRUE]

(* ThdContext::begin, past its idempotent return: the session's begin,     *)
(* the handle kept when it went well.                                      *)
ContextBegin(c, level) ==
  \E o \in BeginSession(sess[c], level, store) :
    /\ o.res = "Ok"
    /\ sess' = [sess EXCEPT ![c] = o.s]
    /\ store' = o.db
    /\ hasTx' = [hasTx EXCEPT ![c] = TRUE]

(* START TRANSACTION WITH CONSISTENT SNAPSHOT anchors the snapshot now.    *)
StartConsistentSnapshot(c) ==
  /\ pc[c] = "idle" /\ ~explicit[c]
  /\ explicit' = [explicit EXCEPT ![c] = TRUE]
  /\ ContextBegin(c, "SI")
  /\ Promise(c, "SI", store)
  /\ Tell(c, "none")
  /\ UNCHANGED <<bulkOwns, pc, cut, landed, anomaly>>

(* external_lock or a pushdown factory: register_trx opens the engine's    *)
(* transaction with the first statement of an explicit one.                *)
StartStatement(c) ==
  /\ pc[c] = "idle"
  /\ pc' = [pc EXCEPT ![c] = "stmt"]
  /\ bulkOwns' = [bulkOwns EXCEPT ![c] = FALSE]
  /\ Tell(c, "none")
  /\ IF explicit[c] /\ ~hasTx[c]
       THEN \E l \in Level : ContextBegin(c, l) /\ Promise(c, l, store)
       ELSE UNCHANGED <<store, sess, hasTx, base>>
  /\ UNCHANGED <<explicit, cut, landed, anomaly>>

(* Mutants: autocommit ends no transaction; any statement ends it.          *)
RealEndOnlyAll(c, all) == all
RealEndAlways(c, all) == TRUE

(* real_commit, real_rollback: COMMIT and ROLLBACK end the transaction, and *)
(* so does a statement in autocommit.                                      *)
RealEnd(c, all) == all \/ ~explicit[c]

(* commit_cb: ends the statement's direct access, and the transaction too  *)
(* when all is set or the session is in autocommit.  Whether a failure     *)
(* left something open is what the invariants are about.                   *)
CommitCallback(c, all) ==
  \E o \in EndStatement(sess[c], TRUE, store) :
    IF o.res = "Ok" /\ RealEnd(c, all) /\ hasTx[c]
      THEN \E p \in CommitSession(o.s, o.db) :
             /\ sess' = [sess EXCEPT ![c] = p.s]
             /\ store' = p.db
             /\ hasTx' = [hasTx EXCEPT ![c] = FALSE]
             /\ base' = [base EXCEPT ![c] = None]
             /\ Tell(c, IF p.res = "Ok" THEN "done" ELSE "undone")
      ELSE /\ sess' = [sess EXCEPT ![c] = o.s]
           /\ store' = o.db
           /\ Tell(c, IF o.res = "Ok" THEN "done" ELSE "undone")
           /\ UNCHANGED <<hasTx, base>>

RollbackCallback(c, all) ==
  \E o \in EndStatement(sess[c], FALSE, store) :
    /\ Tell(c, "undone")
    /\ IF RealEnd(c, all) /\ hasTx[c]
         THEN /\ sess' = [sess EXCEPT ![c] = RollbackSession(o.s)]
              /\ store' = o.db
              /\ hasTx' = [hasTx EXCEPT ![c] = FALSE]
              /\ base' = [base EXCEPT ![c] = None]
         ELSE /\ sess' = [sess EXCEPT ![c] = o.s]
              /\ store' = o.db
              /\ UNCHANGED <<hasTx, base>>

StatementOver(c) ==
  /\ pc' = [pc EXCEPT ![c] = "idle"]
  /\ cut' = [cut EXCEPT ![c] = None]
  /\ landed' = [landed EXCEPT ![c] = FALSE]
  /\ anomaly' = [anomaly EXCEPT ![c] = {}]

StatementCommits(c) ==
  /\ pc[c] \in {"stmt", "modified"}
  /\ CommitCallback(c, FALSE)
  /\ StatementOver(c)
  /\ UNCHANGED <<bulkOwns, explicit>>

StatementRollsBack(c) ==
  /\ pc[c] \in {"stmt", "failed"}
  /\ RollbackCallback(c, FALSE)
  /\ StatementOver(c)
  /\ UNCHANGED <<bulkOwns, explicit>>

CommitTrx(c) ==
  /\ pc[c] = "idle" /\ explicit[c]
  /\ CommitCallback(c, TRUE)
  /\ explicit' = [explicit EXCEPT ![c] = FALSE]
  /\ UNCHANGED <<bulkOwns, pc, cut, landed, anomaly>>

RollbackTrx(c) ==
  /\ pc[c] = "idle" /\ explicit[c]
  /\ RollbackCallback(c, TRUE)
  /\ explicit' = [explicit EXCEPT ![c] = FALSE]
  /\ UNCHANGED <<bulkOwns, pc, cut, landed, anomaly>>

(* close_connection deletes the context: the handle it still holds is      *)
(* rolled back, and dropping the Session rolls the rest back.  The next    *)
(* client of c starts afresh.                                              *)
CloseConnection(c) ==
  /\ pc[c] = "idle"
  /\ sess' = [sess EXCEPT ![c] = NewSession]
  /\ hasTx' = [hasTx EXCEPT ![c] = FALSE]
  /\ explicit' = [explicit EXCEPT ![c] = FALSE]
  /\ base' = [base EXCEPT ![c] = None]
  /\ Tell(c, "undone")
  /\ UNCHANGED <<store, bulkOwns, pc, cut, landed, anomaly>>

-----------------------------------------------------------------------------
(* What a statement does between its start and its end.                    *)

(* A row read through a table handle: a lookup, or a page of a scan.       *)
DirectRead(c, r) ==
  LET t == TableOf[r]
      s == TableForRead(sess[c], t, store)
      through == s.writeTables[t] = "none"
      now == Sees(TxIn(s, HandleSlot(s)), store)
  IN  /\ pc[c] = "stmt"
      /\ sess' = [sess EXCEPT ![c] = s]
      /\ Observe(c, s, r, DirectValue(s, t, r, store), through)
      /\ cut' = [cut EXCEPT ![c] = IF @ = None /\ through THEN now ELSE @]
      /\ UNCHANGED <<store, hasTx, bulkOwns, pc, explicit, reply, base, landed>>

(* A row read by a SELECT sent to Stoolap: a pushed query or derived       *)
(* table, SELECT MAX of an AUTO_INCREMENT column.                          *)
Query(c, r) ==
  /\ pc[c] = "stmt"
  /\ Observe(c, sess[c], r, QueryValue(sess[c], r, store), FALSE)
  /\ UNCHANGED <<store, sess, hasTx, bulkOwns, pc, explicit, reply,
                 base, cut, landed>>

(* write_row, update_row, delete_row on a table no FOREIGN KEY names.      *)
DirectWrite(c, r, v) ==
  LET t == TableOf[r]
      s == WriteHandle(sess[c], t, store)
  IN  /\ pc[c] = "stmt" /\ t \notin FkTable
      /\ MayPut(c, s, s.writeTables[t], r)
      /\ sess' = [sess EXCEPT ![c] = PutIn(s, s.writeTables[t], r, v)]
      /\ UNCHANGED <<store, hasTx, bulkOwns, pc, explicit, reply, observers>>

(* The same on a table a FOREIGN KEY names: the write handle is taken      *)
(* before it turns out that the write must go through SQL.                 *)
RowSqlWrite(c, r, v) ==
  LET t == TableOf[r]
  IN  /\ pc[c] = "stmt" /\ t \in FkTable
      /\ RunWrite(c, WriteHandle(sess[c], t, store), r, v)
      /\ UNCHANGED <<hasTx, bulkOwns, pc, explicit, reply, base, cut, anomaly>>

(* Either of them fails (a duplicate, a conflict, a missing parent): the   *)
(* handle and what it opened stay; MariaDB goes on with the next row       *)
(* (IGNORE, ODKU) or fails the statement.                                  *)
WriteFails(c, t) ==
  /\ pc[c] = "stmt"
  /\ sess' = [sess EXCEPT ![c] = WriteHandle(@, t, store)]
  /\ \E p \in {"stmt", "failed"} : pc' = [pc EXCEPT ![c] = p]
  /\ UNCHANGED <<store, hasTx, bulkOwns, explicit, reply, observers>>

(* A pushed UPDATE / DELETE: the statement's only access.                  *)
DirectModify(c, r, v) ==
  /\ pc[c] = "stmt"
  /\ sess[c].tables = NoHandles /\ sess[c].writeTables = NoHandles
  /\ RunWrite(c, sess[c], r, v)
  /\ pc' = [pc EXCEPT ![c] = "modified"]
  /\ UNCHANGED <<hasTx, bulkOwns, explicit, reply, base, cut, anomaly>>

DirectModifyFails(c) ==
  /\ pc[c] = "stmt"
  /\ sess[c].tables = NoHandles /\ sess[c].writeTables = NoHandles
  /\ pc' = [pc EXCEPT ![c] = "failed"]
  /\ UNCHANGED <<store, sess, hasTx, bulkOwns, explicit, reply, observers>>

-----------------------------------------------------------------------------
(* Multi-row inserts into a table a FOREIGN KEY names.  MariaDB batches    *)
(* rows only for a statement that runs no trigger or stored function, so   *)
(* nothing else has been written in it.                                    *)

(* The buffer's rows outside an open transaction: sql_write::insert begins *)
(* one of the session's own, which ThdContext does not know of.            *)
BulkInsertBegins(c, t) ==
  /\ pc[c] = "stmt" /\ t \in FkTable
  /\ ~sess[c].open /\ ~sess[c].stmtWrote
  /\ \E o \in BeginSession(WriteHandle(sess[c], t, store), DefaultLevel,
                           store) :
       /\ sess' = [sess EXCEPT ![c] = o.s]
       /\ store' = o.db
       /\ pc' = [pc EXCEPT ![c] = IF o.res = "Ok" THEN "bulk" ELSE "failed"]
  /\ UNCHANGED <<hasTx, bulkOwns, explicit, reply, observers>>

BulkInsertRow(c, r, v) ==
  /\ pc[c] = "bulk" /\ TableOf[r] \in FkTable
  /\ RunWrite(c, sess[c], r, v)
  /\ UNCHANGED <<hasTx, bulkOwns, pc, explicit, reply, base, cut, anomaly>>

BulkInsertFails(c) ==
  /\ pc[c] = "bulk"
  /\ sess' = [sess EXCEPT ![c] = RollbackSession(@)]
  /\ pc' = [pc EXCEPT ![c] = "failed"]
  /\ UNCHANGED <<store, hasTx, bulkOwns, explicit, reply, observers>>

(* The buffer was the statement's last: it only has its end to come.       *)
BulkInsertCommits(c) ==
  /\ pc[c] = "bulk"
  /\ \E o \in CommitSession(sess[c], store) :
       /\ sess' = [sess EXCEPT ![c] = o.s]
       /\ store' = o.db
       /\ landed' = [landed EXCEPT ![c] = (o.res = "Ok")]
       /\ pc' = [pc EXCEPT ![c] = IF o.res = "Ok" THEN "modified" ELSE "failed"]
  /\ UNCHANGED <<hasTx, bulkOwns, explicit, reply, base, cut, anomaly>>

(* A full buffer in mid-statement: flush_bulk_buffer(partial) opens a      *)
(* transaction for the chunks to share; their rows follow as RowSqlWrite.  *)
ChunkOpensTx(c) ==
  /\ pc[c] = "stmt" /\ FkTable # {}
  /\ ~hasTx[c] /\ ~sess[c].stmtWrote
  /\ ContextBegin(c, "RC")
  /\ bulkOwns' = [bulkOwns EXCEPT ![c] = TRUE]
  /\ UNCHANGED <<pc, explicit, reply, observers>>

(* A chunk fails: write_row rolls the shared transaction back at once.     *)
ChunkFails(c) ==
  /\ pc[c] = "stmt" /\ bulkOwns[c] /\ hasTx[c]
  /\ sess' = [sess EXCEPT ![c] = RollbackSession(@)]
  /\ hasTx' = [hasTx EXCEPT ![c] = FALSE]
  /\ bulkOwns' = [bulkOwns EXCEPT ![c] = FALSE]
  /\ pc' = [pc EXCEPT ![c] = "failed"]
  /\ UNCHANGED <<store, explicit, reply, observers>>

-----------------------------------------------------------------------------
StatementStep(c) ==
  \/ \E r \in Row : DirectRead(c, r) \/ Query(c, r)
  \/ \E r \in Row, v \in Val :
       \/ DirectWrite(c, r, v)
       \/ RowSqlWrite(c, r, v)
       \/ DirectModify(c, r, v)
       \/ BulkInsertRow(c, r, v)
  \/ \E t \in Table : WriteFails(c, t) \/ BulkInsertBegins(c, t)
  \/ DirectModifyFails(c)
  \/ BulkInsertFails(c)
  \/ BulkInsertCommits(c)
  \/ ChunkOpensTx(c)
  \/ ChunkFails(c)

TransactionStep(c) ==
  \/ BeginTrx(c)
  \/ StartConsistentSnapshot(c)
  \/ StartStatement(c)
  \/ StatementCommits(c)
  \/ StatementRollsBack(c)
  \/ CommitTrx(c)
  \/ RollbackTrx(c)
  \/ CloseConnection(c)

Next == \E c \in Conn : StatementStep(c) \/ TransactionStep(c)

Spec == Init /\ [][Next]_vars

-----------------------------------------------------------------------------
(* Properties.                                                             *)

(* Session::run, with_handle and ThdContext all pick a transaction by      *)
(* asking whether one is open; that is only right while the open one and   *)
(* the statement's own never exist together, and while ThdContext and the  *)
(* session agree (a multi-row SQL insert's own transaction aside).         *)
OneTransaction ==
  \A c \in Conn :
    LET s == sess[c]
    IN  /\ s.open <=> s.exec # None
        /\ ~(s.open /\ s.stmtTx # None)
        /\ hasTx[c] => s.open
        /\ s.open /\ ~hasTx[c] => pc[c] = "bulk"

(* Every cached table handle is one of the transaction that is live: one   *)
(* kept past its transaction would read, or write into, an ended one.      *)
HandlesAreLive ==
  \A c \in Conn, t \in Table :
    LET s == sess[c]
    IN  /\ s.tables[t] # "none" => TxIn(s, s.tables[t]) # None
        /\ s.writeTables[t] # "none" => TxIn(s, s.writeTables[t]) # None

(* Between statements nothing of the statement is left: no transaction of  *)
(* its own, no handle, no view; and outside an explicit transaction no     *)
(* transaction at all, the one a chunked bulk insert opened included.      *)
QuietBetweenStatements ==
  \A c \in Conn : pc[c] = "idle" =>
    LET s == sess[c]
    IN  /\ s.stmtTx = None /\ s.view = None
        /\ s.tables = NoHandles /\ s.writeTables = NoHandles
        /\ s.open => explicit[c]

(* A statement sees what it, or its transaction, has written and not yet   *)
(* committed, whichever way the write and the read went.                   *)
ReadsOwnWrites == \A c \in Conn : "own" \notin anomaly[c]

(* REPEATABLE READ, SERIALIZABLE and WITH CONSISTENT SNAPSHOT transactions *)
(* read the rows as they were committed when the transaction was opened.   *)
SnapshotHolds == \A c \in Conn : "snapshot" \notin anomaly[c]

(* The direct reads of one statement, on tables it has not written, read   *)
(* one committed state, unless a chunked bulk insert begins a transaction  *)
(* in mid-statement.                                                       *)
OneStatementView == \A c \in Conn : "view" \notin anomaly[c]

(* The same with no exception: what session.rs says of its fields.         *)
OneStatementViewAlways ==
  \A c \in Conn : anomaly[c] \cap {"view", "reopened"} = {}

(* No write of an explicit transaction is committed before its COMMIT.     *)
ExplicitNeverLands == \A c \in Conn : explicit[c] /\ pc[c] # "idle" => ~landed[c]

(* "One statement transaction: a failing row leaves nothing behind."       *)
FailedStatementLeavesNothing ==
  \A c \in Conn : pc[c] = "failed" => ~landed[c]

(* The writes a connection has pending, for the abstract store.            *)
Pending ==
  [c \in Conn |->
     CASE sess[c].exec # None -> sess[c].exec.writes
       [] sess[c].exec = None /\ sess[c].stmtTx # None -> sess[c].stmtTx.writes
       [] OTHER -> NoWrites]

Abstract == INSTANCE TxnStore WITH pend <- Pending

(* The session keeps the promise of the abstract store: a transaction's    *)
(* writes become visible together at its end or never, none is lost on the *)
(* way, and an explicit transaction is never committed in part.            *)
ImplementsTxnStore == Abstract!Spec
=============================================================================
