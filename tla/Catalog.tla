------------------------------- MODULE Catalog -------------------------------
(***************************************************************************)
(* The tables stoolap has against the ones MariaDB has, and what the       *)
(* plugin remembers of them: the reconciled set (tables open() need not    *)
(* create), and the row counts a handler, a transaction and the process    *)
(* keep for the optimizer.                                                 *)
(*                                                                         *)
(* MariaDB's metadata locks keep DDL away from a table a transaction or a  *)
(* running statement uses; nothing else orders the connections.            *)
(***************************************************************************)
EXTENDS Integers, FiniteSets

CONSTANTS
  Conn, Table,
  Home,        \* the tables of the database DROP DATABASE drops
  ForeignKeys, \* sets of FOREIGN KEYs there may be: <<child, parent>>
  MaxCount,    \* UINT64_MAX
  MaxRows,     \* bound: rows of a table
  Busy,        \* bound: tables written and counted
  Transacting, \* bound: connections that open transactions
  MaxWrites,   \* bound: statements that write
  MaxDdl,      \* bound: DDL statements
  Gone, None

ASSUME CatalogConstants ==
  /\ IsFiniteSet(Table) /\ Home \subseteq Table /\ Busy \subseteq Table
  /\ Transacting \subseteq Conn
  /\ MaxCount \in Nat /\ MaxRows \in 0 .. MaxCount /\ MaxWrites \in Nat /\ MaxDdl \in Nat
  /\ Gone \notin Int /\ None \notin Int
  /\ \A keys \in ForeignKeys :
       keys \subseteq {e \in Table \X Table : e[1] # e[2]}

VARIABLES
  frm,         \* tables MariaDB has
  rows,        \* committed rows of each table stoolap has, Gone otherwise
  fks,         \* the FOREIGN KEYs stoolap enforces
  declared,    \* those the CREATE TABLEs declare
  reconciled,  \* Engine::reconciled_
  records,     \* Engine::records_; None: no entry, or invalidated
  local,       \* cached_records_ of the handler MariaDB caches for a table
  tx,          \* connections with a StoolapTx
  snap, own,   \* the rows it saw at its beginning, and its changes to them
  saved,       \* own at its SAVEPOINT, or None
  counts,      \* ThdContext::record_counts_
  dirty,       \* ThdContext::dirty_record_tables_
  due,         \* tables whose invalidation follows a commit just made
  auto,        \* an autocommit write not committed yet, <<table, rows>>
  uses,        \* metadata locks of a transaction
  dropping,    \* tables DROP DATABASE has still to drop
  blurred,     \* observer: tables whose count the transaction cannot know
  forced,      \* observer: parents dropped under foreign_key_checks = 0
  taken,       \* observer: gone along with a parent, under another database's child
  writes, ddls \* writing statements and DDL statements so far

engine  == <<rows, fks>>
catalog == <<frm, declared, reconciled, dropping, forced, taken>>
txn     == <<tx, snap, own, saved, uses, blurred>>
caches  == <<records, local, counts, dirty, due>>
bounds  == <<writes, ddls>>
vars    == <<engine, catalog, txn, caches, auto, bounds>>

Count == 0 .. MaxCount
NoRows == [t \in Table |-> Gone]

Init ==
  /\ declared \in ForeignKeys
  (* A process that has run for a while, one just started, or one on a     *)
  (* fresh data directory: MariaDB may have tables stoolap has not.        *)
  /\ frm \in {Table, {}}
  /\ \E stored \in {frm, {}} :
       /\ rows = [t \in Table |-> IF t \in stored THEN 0 ELSE Gone]
       /\ fks = {e \in declared : e[1] \in stored}
       /\ reconciled \in {stored, {}}
  /\ records = [t \in Table |-> None] /\ local = [t \in Table |-> None]
  /\ tx = {} /\ uses = [c \in Conn |-> {}]
  /\ snap = [c \in Conn |-> NoRows] /\ own = [c \in Conn |-> [t \in Table |-> 0]]
  /\ saved = [c \in Conn |-> None]
  /\ counts = [c \in Conn |-> [t \in Table |-> None]]
  /\ dirty = [c \in Conn |-> {}] /\ due = [c \in Conn |-> {}]
  /\ auto = [c \in Conn |-> None]
  /\ dropping = {} /\ forced = {} /\ taken = {} /\ writes = 0 /\ ddls = 0
  /\ blurred = [c \in Conn |-> {}]

-----------------------------------------------------------------------------
(* A connection whose last call has returned may make another; DDL needs    *)
(* the table to itself.                                                     *)
Idle(c) == due[c] = {} /\ auto[c] = None
Locked == IF dropping = {} THEN {} ELSE Home
Shared(c, t) == t \in frm \ Locked /\ Idle(c)
Exclusive(c, ts) ==
  /\ c \notin tx /\ Idle(c) /\ dropping = {}
  /\ \A d \in Conn :
       ts \cap (uses[d] \cup due[d] \cup (IF auto[d] = None THEN {} ELSE {auto[d][1]})) = {}

Invalidated(cache, ts) == [t \in Table |-> IF t \in ts THEN None ELSE cache[t]]
Cleared == [t \in Table |-> None]

(* A table created is no longer one that went.                              *)
Back(t) == forced' = forced \ {t} /\ taken' = taken \ {t}

(* open(): a table not reconciled is created unless stoolap has it, without *)
(* FOREIGN KEYs; inside a transaction stoolap refuses to.                   *)
Open(c, t) ==
  /\ Shared(c, t) /\ t \notin reconciled
  /\ rows[t] = Gone => c \notin tx
  /\ rows' = IF rows[t] = Gone THEN [rows EXCEPT ![t] = 0] ELSE rows
  /\ fks' = IF rows[t] = Gone THEN {e \in fks : e[1] # t} ELSE fks
  /\ reconciled' = reconciled \cup {t}
  /\ IF rows[t] = Gone THEN Back(t) ELSE UNCHANGED <<forced, taken>>
  /\ UNCHANGED <<frm, declared, dropping, txn, caches, auto, bounds>>

Usable(c, t) == Shared(c, t) /\ t \in reconciled \cap Busy

(* ThdContext::begin.                                                       *)
Begin(c) ==
  /\ c \in Transacting \ tx /\ Idle(c)
  /\ tx' = tx \cup {c}
  /\ snap' = [snap EXCEPT ![c] = rows]
  /\ own' = [own EXCEPT ![c] = [t \in Table |-> 0]]
  /\ saved' = [saved EXCEPT ![c] = None] /\ blurred' = [blurred EXCEPT ![c] = {}]
  /\ counts' = [counts EXCEPT ![c] = Cleared]
  /\ UNCHANGED <<engine, catalog, uses, records, local, dirty, due, auto, bounds>>

(* What the transaction counts: its snapshot and its own changes.           *)
Seen(c, t) == snap[c][t] + own[c][t]

(* The count moved by d, or forgotten where that would wrap.                *)
(* Mutant: without the guard.                                               *)
AdjustedUnguarded(n, d) == IF n = None THEN None ELSE n + d
Adjusted(n, d) ==
  IF n = None THEN None ELSE IF n + d \in Count THEN n + d ELSE None
(* adjust_records_cache in a transaction: the handler's count wrapping      *)
(* forgets the transaction's too.                                           *)
LocalWraps(t, d) == local[t] # None /\ Adjusted(local[t], d) = None
(* Mutant: a write in a transaction leaves its count.                       *)
TxCountKept(c, t, d) == counts[c][t]
TxCount(c, t, d) == IF LocalWraps(t, d) THEN None ELSE Adjusted(counts[c][t], d)

Children(t) == {e[1] : e \in {f \in fks : f[2] = t}}

(* A write in a transaction changes t by d rows.  Rows deleted from a       *)
(* parent may take rows of a child along (ON DELETE CASCADE): that child's  *)
(* counts are not told.                                                     *)
Write(c, t, d) ==
  /\ c \in tx /\ Usable(c, t) /\ writes < MaxWrites
  /\ snap[c][t] # Gone /\ Seen(c, t) + d \in 0 .. MaxRows
  /\ \E lost \in SUBSET Children(t) :
       /\ lost # {} => d < 0
       /\ \A k \in lost : snap[c][k] # Gone /\ Seen(c, k) > 0
       /\ own' = [own EXCEPT ![c] = [k \in Table |->
                    @[k] + IF k = t THEN d ELSE IF k \in lost THEN -1 ELSE 0]]
       /\ blurred' = [blurred EXCEPT ![c] = @ \cup lost]
  /\ counts' = [counts EXCEPT ![c][t] = TxCount(c, t, d)]
  /\ local' = [local EXCEPT ![t] = Adjusted(@, d)]
  /\ dirty' = [dirty EXCEPT ![c] = @ \cup {t}]
  /\ uses' = [uses EXCEPT ![c] = @ \cup {t}]
  /\ writes' = writes + 1
  /\ UNCHANGED <<engine, catalog, tx, snap, saved, records, due, auto, ddls>>

(* A buffered insert that failed may leave some of its rows.                *)
FailedInsert(c, t, d) ==
  /\ d > 0 /\ c \in tx /\ Usable(c, t) /\ writes < MaxWrites
  /\ snap[c][t] # Gone /\ Seen(c, t) + d \in 0 .. MaxRows
  /\ own' = [own EXCEPT ![c][t] = @ + d]
  /\ counts' = [counts EXCEPT ![c][t] = None]
  /\ local' = [local EXCEPT ![t] = None]
  /\ dirty' = [dirty EXCEPT ![c] = @ \cup {t}]
  /\ uses' = [uses EXCEPT ![c] = @ \cup {t}]
  /\ writes' = writes + 1
  /\ UNCHANGED <<engine, catalog, tx, snap, saved, blurred, records, due, auto, ddls>>

Savepoint(c) ==
  /\ c \in tx /\ Idle(c) /\ saved[c] = None
  /\ saved' = [saved EXCEPT ![c] = own[c]]
  /\ UNCHANGED <<engine, catalog, tx, snap, own, uses, blurred, caches, auto, bounds>>

(* ROLLBACK TO SAVEPOINT: the counts of the process are invalidated, those  *)
(* of the transaction stay.                                                 *)
RollbackToSavepoint(c) ==
  /\ c \in tx /\ Idle(c) /\ saved[c] # None
  /\ own' = [own EXCEPT ![c] = saved[c]]
  /\ blurred' = [blurred EXCEPT ![c] = @ \cup {t \in Table : own[c][t] # saved[c][t]}]
  /\ records' = Invalidated(records, dirty[c])
  /\ dirty' = [dirty EXCEPT ![c] = {}]
  /\ UNCHANGED <<engine, catalog, tx, snap, saved, uses, local, counts, due, auto, bounds>>

(* ThdContext::commit and rollback, the destructor's rollback with them:    *)
(* the transaction ends in stoolap first (a commit may fail).               *)
EndTx(c) ==
  /\ c \in tx /\ Idle(c)
  /\ rows' \in {rows, [t \in Table |-> IF rows[t] = Gone THEN Gone
                                       ELSE rows[t] + own[c][t]]}
  /\ \A t \in Table : rows'[t] # Gone => rows'[t] \in 0 .. MaxRows
  /\ tx' = tx \ {c} /\ snap' = [snap EXCEPT ![c] = NoRows]
  /\ due' = [due EXCEPT ![c] = dirty[c]]
  /\ own' = [own EXCEPT ![c] = [t \in Table |-> 0]]
  /\ blurred' = [blurred EXCEPT ![c] = {}] /\ saved' = [saved EXCEPT ![c] = None]
  /\ IF dirty[c] = {}
     THEN counts' = [counts EXCEPT ![c] = Cleared] /\ uses' = [uses EXCEPT ![c] = {}]
     ELSE UNCHANGED <<counts, uses>>
  /\ UNCHANGED <<fks, catalog, records, local, dirty, auto, bounds>>

(* invalidate_dirty_records and what follows it; after a row SQL committed, *)
(* the call's own adjust_records_cache.                                     *)
Invalidate(c) ==
  /\ due[c] # {}
  /\ records' = Invalidated(records, due[c])
  /\ local' = IF dirty[c] = {} THEN Invalidated(local, due[c]) ELSE local
  /\ due' = [due EXCEPT ![c] = {}] /\ dirty' = [dirty EXCEPT ![c] = {}]
  /\ counts' = [counts EXCEPT ![c] = Cleared]
  /\ uses' = [uses EXCEPT ![c] = {}]
  /\ UNCHANGED <<engine, catalog, tx, snap, own, saved, blurred, auto, bounds>>

(* An autocommit write by direct access: the count goes before the          *)
(* statement's transaction is committed at its end ...                      *)
OfForeignKey(t) == \E e \in fks : t \in {e[1], e[2]}
WriteDirect(c, t, d) ==
  /\ c \notin tx /\ Usable(c, t) /\ writes < MaxWrites /\ ~OfForeignKey(t)
  /\ rows[t] # Gone /\ rows[t] + d \in 0 .. MaxRows
  /\ auto' = [auto EXCEPT ![c] = <<t, d>>]
  /\ records' = [records EXCEPT ![t] = None] /\ local' = [local EXCEPT ![t] = None]
  /\ writes' = writes + 1
  /\ UNCHANGED <<engine, catalog, txn, counts, dirty, due, ddls>>

EndStatement(c) ==
  /\ auto[c] # None
  /\ LET t == auto[c][1]   n == rows[t] + auto[c][2]
     IN  rows' \in {rows} \cup {[rows EXCEPT ![t] = m] : m \in {n} \cap 0 .. MaxRows}
  /\ auto' = [auto EXCEPT ![c] = None]
  /\ UNCHANGED <<fks, catalog, txn, caches, bounds>>

(* ... by SQL, as a pushed DELETE, it is committed first.                   *)
WriteSql(c, t, d) ==
  /\ c \notin tx /\ Usable(c, t) /\ writes < MaxWrites /\ (d < 0 \/ OfForeignKey(t))
  /\ rows[t] # Gone /\ rows[t] + d \in 0 .. MaxRows
  /\ \E lost \in SUBSET Children(t) :
       /\ lost # {} => d < 0
       /\ \A k \in lost : rows[k] # Gone /\ rows[k] > 0
       /\ rows' = [k \in Table |-> IF k = t THEN rows[k] + d
                                   ELSE IF k \in lost THEN rows[k] - 1 ELSE rows[k]]
  /\ due' = [due EXCEPT ![c] = {t}]
  /\ writes' = writes + 1
  /\ UNCHANGED <<fks, catalog, txn, records, local, counts, dirty, auto, ddls>>

(* cached_records(): the handler's count, else the transaction's or the     *)
(* process's, else a live count, which only the transaction keeps: one that *)
(* may be of a transaction is never published.                              *)
(* Mutant: what was counted is published.                                   *)
PublishedAlways(t, n) == [records EXCEPT ![t] = n]
Published(t, n) == records
CachedRecords(c, t) ==
  /\ Usable(c, t) /\ local[t] = None /\ rows[t] # Gone
  /\ c \in tx => snap[c][t] # Gone
  /\ LET kept == IF c \in tx THEN counts[c][t] ELSE records[t]
         live == IF c \in tx THEN Seen(c, t) ELSE rows[t]
         n    == IF kept # None THEN kept ELSE live
     IN  /\ local' = [local EXCEPT ![t] = n]
         /\ counts' = IF c \in tx THEN [counts EXCEPT ![c][t] = n] ELSE counts
         /\ records' = Published(t, n)
  /\ uses' = IF c \in tx THEN [uses EXCEPT ![c] = @ \cup {t}] ELSE uses
  /\ UNCHANGED <<engine, catalog, tx, snap, own, saved, blurred, dirty, due, auto, bounds>>

-----------------------------------------------------------------------------
(* DDL.                                                                     *)

CreateTable(c, t) ==
  LET keys == {e \in declared : e[1] = t}
  IN  /\ Exclusive(c, {t}) /\ t \notin frm /\ rows[t] = Gone
      /\ \A e \in keys : rows[e[2]] # Gone
      /\ frm' = frm \cup {t} /\ rows' = [rows EXCEPT ![t] = 0]
      /\ fks' = fks \cup keys
      /\ reconciled' = reconciled \cup {t}
      /\ Back(t)
      /\ ddls < MaxDdl /\ ddls' = ddls + 1
      /\ UNCHANGED <<declared, dropping, txn, caches, auto, writes>>

(* delete_table and drop_table: children among `along` go first; another    *)
(* child refuses it, the ones gone before staying gone.                     *)
ChildrenGone(t, along) == {k \in Children(t) : k \in along /\ rows[k] # Gone}
(* Mutant: a drop looks at no child.                                        *)
RefusingNone(t, along, check) == {}
Refusing(t, along, check) == IF check THEN Children(t) \ along ELSE {}
(* Mutant: a dropped table stays reconciled.                                *)
UnreconcileNot(t) == reconciled
Unreconcile(t) == reconciled \ {t}
Without(ts) == [k \in Table |-> IF k \in ts THEN Gone ELSE rows[k]]
Dropped(t, along) ==
  LET gone == {t} \cup ChildrenGone(t, along)
  IN  /\ rows' = Without(gone)
      /\ fks' = {e \in fks : e[1] \notin gone}
      /\ reconciled' = Unreconcile(t)
      /\ records' = [records EXCEPT ![t] = None]
      /\ frm' = frm \ {t}
      /\ local' = [local EXCEPT ![t] = None]

DropTable(c, t, check) ==
  /\ Exclusive(c, {t}) /\ t \in frm
  /\ Refusing(t, {}, check) = {}
  /\ Dropped(t, {})
  /\ forced' = IF Children(t) = {} THEN forced ELSE forced \cup {t}
  /\ ddls < MaxDdl /\ ddls' = ddls + 1
  /\ UNCHANGED <<declared, dropping, taken, txn, counts, dirty, due, auto, writes>>

DropDatabase(c) ==
  /\ Exclusive(c, frm \cap Home) /\ frm \cap Home # {}
  /\ dropping' = frm \cap Home
  /\ ddls < MaxDdl /\ ddls' = ddls + 1
  /\ UNCHANGED <<engine, frm, declared, reconciled, forced, taken, txn, caches, auto, writes>>

(* The children that go along are not asked who names them.                *)
Take(gone, along) ==
  taken' = taken \cup {k \in gone : Children(k) \ along # {}}

DropNext(t) ==
  LET along == frm \cap Home
  IN  /\ t \in dropping /\ dropping' = dropping \ {t}
      /\ \/ /\ Refusing(t, along, TRUE) = {} /\ Dropped(t, along)
            /\ Take(ChildrenGone(t, along), along)
         \/ /\ Refusing(t, along, TRUE) # {}
            /\ \E gone \in SUBSET ChildrenGone(t, along) :
                 /\ rows' = Without(gone) /\ fks' = {e \in fks : e[1] \notin gone}
                 /\ Take(gone, along)
            /\ UNCHANGED <<frm, reconciled, records, local>>
      /\ UNCHANGED <<declared, forced, txn, counts, dirty, due, auto, bounds>>

(* rename_table; of tables no FOREIGN KEY names.                            *)
RenameTable(c, from, to) ==
  /\ Exclusive(c, {from, to})
  /\ from \in frm /\ to \notin frm /\ rows[from] # Gone /\ rows[to] = Gone
  /\ \A e \in declared : {from, to} \cap {e[1], e[2]} = {}
  /\ frm' = (frm \ {from}) \cup {to}
  /\ rows' = [rows EXCEPT ![to] = rows[from], ![from] = Gone]
  /\ reconciled' = (reconciled \ {from}) \cup {to}
  /\ records' = [records EXCEPT ![to] = IF records[from] # None THEN records[from] ELSE @,
                                ![from] = None]
  /\ local' = [local EXCEPT ![from] = None, ![to] = None]
  /\ ddls < MaxDdl /\ ddls' = ddls + 1
  /\ UNCHANGED <<fks, declared, dropping, forced, taken, txn, counts, dirty, due, auto, writes>>

(* truncate(); set_count_exact once it has succeeded.                       *)
Truncate(c, t) ==
  /\ Exclusive(c, {t}) /\ t \in frm \cap reconciled /\ rows[t] # Gone
  /\ rows' = [rows EXCEPT ![t] = 0]
  /\ records' = [records EXCEPT ![t] = 0] /\ local' = [local EXCEPT ![t] = 0]
  /\ ddls < MaxDdl /\ ddls' = ddls + 1
  /\ UNCHANGED <<fks, catalog, txn, counts, dirty, due, auto, writes>>

Delta == {-1, 1}
Next ==
  \/ \E c \in Conn :
       \/ Begin(c) \/ Savepoint(c) \/ RollbackToSavepoint(c) \/ EndTx(c)
       \/ Invalidate(c) \/ EndStatement(c) \/ DropDatabase(c)
       \/ \E t \in Table :
            \/ Open(c, t) \/ CachedRecords(c, t) \/ CreateTable(c, t) \/ Truncate(c, t)
            \/ \E check \in BOOLEAN : DropTable(c, t, check)
            \/ \E to \in Table : RenameTable(c, t, to)
            \/ \E d \in Delta :
                 \/ Write(c, t, d) \/ WriteDirect(c, t, d) \/ WriteSql(c, t, d)
                 \/ FailedInsert(c, t, d)
  \/ \E t \in Table : DropNext(t)

(* Between a commit and the invalidation the code waits for nothing, and    *)
(* DROP DATABASE drops its tables in a loop.                                *)
Fairness ==
  /\ \A c \in Conn : WF_vars(Invalidate(c))
  /\ \A t \in Table : WF_vars(DropNext(t))

Spec == Init /\ [][Next]_vars /\ Fairness

-----------------------------------------------------------------------------
TypeOK ==
  /\ frm \subseteq Table /\ reconciled \subseteq Table /\ dropping \subseteq frm
  /\ rows \in [Table -> 0 .. MaxRows \cup {Gone}]
  /\ declared \in ForeignKeys /\ fks \subseteq declared
  /\ records \in [Table -> Count \cup {None}] /\ local \in [Table -> Count \cup {None}]
  /\ tx \subseteq Conn
  /\ snap \in [Conn -> [Table -> 0 .. MaxRows \cup {Gone}]]
  /\ own \in [Conn -> [Table -> Int]]
  /\ saved \in [Conn -> [Table -> Int] \cup {None}]
  /\ counts \in [Conn -> [Table -> Count \cup {None}]]
  /\ dirty \in [Conn -> SUBSET Table] /\ due \in [Conn -> SUBSET Table]
  /\ uses \in [Conn -> SUBSET Table] /\ blurred \in [Conn -> SUBSET Table]
  /\ auto \in [Conn -> (Table \X Delta) \cup {None}]
  /\ forced \subseteq Table /\ taken \subseteq Table
  /\ writes \in 0 .. MaxWrites /\ ddls \in 0 .. MaxDdl

(* A count the process holds of a table that is not the committed one.      *)
StaleCount(t) == rows[t] # Gone /\ records[t] \notin {None, rows[t]}

(* The count the process holds is the committed one, whatever is pending in *)
(* transactions: "tx-side counts see this session's uncommitted writes --   *)
(* right for us, wrong to publish".  Only while a connection is on its way  *)
(* from its commit to the invalidation may it be an older one.              *)
GlobalCountHonest ==
  \A t \in Table : StaleCount(t) => \E c \in Conn : t \in due[c]

(* A transaction's count is what its own query would count, its own writes  *)
(* included, from its beginning on; cascades and savepoints apart, which    *)
(* the counts are not told of.                                              *)
TxCountExact ==
  \A c \in tx : \A t \in Table \ blurred[c] :
    counts[c][t] # None => snap[c][t] # Gone /\ counts[c][t] = Seen(c, t)

(* "Any adjusted count is now wrong; re-fetch on next read": after ROLLBACK *)
(* TO SAVEPOINT no count the transaction keeps is one it adjusted.          *)
RefetchedAfterSavepoint ==
  \A c \in tx : \A t \in Table :
    fks = {} /\ counts[c][t] # None => counts[c][t] = Seen(c, t)

(* A table open() passes by as reconciled is there: no DROP, RENAME or DROP *)
(* DATABASE of any connection leaves one behind, a refused one included,    *)
(* but for the tables DROP DATABASE takes from under another database.      *)
ReconciledExists ==
  \A t \in reconciled : rows[t] = Gone => t \in dropping \cup taken

(* A FOREIGN KEY stoolap enforces has both its tables: no parent is dropped *)
(* under a child that names it, unless foreign_key_checks was off, it went  *)
(* along with its own parent, or its DROP DATABASE has yet to come to it.   *)
NoOrphans ==
  \A e \in fks :
    rows[e[1]] # Gone /\ (rows[e[2]] = Gone => e[2] \in forced \cup taken \cup dropping)

(* "DROP DATABASE drops its own children with it, whatever their order, and *)
(* refuses a parent another database's table names": with no proviso.       *)
DropDatabaseRefuses == taken = {}

(* A count of the process that has become wrong does not stay: the commit   *)
(* that made it so invalidates it.                                          *)
StaleCountGoes == \A t \in Table : StaleCount(t) ~> ~StaleCount(t)
=============================================================================
