----------------------------- MODULE UniqueWrites -----------------------------
(***************************************************************************)
(* Direct writes of one table with UNIQUE indexes: what write.rs checks    *)
(* before it hands a row to the engine, and what the engine is left to     *)
(* check.  One transaction, followed call by call, while others commit.    *)
(*                                                                         *)
(* The INTEGER primary key is the row id; a row holds the other columns.   *)
(* A UNIQUE index is the set of its columns.                               *)
(***************************************************************************)
EXTENDS Integers, FiniteSets

CONSTANTS
  Id,         \* row ids
  Col,        \* columns other than the primary key
  Key,        \* values of a column
  Null,       \* a column's NULL
  NoRow,      \* NO_ROW: the id of a row not in the table yet
  Gone,       \* no row
  None,       \* no transaction, not written
  Indexes,    \* the sets of UNIQUE indexes a table may have
  MaxWrites,  \* bound: writes of the transaction
  MaxOthers   \* bound: commits of others during the transaction

Contents == [Col -> Key \cup {Null}]
Primary == {"id"}        \* the primary key, as the index an error names

ASSUME UniqueWritesConstants ==
  /\ IsFiniteSet(Id) /\ IsFiniteSet(Col) /\ IsFiniteSet(Key)
  /\ "id" \notin Col /\ NoRow \notin Id /\ Null \notin Key /\ Gone \notin Contents
  /\ None \notin Contents \cup {Gone}
  /\ Indexes \subseteq SUBSET SUBSET Col
  /\ \A indexes \in Indexes : {} \notin indexes
  /\ MaxWrites \in Nat /\ MaxOthers \in Nat

E == INSTANCE StoolapEngine WITH Row <- Id, Val <- Contents \cup {Gone}

ASSUME NoneIsNoTransaction == None \notin E!State /\ None \notin E!Transaction

VARIABLES
  unique,   \* the table's UNIQUE indexes
  store,    \* the committed rows
  tx,       \* the transaction, None between two
  cur,      \* the row the last read returned, with its contents
  reply,    \* what the last call returned
  dup,      \* last_dup_key_: the index the last duplicate was reported
            \*   for, {} (MAX_KEY) for none since a row was inserted
  writes,   \* writes of the transaction so far
  others    \* commits of others since it began

vars == <<unique, store, tx, cur, reply, dup, writes, others>>

Replies == {"none", "done", "gone", "duplicate", "conflict"}

(* The variables keep their types; a transaction is one of the engine's,   *)
(* and an index is named whenever a duplicate is reported.                 *)
TypeOK ==
  /\ unique \in Indexes
  /\ store \in E!State
  /\ tx \in E!Transaction \cup {None}
  /\ cur \in {None} \cup (Id \X Contents)
  /\ reply \in Replies
  /\ dup \in unique \cup {Primary, {}}
  /\ reply = "duplicate" => dup # {}
  /\ writes \in 0 .. MaxWrites /\ others \in 0 .. MaxOthers

-----------------------------------------------------------------------------
(* Rows and keys.  NULLs never collide.                                    *)

SameKey(x, r, q) == \A c \in x : r[c] = q[c] /\ r[c] # Null

(* The indexes on which row r, as row i, collides with one of rows.        *)
Collides(among, i, r, rows) ==
  {x \in among : \E j \in DOMAIN rows \ {i} :
                   rows[j] # Gone /\ SameKey(x, r, rows[j])}

NoDuplicates(rows) ==
  \A i \in Id : rows[i] # Gone => Collides(unique, i, rows[i], rows) = {}

Seen(t) == E!Sees(t, store)

(* What committing now would make of the table.                            *)
Merged(t) == E!Install(t.writes, store)

-----------------------------------------------------------------------------
(* The engine's table, as write.rs 9-15 describes it.  A call gives the    *)
(* set of its outcomes: the transaction it leaves, what it returns.        *)

Done(t)         == [tx |-> t, reply |-> "done", dup |-> {}]
RowGone(t)      == [tx |-> t, reply |-> "gone", dup |-> {}]
Conflict(t)     == [tx |-> t, reply |-> "conflict", dup |-> {}]
Duplicate(t, x) == [tx |-> t, reply |-> "duplicate", dup |-> x]

(* A write refused for any index of held, else what it leads to.           *)
Unless(held, t, outcomes) ==
  IF held = {} THEN outcomes ELSE {Duplicate(t, x) : x \in held}

(* The primary key is checked against all rows, UNIQUE against committed   *)
(* rows the transaction has not written: its pending rows are in no index. *)
PrimaryTaken(t, i) ==
  IF t.writes[i] = None THEN store[i] # Gone \/ Seen(t)[i] # Gone
                        ELSE t.writes[i] # Gone

Indexed(t) == [j \in Id |-> IF t.writes[j] = None THEN store[j] ELSE Gone]

EngineInsert(t, i, r) ==
  IF PrimaryTaken(t, i)
    THEN {Duplicate(t, Primary)}
    ELSE Unless(Collides(unique, i, r, Indexed(t)), t, {Done(E!Put(t, i, r))})

(* insert_batch: every row or none.                                        *)
EngineInsertBatch(t, i, r, j, q) ==
  LET refused == {o \in EngineInsert(t, i, r) \cup EngineInsert(t, j, q) :
                    o.reply # "done"}
  IN  CASE refused # {} -> refused
        [] refused = {} /\ i = j -> {Duplicate(t, Primary)}
        [] OTHER -> {Done(E!Put(E!Put(t, i, r), j, q))}

(* update_by_row_ids and delete_by_row_ids, which leave UNIQUE to the      *)
(* commit.                                                                 *)
EngineSet(t, i, v) ==
  IF t.writes[i] = None /\ E!Overtaken(t, i, store)
    THEN {Conflict(t)} ELSE {Done(E!Put(t, i, v))}

-----------------------------------------------------------------------------
(* write.rs                                                                *)

(* Mutant: the row's own key counts as taken.                              *)
CheckUniqueOwnToo(t, i, r, changed) ==
  Collides({x \in unique : x \cap changed # {}}, NoRow, r, Seen(t))

(* check_unique: the indexes over a changed column whose key another row   *)
(* holds, of those the transaction sees, pending ones included.            *)
CheckUnique(t, i, r, changed) ==
  Collides({x \in unique : x \cap changed # {}}, i, r, Seen(t))

(* Mutant: a single row goes to the engine unchecked.                      *)
InsertUnchecked(t, i, r) == EngineInsert(t, i, r)

Insert(t, i, r) ==
  Unless(CheckUnique(t, NoRow, r, Col), t, EngineInsert(t, i, r))

(* Mutant: the rows of a batch are not compared with each other.           *)
CheckUniqueSeenOnly(t, r, q) ==
  Collides(unique, NoRow, r, Seen(t)) \cup Collides(unique, NoRow, q, Seen(t))

(* check_unique_batch: two of the rows, or one of them and a row seen.     *)
CheckUniqueBatch(t, r, q) ==
  {x \in unique : SameKey(x, r, q)}
    \cup Collides(unique, NoRow, r, Seen(t))
    \cup Collides(unique, NoRow, q, Seen(t))

InsertBatch(t, i, r, j, q) ==
  Unless(CheckUniqueBatch(t, r, q), t, EngineInsertBatch(t, i, r, j, q))

With(r, changed, new) == [c \in Col |-> IF c \in changed THEN new[c] ELSE r[c]]

(* update, the primary key not set: the row as it is now takes the changed *)
(* columns.                                                                *)
Update(t, i, changed, new) ==
  IF Seen(t)[i] = Gone
    THEN {RowGone(t)}
    ELSE LET r == With(Seen(t)[i], changed, new)
         IN  Unless(CheckUnique(t, i, r, changed), t, EngineSet(t, i, r))

(* Mutant: the row taken out stays out.                                    *)
InsertNoPutBack(t, i, old, j, r) == EngineInsert(t, j, r)

(* The new row goes in where the old one was taken out; if it cannot, the  *)
(* old one goes back, and if that cannot either, its error is returned.    *)
InsertOrPutBack(t, i, old, j, r) ==
  UNION {IF o.reply = "done" THEN {o}
         ELSE {IF p.reply = "done" THEN [o EXCEPT !.tx = p.tx] ELSE p :
                 p \in EngineInsert(t, i, old)} :
           o \in EngineInsert(t, j, r)}

(* update, the primary key set: the row moves to its new id.               *)
Move(t, i, changed, new, j) ==
  IF Seen(t)[i] = Gone
    THEN {RowGone(t)}
    ELSE LET r == With(Seen(t)[i], changed, new)
         IN  Unless(CheckUnique(t, i, r, changed), t,
                    UNION {IF o.reply = "done"
                             THEN InsertOrPutBack(o.tx, i, Seen(t)[i], j, r)
                             ELSE {o} : o \in EngineSet(t, i, Gone)})

Delete(t, i) == IF Seen(t)[i] = Gone THEN {RowGone(t)} ELSE EngineSet(t, i, Gone)

-----------------------------------------------------------------------------
(* The handler's calls.                                                    *)

(* Mutant: the index of a duplicate is not stashed.                        *)
NotStashed(o, before) == before

(* write_error: the index of a duplicate; any other reply leaves the one   *)
(* there was before.                                                       *)
Stashed(o, before) == IF o.reply = "duplicate" THEN o.dup ELSE before

Outcome(outcomes, before) ==
  \E o \in outcomes :
    tx' = o.tx /\ reply' = o.reply /\ dup' = Stashed(o, before)

Writes(outcomes, before) ==
  /\ tx # None /\ writes < MaxWrites
  /\ Outcome(outcomes, before)
  /\ writes' = writes + 1
  /\ cur' = None
  /\ UNCHANGED <<unique, store, others>>

(* Only write_row resets the index first; rows of a bulk insert have all   *)
(* been through it when the buffer is flushed.                             *)
NoIndex == {}

(* A row is read for the write that follows: no insert comes in between.   *)
WriteRow ==
  cur = None /\ \E i \in Id, r \in Contents : Writes(Insert(tx, i, r), NoIndex)

FlushBulkBuffer ==
  /\ cur = None
  /\ \E i, j \in Id, r, q \in Contents :
       Writes(InsertBatch(tx, i, r, j, q), NoIndex)

(* A read returns a row; the statement then writes that row by its id,     *)
(* whatever others committed to it in between.                             *)
ReadRow ==
  /\ tx # None
  /\ \E i \in Id : Seen(tx)[i] # Gone /\ cur' = <<i, Seen(tx)[i]>>
  /\ reply' = "done"
  /\ UNCHANGED <<unique, store, tx, dup, writes, others>>

(* The columns in which the new record differs from the one that was read. *)
Changed(new) == {c \in Col : cur[2][c] # new[c]}

UpdateRow ==
  /\ cur # None
  /\ \E new \in Contents :
       /\ Changed(new) # {}
       /\ Writes(Update(tx, cur[1], Changed(new), new), dup)

UpdatePrimaryKey ==
  /\ cur # None
  /\ \E new \in Contents, j \in Id \ {cur[1]} :
       Writes(Move(tx, cur[1], Changed(new), new, j), dup)

DeleteRow == cur # None /\ Writes(Delete(tx, cur[1]), dup)

Begin ==
  /\ tx = None
  /\ \E level \in E!Level : tx' = E!NewTransaction(level, store)
  /\ reply' = "none"
  /\ UNCHANGED <<unique, store, cur, dup, writes, others>>

(* The commit checks what was left to it: it installs every row or none.   *)
Commit ==
  /\ tx # None
  /\ IF NoDuplicates(Merged(tx))
       THEN store' = Merged(tx) /\ reply' = "done"
       ELSE UNCHANGED store /\ reply' = "conflict"
  /\ tx' = None /\ cur' = None /\ writes' = 0 /\ others' = 0
  /\ UNCHANGED <<unique, dup>>

(* Another session commits one row, of those this transaction has not      *)
(* written: two writers of one row are the Session module's matter.        *)
OthersCommit ==
  /\ tx # None /\ others < MaxOthers
  /\ \E i \in Id, v \in Contents \cup {Gone} :
       /\ tx.writes[i] = None /\ v # store[i]
       /\ store' = [store EXCEPT ![i] = v]
       /\ NoDuplicates(store')
  /\ others' = others + 1
  /\ UNCHANGED <<unique, tx, cur, reply, dup, writes>>

Init ==
  /\ unique \in Indexes
  /\ store \in E!State /\ NoDuplicates(store)
  /\ tx = None /\ cur = None /\ reply = "none" /\ dup = {}
  /\ writes = 0 /\ others = 0

Next ==
  \/ Begin \/ Commit \/ OthersCommit
  \/ WriteRow \/ FlushBulkBuffer
  \/ ReadRow \/ UpdateRow \/ UpdatePrimaryKey \/ DeleteRow

Spec == Init /\ [][Next]_vars

-----------------------------------------------------------------------------
(* Properties.                                                             *)

(* The rows a write asks for, among the rows seen: allowed when its id is  *)
(* free and no key is held twice.                                          *)
Asked(rows, i, v) == [rows EXCEPT ![i] = v]

AnswersFor(outcomes, free, asked) ==
  \A o \in outcomes :
    IF free /\ NoDuplicates(asked)
      THEN o.reply = "done" /\ Seen(o.tx) = asked
      ELSE o.reply = "duplicate" /\ Seen(o.tx) = Seen(tx)

(* A row's own write says whether its keys are taken, pending rows and     *)
(* committed ones alike, and leaves the rows asked for or the rows there   *)
(* were (write.rs 13-15).  Under RC, as long as no one has committed a key *)
(* the transaction holds; a snapshot does not show what the commit will.   *)
WritesAnswerForKeys ==
  LET rows == Seen(tx)
  IN  (/\ tx # None /\ cur = None
       /\ tx.level = "RC" \/ others = 0
       /\ NoDuplicates(Merged(tx)))
      => \A i \in Id, r \in Contents :
           /\ AnswersFor(Insert(tx, i, r), rows[i] = Gone, Asked(rows, i, r))
           /\ rows[i] # Gone =>
                \A changed \in SUBSET Col :
                  LET new == With(rows[i], changed, r)
                  IN  /\ AnswersFor(Update(tx, i, changed, r), TRUE,
                                    Asked(rows, i, new))
                      /\ \A j \in Id \ {i} :
                           AnswersFor(Move(tx, i, changed, r, j),
                                      rows[j] = Gone,
                                      Asked(Asked(rows, i, Gone), j, new))

(* No write of the transaction makes two of the rows it sees share a key,  *)
(* under a snapshot too: a commit can only fail for what others committed. *)
WritesKeepUnique ==
  [][tx # None /\ tx' # None /\ store' = store /\ NoDuplicates(Seen(tx))
     => NoDuplicates(Seen(tx'))]_vars

(* A write that fails changes no row, the move of a row in two steps       *)
(* included (write.rs 109), unless the commit would fail anyway.           *)
FailedWriteKeepsRows ==
  [][writes' > writes /\ reply' # "done" /\ NoDuplicates(Merged(tx))
     => Seen(tx') = Seen(tx)]_vars

(* A buffer of rows is accepted exactly when its rows are one by one, and  *)
(* then leaves the same rows; otherwise it leaves none of them.            *)
BatchIsSingles ==
  tx # None /\ cur = None =>
    \A i, j \in Id, r, q \in Contents :
      LET singles == UNION {IF o.reply = "done" THEN Insert(o.tx, j, q) ELSE {o} :
                              o \in Insert(tx, i, r)}
      IN  \A o \in InsertBatch(tx, i, r, j, q) :
            IF \E p \in singles : p.reply = "done"
              THEN o.reply = "done" /\ o \in singles
              ELSE o.reply = "duplicate" /\ o.tx = tx

(* As written at ha_stoolap.h 183: the index is reset on each write, so    *)
(* that one that reports no duplicate leaves none.                         *)
ResetOnEachWrite ==
  [][writes' > writes /\ reply' # "duplicate" => dup' = {}]_vars

(* As written at write.rs 109: a failed move always leaves the row.        *)
FailedWriteAlwaysKeepsRows ==
  [][writes' > writes /\ reply' # "done" => Seen(tx') = Seen(tx)]_vars
=============================================================================
