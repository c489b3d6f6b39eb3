------------------------------ MODULE DirectModify ------------------------------
(* Direct UPDATE and DELETE: the server offers a single-table statement,    *)
(* the handler takes its condition, and one stoolap statement does the work *)
(* (ha_stoolap_select.cc, ha_stoolap.cc).  A statement of its own counts    *)
(* the rows an UPDATE found; in autocommit other sessions commit in         *)
(* between.  What the generator writes, and what that does to a row, are    *)
(* constants here and are defined in ModifySql.                             *)
EXTENDS Integers, Sequences, FiniteSets

CONSTANTS
  Statement,     \* the names of the statements
  ModifyOf(_),   \* statement -> [cmd, set, where, flags], as in ModifySql
  TablesFor(_),  \* statement -> the committed rows it may run on
  (* Of a statement, the trust in binary strings, a condition:              *)
  Pushable(_, _, _),  \* can_direct_modify
  Folds(_, _),        \* the condition compares strings by a collation
  OneRowFor(_),       \* the condition holds the primary key equal
  (* Of a statement, the trust and the tables: row by row of table t        *)
  (* [takes, errors, known, row], where errors has "strict" for a value     *)
  (* that does not fit its column and "overflow" for arithmetic past the 64 *)
  (* bits.  For stoolap also the condition, and whether only the rows that  *)
  (* change are written.                                                    *)
  ServerOn(_, _, _),
  EngineOn(_, _, _, _, _),
  CountOn(_, _, _, _)  \* the rows stoolap counts for the condition

VARIABLES
  trust,     \* the session's stoolap_trust_binary_strings
  data,      \* table -> its rows
  stmt,      \* the statement
  tx,        \* it runs in a transaction of the session
  phase,     \* "offered" | "init" | "count" | "modify" | "recount" |
             \* "stashed" | "ended" | "failed" | "server"
  cond,      \* the condition the handler took from the server
  found,     \* the rows found, -1 while not counted
  affected,  \* the rows stoolap says it changed
  told,      \* <<affected, found>> once the server has them
  raised,    \* the errors raised in the diagnostics area
  matches,   \* history: the rows the condition takes, in every committed
             \* state since the statement began
  server     \* history: [matched, changed] of the server's own UPDATE

vars == <<trust, data, stmt, tx, phase, cond, found, affected, told, raised,
          matches, server>>

M == ModifyOf(stmt)

-----------------------------------------------------------------------------
(* Mutant: every matching row is written.                                   *)
ChangedOnlyNever(m) == FALSE
ChangedOnly(m) == m.cmd = "update" /\ "foundrows" \notin m.flags

(* [errors, known, rows, matched, changed] of a statement, from what        *)
(* becomes of each row.                                                     *)
Without(rows, taken) ==
  LET left == SelectSeq([i \in DOMAIN rows |-> i], LAMBDA i : i \notin taken)
  IN  [n \in DOMAIN left |-> rows[left[n]]]
OutcomeOf(m, rows, does) ==
  LET taken == {i \in DOMAIN rows : does[i].takes}
  IN  [errors |-> UNION {does[i].errors : i \in DOMAIN rows},
       known |-> \A i \in DOMAIN rows : does[i].known,
       rows |-> IF m.cmd = "delete" THEN Without(rows, taken)
                ELSE [i \in DOMAIN rows |-> IF does[i].takes THEN does[i].row ELSE rows[i]],
       matched |-> Cardinality(taken),
       changed |-> Cardinality({i \in taken : m.cmd = "delete" \/ does[i].row # rows[i]})]
ByServer(s, t, d) == OutcomeOf(ModifyOf(s), d["t"], ServerOn(s, t, d))
ByEngine(s, t, d, where) ==
  OutcomeOf(ModifyOf(s), d["t"], EngineOn(s, t, d, where, ChangedOnly(ModifyOf(s))))

(* What the calls rest on: the statement stoolap gets fails on the rows the *)
(* server's does, by a guard where that is a value's fit and else by its    *)
(* own arithmetic; where none fails, it takes the rows the server takes, or *)
(* of them those that change, and makes of them what the server would.  The *)
(* count takes what the server takes, and no two rows have one primary key. *)
TakesAlike(m, rows, engine, own) ==
  \A i \in DOMAIN rows :
    /\ engine[i].takes <=> own[i].takes /\ (ChangedOnly(m) => own[i].row # rows[i])
    /\ engine[i].takes => engine[i].row = own[i].row
ModifiesAlike(s, t, d) ==
  LET m == ModifyOf(s)
      rows == d["t"]
      own == ServerOn(s, t, d)
      engine == EngineOn(s, t, d, m.where, ChangedOnly(m))
  IN  /\ \A i \in DOMAIN rows : own[i].known
      /\ \A i \in DOMAIN rows : engine[i].errors = own[i].errors
      /\ (\A i \in DOMAIN rows : own[i].errors = {}) => TakesAlike(m, rows, engine, own)
      /\ CountOn(s, t, d, m.where) = Cardinality({i \in DOMAIN rows : own[i].takes})
      /\ OneRowFor(m.where) =>
           \A i, j \in DOMAIN rows : own[i].takes /\ own[j].takes => i = j

ASSUME StatementsAndTables ==
  \A s \in Statement :
    /\ ModifyOf(s).cmd \in {"update", "delete"}
    /\ \A d \in TablesFor(s) :
         /\ "t" \in DOMAIN d /\ d = [x \in DOMAIN d |-> d[x]]
         /\ d["t"] \in Seq({d["t"][i] : i \in DOMAIN d["t"]})
ASSUME GeneratorIsFaithful ==
  \A s \in Statement, t \in BOOLEAN :
    Pushable(s, t, ModifyOf(s).where) => \A d \in TablesFor(s) : ModifiesAlike(s, t, d)

-----------------------------------------------------------------------------
(* Mutant: taken whenever its comparisons are stoolap's.                    *)
TakesConditionAny(where) == ~ Folds(trust, where)
TakesCondition(where) == Pushable(stmt, trust, where) /\ ~ Folds(trust, where)
(* A condition is taken only when the direct path will filter by it.        *)
(* Mutant: one taken and forgotten.                                         *)
CondPushForgets ==
  /\ phase = "offered"
  /\ phase' = IF M.where = <<>> \/ TakesCondition(M.where) THEN "init" ELSE "server"
  /\ UNCHANGED <<trust, data, stmt, tx, cond, found, affected, told, raised, matches, server>>
CondPush ==
  /\ phase = "offered"
  /\ IF M.where = <<>> THEN phase' = "init" /\ UNCHANGED cond
     ELSE IF TakesCondition(M.where)
            THEN phase' = "init" /\ cond' = M.where
            ELSE phase' = "server" /\ UNCHANGED cond
  /\ UNCHANGED <<trust, data, stmt, tx, found, affected, told, raised, matches, server>>

DirectInit ==
  /\ phase = "init"
  /\ phase' = IF Pushable(stmt, trust, cond) THEN "count" ELSE "server"
  /\ matches' = {ByServer(stmt, trust, data).matched}
  /\ UNCHANGED <<trust, data, stmt, tx, cond, found, affected, told, raised, server>>

(* An UPDATE that writes only what it changes counts first what it found.   *)
(* The count may fail: nothing depends on it.                               *)
CountFirst ==
  /\ phase = "count" /\ phase' = "modify"
  /\ IF ChangedOnly(M) /\ ~ OneRowFor(cond)
       THEN found' \in {CountOn(stmt, trust, data, cond), -1} ELSE UNCHANGED found
  /\ UNCHANGED <<trust, data, stmt, tx, cond, affected, told, raised, matches, server>>

ErrorClasses == {"unknown", "dup_key", "no_referenced_row", "row_is_referenced", "deadlock",
                 "table_exists", "no_such_table", "unsupported", "generic"}
(* report_stoolap_error raises what has no handler error of its own.        *)
HandlerErrors == {"dup_key", "no_referenced_row", "row_is_referenced", "deadlock",
                  "table_exists", "no_such_table"}
HaErrorOf(class) == IF class \in HandlerErrors \cup {"unsupported"} THEN class ELSE "generic"
ReportError(class) == IF HaErrorOf(class) \in {"generic", "unsupported"} THEN <<"getErrmsg">> ELSE <<>>
(* Mutant: a class report_stoolap_error leaves to its caller, forgotten.    *)
DirectRaiseNoDeadlock(class) ==
  IF class \in HandlerErrors \ {"deadlock"} THEN <<class>> ELSE <<>>
DirectRaise(class) == IF class \in HandlerErrors THEN <<class>> ELSE <<>>
Refused(class) ==
  /\ phase' = "failed" /\ raised' = ReportError(class) \o DirectRaise(class)
  /\ UNCHANGED <<data, found, affected>>

(* A row's value that does not fit is told by the guard's own message.      *)
(* Mutant: any failure of a statement with a guard is taken for it.         *)
GuardOverflowAny(q) == q.errors # {}
GuardOverflow(q) == "strict" \in q.errors
StrictError ==
  /\ phase' = "failed" /\ raised' = <<"strict">>
  /\ UNCHANGED <<data, found, affected>>
(* Where rows fail, which of them stoolap meets first is not said.  An      *)
(* overflow without a guard is a generic error among the others.            *)
Wrote(q) ==
  /\ data' = [data EXCEPT !["t"] = q.rows]
  /\ affected' = q.matched
  /\ IF ChangedOnly(M) /\ OneRowFor(cond)
       THEN IF q.matched > 0 THEN found' = q.matched /\ phase' = "stashed"
            ELSE found' = found /\ phase' = "recount"
       ELSE found' = found /\ phase' = "stashed"
  /\ UNCHANGED raised
Modified(q) ==
  \/ q.errors = {} /\ Wrote(q)
  \/ GuardOverflow(q) /\ StrictError
  \/ \E class \in ErrorClasses : Refused(class)
Counts(s) == [matched |-> s.matched, changed |-> s.changed]
Modify ==
  /\ phase = "modify"
  /\ server' = Counts(ByServer(stmt, trust, data))
  /\ Modified(ByEngine(stmt, trust, data, cond))
  /\ UNCHANGED <<trust, stmt, tx, cond, told, matches>>

Recount ==
  /\ phase = "recount" /\ phase' = "stashed"
  /\ found' \in {CountOn(stmt, trust, data, cond), -1}
  /\ UNCHANGED <<trust, data, stmt, tx, cond, affected, told, raised, matches, server>>

(* pre_direct_*_rows stashes the counts for the call that follows.          *)
(* Mutant: the counts are not stashed.                                      *)
ReturnUntold ==
  /\ phase = "stashed" /\ phase' = "ended"
  /\ UNCHANGED <<trust, data, stmt, tx, cond, found, affected, told, raised, matches, server>>
Return ==
  /\ phase = "stashed" /\ phase' = "ended"
  /\ told' = <<affected, IF found = -1 THEN affected ELSE found>>
  /\ UNCHANGED <<trust, data, stmt, tx, cond, found, affected, raised, matches, server>>

(* Another session commits.  A transaction reads its own snapshot.          *)
OtherCommits ==
  /\ phase \in {"count", "modify", "recount"} /\ ~ tx
  /\ data' \in TablesFor(stmt) \ {data}
  /\ matches' = matches \cup {ByServer(stmt, trust, data').matched}
  /\ UNCHANGED <<trust, stmt, tx, phase, cond, found, affected, told, raised, server>>

Init ==
  /\ stmt \in Statement
  /\ trust \in BOOLEAN /\ tx \in BOOLEAN
  /\ data \in TablesFor(stmt)
  /\ phase = "offered" /\ cond = <<>> /\ found = -1 /\ affected = 0
  /\ told = <<>> /\ raised = <<>> /\ matches = {}
  /\ server = [matched |-> 0, changed |-> 0]

Next == \/ CondPush \/ DirectInit \/ CountFirst \/ Modify \/ Recount \/ Return
        \/ OtherCommits
Spec == Init /\ [][Next]_vars

-----------------------------------------------------------------------------
TypeOK ==
  /\ tx \in BOOLEAN
  /\ phase \in {"offered", "init", "count", "modify", "recount", "stashed",
                "ended", "failed", "server"}
  /\ found \in Nat \cup {-1} /\ affected \in Nat
  /\ phase = "ended" <=> told # <<>>
  /\ raised # <<>> => phase = "failed"

(* The stoolap statement leaves the rows the server's own UPDATE or DELETE  *)
(* of the same rows would: the SET values, the conditions, their NULLs and  *)
(* the checks Gen::modify and Gen::assignment write.  It fails where that   *)
(* one would and then leaves the rows as they are; and the strict-mode      *)
(* error try_direct_modify raises is raised for a value the server finds    *)
(* not to fit.  The error of an overflow is stoolap's (1296), not the       *)
(* server's (1690).                                                         *)
LeavesWhat(s) ==
  /\ s.known
  /\ s.errors # {} => phase' = "failed"
  /\ raised' = <<"strict">> => "strict" \in s.errors
  /\ data'["t"] = IF phase' = "failed" THEN data["t"] ELSE s.rows
ModifiesAsTheServer ==
  [][phase = "modify" /\ phase' # "modify" => LeavesWhat(ByServer(stmt, trust, data))]_vars

(* A condition the handler has taken is never left unfiltered: once         *)
(* cond_push has said so, the direct path runs it.                          *)
TakenConditionRuns == phase = "server" => cond = <<>>

(* The counts the client sees.  The changed rows are the server's own; the  *)
(* found ones are too in a transaction, and in autocommit what the          *)
(* condition took in some committed state of the statement's time, or the   *)
(* changed count if the counting failed.                                    *)
CountsAreHonest ==
  phase = "ended" =>
    /\ told[1] = IF "foundrows" \in M.flags THEN server.matched ELSE server.changed
    /\ tx /\ found # -1 => told[2] = server.matched
    /\ M.cmd = "update" => \/ told[2] \in matches
                           \/ found = -1 /\ told[2] = told[1]

(* A failed pushed statement raises one error whatever its class: between   *)
(* them report_stoolap_error and try_direct_modify leave out none and       *)
(* repeat none.                                                             *)
OneErrorRaised == phase = "failed" => Len(raised) = 1
=============================================================================
