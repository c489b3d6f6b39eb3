------------------------------- MODULE Pushdown -------------------------------
(* SELECT pushdown: the server offers a prepared statement, one of its      *)
(* derived tables or its set operation to the factories of                  *)
(* ha_stoolap_select.cc.  A factory refuses, or runs the SQL of SqlGen at   *)
(* once and hands its rows to a handler; once it has returned one the       *)
(* server has no other way to run the statement.                            *)
EXTENDS SqlGen

CONSTANTS
  Statement,    \* the names of the statements
  UnitOf(_),    \* statement -> its query expression
  ContextOf(_), \* statement -> what holds of the THD it runs in
  TablesFor(_), \* statement -> the stored rows to try it on
  Foreign       \* the tables of other engines

VARIABLES
  stmt,       \* the statement offered
  phase,      \* "offered" | "pushed" | "server" | "ended" | "failed"
  pushed,     \* <<the unit a handler was made for, it is the statement's own>>
  rows,       \* the rows the cursor still holds
  given       \* the rows the server has

vars == <<trust, data, stmt, phase, pushed, rows, given>>

Contexts == {"prepare", "routine", "substatement", "notselect", "into"}

TypeOK ==
  /\ phase \in {"offered", "pushed", "server", "ended", "failed"}
  /\ phase \in {"offered", "server"} => rows = <<>> /\ given = <<>>

-----------------------------------------------------------------------------
EveryTableIsStoolap(u) == TablesOf(u) # {} /\ TablesOf(u) \cap Foreign = {}

(* A bare COUNT over one base table: left to the row pump.                  *)
BareCount(s) ==
  /\ Len(s.from) = 1 /\ s.from[1].unit = <<>> /\ Len(s.list) = 1
  /\ s.where = <<>> /\ s.having = <<>> /\ s.group = <<>> /\ s.order = <<>>
  /\ s.limit = NoLimit
  /\ s.list[1].op = "count" /\ IsConstant(s.list[1].a[1])

CanPushdownSelect(u, i) ==
  /\ ContextOf(stmt) \cap Contexts = {}
  /\ u.legs[i].sel.flags \cap {"sideeffect", "rand", "forupdate"} = {}
  /\ EveryTableIsStoolap([u EXCEPT !.legs = <<u.legs[i]>>])
  /\ ~ BareCount(u.legs[i].sel)

(* The query runs and all its rows are taken before the factory returns.    *)
Run(u, top) == UnitRows("stoolap", StoolapSql(u, top), NoContext)
Fails(result) == \E i \in DOMAIN result : \E k \in DOMAIN result[i] : result[i][k] = Error

ToServer == /\ phase' = "server"
            /\ UNCHANGED <<trust, data, stmt, pushed, rows, given>>

(* run_pushdown: no handle, no transaction or any error of stoolap's leaves *)
(* the statement to the server.                                             *)
(* Mutant: a failure found once rows were taken.                            *)
RunPushdownLate(u, top) ==
  /\ phase' = "server" /\ rows' = Run(u, top) /\ UNCHANGED <<trust, data, stmt, pushed, given>>
Taken(u, top, result) ==
  /\ ~ Fails(result)
  /\ phase' = "pushed" /\ pushed' = <<u, top>> /\ rows' = result
  /\ UNCHANGED <<trust, data, stmt, given>>
RunPushdown(u, top) == ToServer \/ Taken(u, top, Run(u, top))

Factory(u, top) ==
  IF (\A i \in DOMAIN u.legs : CanPushdownSelect(u, i)) /\ GenUnit(u)
    THEN RunPushdown(u, top) ELSE ToServer

(* A SELECT and a set operation are offered whole.                          *)
CreateSelect == /\ phase = "offered" /\ EveryTableIsStoolap(UnitOf(stmt))
                /\ Factory(UnitOf(stmt), TRUE)

(* A derived table is offered while the statement is prepared; not one of a *)
(* statement the other factories may take whole.                            *)
CreateDerived ==
  /\ phase = "offered" /\ ~ EveryTableIsStoolap(UnitOf(stmt))
  /\ LET from == UnitOf(stmt).legs[1].sel.from
     IN  IF \E i \in DOMAIN from : from[i].unit # <<>>
           THEN \E i \in DOMAIN from : from[i].unit # <<>> /\ Factory(from[i].unit[1], FALSE)
           ELSE ToServer

(* The server reads row after row.  One it cannot store fails the           *)
(* statement: it is too late to fall back.                                  *)
NextRow ==
  /\ phase = "pushed" /\ rows # <<>>
  /\ \/ /\ given' = Append(given, Head(rows)) /\ rows' = Tail(rows)
        /\ UNCHANGED phase
     \/ phase' = "failed" /\ UNCHANGED <<rows, given>>
  /\ UNCHANGED <<trust, data, stmt, pushed>>

EndScan ==
  /\ phase = "pushed" /\ rows = <<>>
  /\ phase' = "ended" /\ UNCHANGED <<trust, data, stmt, pushed, rows, given>>

Init ==
  /\ stmt \in Statement
  /\ trust \in BOOLEAN
  /\ data \in TablesFor(stmt)
  /\ phase = "offered" /\ pushed = <<>> /\ rows = <<>> /\ given = <<>>

Next == CreateSelect \/ CreateDerived \/ NextRow \/ EndScan
Spec == Init /\ [][Next]_vars

-----------------------------------------------------------------------------
(* The rows r, in their order, are ones the server itself could give for u: *)
(* each a row of the result, in an order its ORDER BY allows, cut by its    *)
(* LIMIT at a place where nothing left out sorts before.  A derived table   *)
(* has an order only for its LIMIT.                                         *)
Known(v) == v.t \notin {"error", "other"}
Reads(u, out, row) ==
  \A k \in DOMAIN row : Known(out[k]) /\ ReadBack(LegTypes(u)[k], LegCs(u)[k], row[k]) = out[k]
Fits(u, r, result, before, f) ==
  /\ \A i \in DOMAIN r : Reads(u, result[f[i]].out, r[i])
  /\ \A i, j \in DOMAIN r : i < j => <<f[j], f[i]>> \notin before
  /\ \A i \in DOMAIN r, j \in DOMAIN result \ Range(f) : <<j, f[i]>> \notin before
FitsSome(u, r, result, before) ==
  \/ Fits(u, r, result, before, [i \in DOMAIN r |-> i])
  \/ /\ Len(result) <= 4
     /\ \E f \in [DOMAIN r -> DOMAIN result] : IsInjective(f) /\ Fits(u, r, result, before, f)
OrderFor(u, top) == IF top \/ UnitLimit(u) # NoLimit THEN UnitKeys("maria", u) ELSE <<>>
CouldGiveOf(u, keys, r, result) ==
  /\ Len(r) = Len(Limited(UnitLimit(u), result))
  /\ FitsSome(u, r, result,
       {p \in (DOMAIN result) \X (DOMAIN result) :
          Before("maria", keys, result[p[1]].key, result[p[2]].key)})
CouldGive(u, top, r) ==
  CouldGiveOf(u, OrderFor(u, top), r,
              Sorted("maria", UnitKeys("maria", u), NoLimit, UnitResult("maria", u, NoContext)))

(* A pushed query gives the rows MariaDB's own execution of it could have   *)
(* given: what gen_select and gen_unit write means to stoolap what the Item *)
(* tree means to the server, and what they cannot write so is refused.      *)
PushedRowsAreTheServers ==
  phase = "ended" => CouldGive(pushed[1], pushed[2], given)
=============================================================================
