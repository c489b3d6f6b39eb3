------------------------------ MODULE ModifySql ------------------------------
(* The SQL of a direct UPDATE or DELETE: what Gen::modify writes for a      *)
(* single-table statement and what can_direct_modify refuses, and what the  *)
(* statement and the written one do to a row.  A statement is [cmd, set,    *)
(* where, flags]: the assignments [col, val] and at most one condition;     *)
(* flags holds "strict", "foundrows" and what the server never pushes.      *)
EXTENDS SqlGen

CONSTANTS
  M,             \* the statement
  Foreign,       \* the tables of other engines
  PrimaryKey,    \* the single column of the table's primary key
  Shape          \* column -> [kind, lo, hi, width, notnull]: its SQL type,
                 \* an integer's range and a string's characters

-----------------------------------------------------------------------------
(* Columns stoolap compares or holds differently, found by walking an item: *)
(* "ci" a string whose collation is not binary, "encoded" a DECIMAL or a    *)
(* column stored encoded.                                                   *)
RECURSIVE Uses(_, _), SelectUses(_, _, _), UnitUsesCi(_)
ColumnUses(kind, c) ==
  IF kind = "ci" THEN ColCs[c] = "ci"
  ELSE ColType[c] \in {"dec", "dt", "tm"} \/ ColCs[c] = "hex"
BareField(e) == RealItem(e).op = "col"
AnyUses(kind, es) == \E i \in DOMAIN es : Uses(kind, es[i])
KeysUse(kind, keys) == \E i \in DOMAIN keys : Uses(kind, keys[i].it)

Uses(kind, e) ==
  CASE e.op = "col" -> ColumnUses(kind, e.v)
    [] e.op \in {"exists", "insub", "scalar"} ->
         \/ AnyUses(kind, e.a)
         \/ \E i \in DOMAIN e.q.legs :
              LET s == e.q.legs[i].sel
              IN  \/ SelectUses(kind, s, e.op # "exists")
                  \/ /\ e.op # "exists"
                     /\ \E k \in DOMAIN s.list : s.list[k].op = "col" /\ Uses(kind, s.list[k])
    [] OTHER -> AnyUses(kind, e.a)

(* A bare column is given as it is stored, unless a DISTINCT compares it.   *)
SelectUses(kind, s, projection) ==
  \/ AnyUses(kind, s.where) \/ AnyUses(kind, s.having)
  \/ KeysUse(kind, s.order) \/ KeysUse(kind, s.group)
  \/ \E i \in DOMAIN s.from : AnyUses(kind, s.from[i].on)
  \/ /\ projection
     /\ \E i \in DOMAIN s.list : /\ Uses(kind, s.list[i])
                                 /\ BareField(s.list[i]) => kind = "ci" /\ s.distinct
  \/ \E i \in DOMAIN s.from : /\ s.from[i].unit # <<>>
                              /\ LET u == s.from[i].unit[1]
                                 IN  IF kind = "ci" /\ Len(u.legs) > 1 THEN UnitUsesCi(u)
                                     ELSE \E k \in DOMAIN u.legs :
                                            SelectUses(kind, u.legs[k].sel, projection)
UnitUsesCi(u) ==
  \/ \E i \in DOMAIN u.legs : SelectUses("ci", u.legs[i].sel, TRUE)
  \/ /\ \/ \E i \in 2 .. Len(u.legs) : ~ u.legs[i].all \/ u.legs[i].op # "union"
        \/ \E i \in DOMAIN u.order : LegCs(u)[u.order[i].n] = "ci"
     /\ \E i \in DOMAIN u.legs : AnyUses("ci", u.legs[i].sel.list)

Unsafe(e) == (~ trust /\ Uses("ci", e)) \/ Uses("encoded", e)

-----------------------------------------------------------------------------
(* Gen::modify.  Whether an item may be NULL is the server's own analysis.  *)
RECURSIVE MaybeNull(_), Reads(_, _)
MaybeNull(e) ==
  CASE e.op = "col" -> ~ Shape[e.v].notnull
    [] e.op = "lit" -> e.v = Null
    [] e.op \in {"isnull", "isnotnull", "<=>", "exists"} -> FALSE
    [] e.op = "scalar" -> TRUE
    [] OTHER -> \E i \in DOMAIN e.a : MaybeNull(e.a[i])
Reads(e, cols) == \/ e.op = "col" /\ e.v \in cols
                  \/ \E i \in DOMAIN e.a : Reads(e.a[i], cols)

RECURSIVE PkEquality(_)
PkEquality(e) ==
  \/ e.op = "and" /\ \E i \in DOMAIN e.a : PkEquality(e.a[i])
  \/ /\ e.op = "="
     /\ \E i \in 1 .. 2 : /\ RealItem(e.a[i]) = [op |-> "col", a |-> <<>>, v |-> PrimaryKey]
                          /\ IsConstant(e.a[3 - i])

(* A value whose fit the statement itself checks, row by row.               *)
Checked(c, v) ==
  /\ v.op # "lit"
  /\ \/ Cls(v) = "STR"
     \/ FieldCls(c) = "INT" /\ Shape[c].kind # "bigint"

(* The value is of the column's class, an integer for a DOUBLE apart, so    *)
(* that no conversion is left to stoolap.                                   *)
WritesAssignment(c, v) ==
  LET shape == Shape[c]
      cls == FieldCls(c)
  IN  IF IsNullLit(v) THEN ~ shape.notnull
      ELSE /\ shape.notnull => ~ MaybeNull(v)
           /\ cls # "UNSAFE"
           /\ cls = Cls(v) \/ (cls = "REAL" /\ Cls(v) = "INT")
           /\ CASE cls = "INT" ->
                     /\ shape.kind # "year"
                     /\ v.op = "lit" /\ shape.kind # "bigint" =>
                          Number(v.v) \in 2 * shape.lo .. 2 * shape.hi
                [] cls = "REAL" -> shape.kind = "double"
                [] cls = "STR" ->
                     IF v.op = "lit"
                       THEN shape.kind \in {"varchar", "text"} /\ Len(v.v.v) <= shape.width
                       ELSE shape.kind = "varchar"
                [] OTHER -> /\ RealItem(v).op = "col"
                            /\ ColType[RealItem(v).v] = ColType[c]
           /\ Checked(c, v) => "strict" \in M.flags
           /\ WritesExpr(v)

(* The check fails the row by an overflow of its own, told by its text from *)
(* one of the value's arithmetic: Misfit, which is kGuardOverflow.  "fit"   *)
(* is a CASE that cuts trailing blanks past the width and overflows so on   *)
(* anything else; "fitself" gives the value where that one overflows.       *)
RangeCheck(c, e) ==
  F("case", <<F("or", <<F("<", <<e, Lit(Whole(Shape[c].lo))>>),
                        F("<", <<Lit(Whole(Shape[c].hi)), e>>)>>), Lit(Misfit), e>>)
CheckedForm(c, v, e) ==
  CASE ~ Checked(c, v) -> e
    [] FieldCls(c) = "INT" -> RangeCheck(c, e)
    [] OTHER -> [op |-> "fit", a |-> <<e>>, v |-> Shape[c].width]
WrittenAssignment(c, v) == CheckedForm(c, v, WrittenExpr({}, v))
(* What the column then holds, for the rows that change.                    *)
StoredForm(c, v, e) ==
  IF Checked(c, v) /\ FieldCls(c) = "STR"
    THEN [op |-> "fitself", a |-> <<e>>, v |-> Shape[c].width] ELSE e

WritesModify(where) ==
  LET set == M.set
      assigned(i) == {set[k].col : k \in 1 .. i - 1}
  IN  /\ \A i \in DOMAIN set : /\ WritesAssignment(set[i].col, set[i].val)
                               /\ ~ Reads(set[i].val, assigned(i))
      /\ Cardinality({i \in DOMAIN set : Checked(set[i].col, set[i].val)}) <= 1
      /\ M.flags \cap {"checkconstraint", "onupdate"} = {}
      /\ \A i \in DOMAIN where : WritesCondition(where[i])

Changes ==
  F("or", [i \in DOMAIN M.set |->
             F("not", <<F("<=>", <<[op |-> "col", a |-> <<>>, v |-> M.set[i].col],
                                   StoredForm(M.set[i].col, M.set[i].val,
                                              WrittenExpr({}, M.set[i].val))>>)>>)])
(* The condition first: stoolap reads an AND from the left, and goes on     *)
(* past a NULL.                                                             *)
AndChanges(where, written) ==
  written \o (IF written # <<>> /\ MaybeNull(where[1]) THEN <<F("isnotnull", written)>> ELSE <<>>)
    \o <<Changes>>
ModifyWhere(where, changedOnly) ==
  IF changedOnly THEN AndChanges(where, WrittenConds({}, where)) ELSE WrittenConds({}, where)

(* A condition stoolap compares by bytes and the server by a collation.     *)
CaseFolds(where) == ~ trust /\ \E i \in DOMAIN where : Uses("ci", where[i])

OneRowCount(where) == \E i \in DOMAIN where : PkEquality(where[i])

CanDirectModify(where) ==
  /\ M.flags \cap {"prepare", "routine", "substatement", "multitable", "orderby",
                   "limit", "sideeffect"} = {}
  /\ \A i \in DOMAIN M.where : ~ Unsafe(M.where[i])
  /\ \A i \in DOMAIN M.set : /\ ~ Unsafe(M.set[i].val)
                             /\ ~ ColumnUses("encoded", M.set[i].col)
  /\ UNION {ItemTables(M.where[i]) : i \in DOMAIN M.where} \cap Foreign = {}
  /\ ~ (M.cmd = "delete" /\ "ignore" \in M.flags)
  /\ WritesModify(where)

-----------------------------------------------------------------------------
(* What a column holds after a store.  MariaDB converts, and in strict mode *)
(* fails where it would clip; stoolap takes the value of its own type.      *)
Blanks(s, n) == \A i \in n + 1 .. Len(s) : s[i] = Blank
ServerStore(c, x) ==
  LET shape == Shape[c]
      whole == 2 * ((Number(x) + 1) \div 2)
      clipped(v) == IF "strict" \in M.flags THEN Misfit ELSE v
  IN  CASE x = Null -> IF shape.notnull THEN clipped(Other) ELSE Null
        [] x.t \in {"error", "other"} -> x
        [] shape.kind \in {"bigint", "integer"} /\ x.t \in Numbers ->
             CASE shape.kind = "integer" /\ whole < 2 * shape.lo -> clipped(Whole(shape.lo))
               [] shape.kind = "integer" /\ whole > 2 * shape.hi -> clipped(Whole(shape.hi))
               [] OTHER -> Num("int", whole)
        [] shape.kind = "double" /\ x.t \in Numbers -> AsReal(x)
        [] shape.kind \in {"varchar", "text"} /\ x.t = "str" ->
             LET cut == Val("str", SubSeq(x.v, 1, shape.width))
             IN  CASE Len(x.v) <= shape.width -> x
                   [] Blanks(x.v, shape.width) -> cut
                   [] OTHER -> clipped(cut)
        [] shape.kind = "char" /\ x.t = "str" /\ Len(x.v) <= shape.width -> Val("str", Unpadded(x.v))
        [] x.t = ColType[c] /\ shape.kind = "temporal" -> x
        [] OTHER -> Other
EngineStore(c, x) ==
  CASE ColType[c] = "real" /\ x.t = "int" -> AsReal(x)
    [] ColType[c] \in {"int", "uint", "big"} /\ x.t = "real" -> Num("int", 2 * (Number(x) \div 2))
    [] ColType[c] = "str" /\ x.t \in Numbers -> Other
    [] OTHER -> x

Here(env) == [NoContext EXCEPT !.env = env]
(* Row pump: the assignments from left to right, each seeing the last.      *)
ServerRow(m, r) ==
  FoldLeft(LAMBDA row, s : [row EXCEPT ![s.col] = ServerStore(s.col, Eval("maria", s.val, Here(row)))],
           r, m.set)
StoredRow(r) == [c \in DOMAIN r |-> Stored(c, r[c])]
NewValue(c, v, env) ==
  ReadBack(ColType[c], ColCs[c],
           EngineStore(c, Eval("stoolap", WrittenAssignment(c, v), Here(env))))
EngineRow(m, r) ==
  FoldLeft(LAMBDA row, s : [row EXCEPT ![s.col] = NewValue(s.col, s.val, StoredRow(r))], r, m.set)

(* What becomes of each row of the table: whether the condition takes it,   *)
(* what it then is, what in it fails the statement (a value that does not   *)
(* fit its column, or an overflow), and whether the model knows.            *)
Takes(d, conds, r) == Holds(d, conds, IF d = "maria" THEN r ELSE StoredRow(r))
Holding(x, r) == \E c \in DOMAIN r : r[c] = x
After(d, says, r) ==
  IF says # "T" \/ M.cmd = "delete" THEN r
  ELSE IF d = "maria" THEN ServerRow(M, r) ELSE EngineRow(M, r)
Outcome(says, after) ==
  [takes |-> says = "T",
   errors |-> {x \in {"strict", "overflow"} :
                 IF x = "strict" THEN Holding(Misfit, after)
                                 ELSE says = "E" \/ Holding(Error, after)},
   known |-> says # "X" /\ ~ Holding(Other, after),
   row |-> after]
OutcomeBy(d, says, r) == Outcome(says, After(d, says, r))
Outcomes(d, conds) ==
  <<>> \o [i \in DOMAIN data["t"] |->
            OutcomeBy(d, Takes(d, conds, data["t"][i]), data["t"][i])]
ByServer == Outcomes("maria", M.where)
ByEngine(where, changedOnly) == Outcomes("stoolap", ModifyWhere(where, changedOnly))
Counted(where) ==
  Cardinality({i \in DOMAIN data["t"] :
                 Takes("stoolap", WrittenConds({}, where), data["t"][i]) = "T"})
=============================================================================
