-------------------------------- MODULE SqlGen --------------------------------
(* stoolap_sqlgen: a prepared Item tree becomes stoolap SQL, construct by   *)
(* construct, or is refused.  Writes* says whether the generator gets       *)
(* through a construct, Written* what it then appends: an item or unit of   *)
(* the same kind, with the operators "asint" (CAST AS INTEGER), "asreal"    *)
(* (CAST AS FLOAT) and "||" only stoolap has.  g is the set of derived      *)
(* tables written as their base table.                                      *)
EXTENDS SqlQueries

-----------------------------------------------------------------------------
(* What a value is to stoolap.                                              *)
Classes == {"INT", "REAL", "STR", "DATETIME", "TIME", "UNSAFE"}
Temporal(c) == c \in {"DATETIME", "TIME"}
NumericCls(c) == c \in {"INT", "REAL"}

RECURSIVE RealItem(_)
RealItem(e) == IF e.op = "vref" THEN RealItem(e.a[1]) ELSE e

FieldCls(c) ==
  CASE ColType[c] \in {"int", "uint"} -> "INT"
    [] ColType[c] = "real" -> "REAL"
    [] ColType[c] = "str" /\ ColCs[c] # "hex" -> "STR"
    [] ColType[c] = "dt" -> "DATETIME"
    [] ColType[c] = "tm" -> "TIME"
    [] OTHER -> "UNSAFE"

RECURSIVE Cls(_)
Cls(e) ==
  LET r == RealItem(e)
      t == TypeOf(e)
  IN  CASE r.op = "col" -> FieldCls(r.v)
        [] r.op \in {"sum", "sumdistinct"} /\ Cls(r.a[1]) = "INT" -> "INT"
        [] t \in {"int", "bool"} -> "INT"
        [] t = "real" -> "REAL"
        [] t = "dec" /\ e.op = "lit" -> "REAL"
        [] t = "str" /\ CollationOf(e) # "hex" -> "STR"
        [] OTHER -> "UNSAFE"

CsSafe(cs)    == cs # "hex" /\ (trust \/ cs = "bn")
StrCmpSafe(e) == CsSafe(CollationOf(e))
IsNullLit(e)  == e.op = "lit" /\ e.v = Null

ComparableIn(cs, e1, e2) ==
  \/ IsNullLit(e1) \/ IsNullLit(e2)
  \/ NumericCls(Cls(e1)) /\ NumericCls(Cls(e2))
  \/ Cls(e1) = "STR" /\ Cls(e2) = "STR" /\ CsSafe(cs)
  \/ Cls(e1) = Cls(e2) /\ Temporal(Cls(e1))
Comparable(e1, e2) == ComparableIn(CompareCs(e1, e2), e1, e2)
(* The server does not say how it compares: both sides must be safe.        *)
ComparableAlone(e1, e2) ==
  /\ ComparableIn(CollationOf(e1), e1, e2)
  /\ ComparableIn(CollationOf(e2), e1, e2)
(* IN and BETWEEN compare all their operands in one collation.              *)
ComparableAll(e) == \A i \in 2 .. Len(e.a) :
  ComparableIn(IF CsUsed(e) = "literal" THEN "ci" ELSE CsUsed(e), e.a[1], e.a[i])

Orderable(e) ==
  \/ NumericCls(Cls(e)) \/ Temporal(Cls(e))
  \/ Cls(e) = "STR" /\ StrCmpSafe(e)

SameFamily(es) ==
  LET cs == {Cls(e) : e \in {x \in es : ~ IsNullLit(x)}}
  IN  cs \subseteq {"INT", "REAL"} \/ cs = {"STR"}
Branches(e, es) == SameFamily(es) /\ Cls(e) # "UNSAFE"

-----------------------------------------------------------------------------
(* Literals, and strings a date or time column is compared with.            *)
F(op, args) == [op |-> op, a |-> args, v |-> Null]
Lit(x) == [op |-> "lit", a |-> <<>>, v |-> x]
WritesLiteral(x) ==
  /\ x.t \notin {"dt", "tm"}
  /\ x.t = "str" => \A i \in DOMAIN x.v : x.v[i] # Backslash
  /\ x.t = "dec" => Number(x) <= 16      \* 15 digits: what a double holds
WrittenLiteral(x) == Lit(IF x.t = "dec" THEN AsReal(x) ELSE x)

TemporalType(e) ==
  CASE Cls(e) = "DATETIME" -> "dt" [] Cls(e) = "TIME" -> "tm" [] OTHER -> "none"
(* h: the type the server compares as, "" for BETWEEN (not exposed).        *)
LiteralOf(t, k, h) ==
  /\ t # "none" /\ h \in {"", t}
  /\ k.op = "lit" /\ k.v # Null
  /\ k.v.t = "str" => Parsed("maria", t, k.v) # k.v
  /\ k.v.t \in {"str", t}
TemporalLiteral(col, k, h) == LiteralOf(TemporalType(col), k, h)
PackedLiteral(col, k) == Lit(Val("int", Parsed("maria", TemporalType(col), k.v).v))
(* A date wins over a time of day, a string takes the other side's type.    *)
HandlerOf(ts) == IF "dt" \in ts THEN "dt" ELSE IF "tm" \in ts THEN "tm" ELSE "none"
CompareHandler(e1, e2) == HandlerOf({TypeOf(e1), TypeOf(e2)})

(* The arguments written as the integer stoolap stores for them, and the    *)
(* constant of a COUNT, written as COUNT( * ).                              *)
CountsRows(e) == e.op = "count" /\ IsConstant(e.a[1]) /\ ~ IsNullLit(e.a[1])
Packed(e) ==
  CASE CountsRows(e) -> {1}
    [] e.op \in Comparisons ->
         {i \in 1 .. 2 : TemporalLiteral(e.a[3 - i], e.a[i], CompareHandler(e.a[1], e.a[2]))}
    [] e.op \in {"between", "notbetween"}
         /\ (\A i \in 2 .. 3 : TemporalLiteral(e.a[1], e.a[i], "")) -> {2, 3}
    [] OTHER -> {}

-----------------------------------------------------------------------------
(* What the generator asks of a construct, its arguments apart.             *)
Subqueries == {"exists", "insub", "scalar"}
PlainExists(e) == e.op = "exists" /\ Len(e.q.legs) = 1
IsCondition(e) == TypeOf(e) = "bool"
KeyItems(keys) == [i \in DOMAIN keys |-> keys[i].it]
(* The items a construct is written with.                                   *)
Parts(e) == IF e.op = "window" THEN e.a \o e.part \o KeyItems(e.order) ELSE e.a

AllowsSum(e) ==
  CASE e.op = "count" -> TRUE
    [] e.op \in {"countdistinct", "min", "max"} -> Orderable(e.a[1])
    [] e.op \in {"sum", "sumdistinct"} -> NumericCls(Cls(e.a[1]))
    [] e.op = "avg" -> Cls(e.a[1]) = "REAL"
    [] OTHER -> FALSE

AllowsWindow(e) ==
  /\ e.a[1].op \notin {"countdistinct", "sumdistinct"}
  /\ e.a[1].op \notin Ranking => e.frame # <<>>
  /\ \A k \in Range(e.part \o KeyItems(e.order)) : Orderable(k)

AllowsFunc(e, cls) ==
  LET all == {cls[i] : i \in DOMAIN cls}
      numeric == all \subseteq {"INT", "REAL"}
  IN  CASE e.op \in Comparisons -> Packed(e) # {} \/ Comparable(e.a[1], e.a[2])
        [] e.op \in {"between", "notbetween"} -> Packed(e) # {} \/ ComparableAll(e)
        [] e.op \in {"in", "notin"} -> ComparableAll(e)
        [] e.op \in {"like", "notlike"} ->
             /\ all = {"STR"} /\ e.a[2].op = "lit"
             /\ trust \/ CompareCs(e.a[1], e.a[2]) \in {"bp", "bn"}
        [] e.op = "case" -> Branches(e, {e.a[2], e.a[3]}) /\ IsCondition(e.a[1])
        [] e.op = "casevalue" -> Comparable(e.a[1], e.a[2]) /\ Branches(e, {e.a[3], e.a[4]})
        [] e.op \in {"+", "-", "*", "abs", "neg"} -> numeric /\ NumericCls(Cls(e))
        [] e.op = "/" -> numeric /\ Cls(e) = "REAL"
        [] e.op = "coalesce" -> Branches(e, Range(e.a))
        [] e.op = "nullif" -> ComparableAlone(e.a[1], e.a[2])
        [] e.op \in {"charlength", "concat"} -> all = {"STR"}
        [] OTHER -> FALSE

Allows(e) ==
  CASE e.op \in {"col", "true", "vref", "isnull", "isnotnull", "exists", "scalar"} \cup Ranking -> TRUE
    [] e.op = "lit" -> WritesLiteral(e.v)
    [] e.op \in {"and", "or", "not"} -> \A i \in DOMAIN e.a : IsCondition(e.a[i])
    [] e.op \in Aggregates -> AllowsSum(e)
    [] e.op = "window" -> AllowsWindow(e)
    [] e.op = "insub" -> \A i \in DOMAIN e.q.legs : ComparableAlone(e.a[1], e.q.legs[i].sel.list[1])
    [] OTHER -> AllowsFunc(e, [i \in DOMAIN e.a |-> Cls(e.a[i])])

-----------------------------------------------------------------------------
(* A derived table the server would merge, over one base table: its rows    *)
(* are the table's that meet its WHERE.  On the inner side of an outer join *)
(* only if every column of a missing row then reads NULL.                   *)
MergesSelect(s, outer) ==
  /\ Len(s.from) = 1 /\ s.from[1].unit = <<>> /\ s.from[1].on = <<>>
  /\ \A i \in DOMAIN s.list : s.list[i].op # "window"
  /\ s.flags \cap {"rollup", "rand"} = {}
  /\ outer => \A i \in DOMAIN s.list : RealItem(s.list[i]).op = "col"
Mergeable(t) == t.unit # <<>> /\ t.merges /\ MergesSelect(t.unit[1].legs[1].sel, t.outer)
MergedWhere(t) == IF Mergeable(t) THEN t.unit[1].legs[1].sel.where ELSE <<>>

AggregateSelect(s) ==
  \E e \in Range(s.list) \cup Range(s.having) : HasAggregate(e)
(* The select list of an EXISTS without aggregates is not written.          *)
ListUnread(s, exists) == exists /\ ~ AggregateSelect(s)
ConstantOrder(s) == \A i \in DOMAIN s.order : IsConstant(s.order[i].it)

ConditionsOf(s) ==
  Range(s.where) \cup Range(s.having)
    \cup UNION {Range(s.from[i].on \o MergedWhere(s.from[i])) : i \in DOMAIN s.from}
KeysOf(s) ==
  Range(KeyItems(s.group)) \cup (IF ConstantOrder(s) THEN {} ELSE Range(KeyItems(s.order)))
ItemsOf(s, exists) ==
  ConditionsOf(s) \cup KeysOf(s) \cup (IF ListUnread(s, exists) THEN {} ELSE Range(s.list))
DerivedOf(s) ==
  {s.from[i] : i \in {k \in DOMAIN s.from : s.from[k].unit # <<>> /\ ~ Mergeable(s.from[k])}}

(* One column of a set operation's result, and a leg's value for it.        *)
UnitCls(t, cs) ==
  CASE t \in {"int", "bool"} -> "INT"
    [] t = "real" -> "REAL"
    [] t = "str" /\ cs # "hex" -> "STR"
    [] OTHER -> "UNSAFE"
UnitColumns(u) ==
  IF Len(u.legs) = 1 THEN <<>>
  ELSE [k \in DOMAIN u.legs[1].sel.list |-> UnitCls(LegTypes(u)[k], LegCs(u)[k])]
FitsColumn(s, e, want) ==
  /\ IsNullLit(e) \/ Cls(e) = want \/ (want = "REAL" /\ Cls(e) = "INT")
  /\ ~ (s.distinct /\ want = "REAL" /\ Cls(e) = "INT")

BinaryItem(e) == TypeOf(e) = "null" \/ (TypeOf(e) = "str" /\ CollationOf(e) = "hex")
AllowsList(s, cols) ==
  \A i \in DOMAIN s.list :
    /\ s.distinct => Orderable(s.list[i])
    /\ BinaryItem(s.list[i]) => RealItem(s.list[i]).op = "col"
    /\ cols # <<>> => FitsColumn(s, s.list[i], cols[i])

AllowsSelect(s, exists, cols) ==
  /\ s.flags \cap {"rollup", "values", "withties", "foundrows"} = {}
  /\ s.from # <<>> /\ s.from[1].on = <<>> /\ ~ s.from[1].outer
  /\ \A i \in DOMAIN s.from : s.from[i].outer => s.from[i].on # <<>>
  /\ ListUnread(s, exists) \/ AllowsList(s, cols)
  /\ \A e \in ConditionsOf(s) : IsCondition(e)
  /\ \A e \in KeysOf(s) : Orderable(e)

Deduplicates(u) == \E i \in 2 .. Len(u.legs) : ~ u.legs[i].all \/ u.legs[i].op # "union"
AllowsSetOperation(u, cols, sortable) ==
  /\ \A k \in DOMAIN cols : cols[k] # "UNSAFE"
  /\ Deduplicates(u) => sortable = DOMAIN cols
  /\ \A i \in DOMAIN u.legs : u.legs[i].sel.order = <<>> /\ u.legs[i].sel.limit = NoLimit
  /\ \A i \in DOMAIN u.order : u.order[i].n \in sortable
AllowsUnit(u, exists, cols) ==
  /\ cols # <<>> =>
       AllowsSetOperation(u, cols, {k \in DOMAIN cols : cols[k] = "STR" => CsSafe(LegCs(u)[k])})
  /\ \A i \in DOMAIN u.legs : AllowsSelect(u.legs[i].sel, exists, cols)

RECURSIVE WritesExpr(_), WritesUnit(_, _)
WritesExpr(e) ==
  /\ Allows(e)
  /\ \A i \in DOMAIN Parts(e) \ Packed(e) : WritesExpr(Parts(e)[i])
  /\ e.op \in Subqueries => WritesUnit(e.q, PlainExists(e))
WritesCondition(e) == IsCondition(e) /\ WritesExpr(e)

WritesUnit(u, exists) ==
  /\ AllowsUnit(u, exists, UnitColumns(u))
  /\ \A i \in DOMAIN u.legs :
       /\ \A e \in ItemsOf(u.legs[i].sel, exists) : WritesExpr(e)
       /\ \A t \in DerivedOf(u.legs[i].sel) : WritesUnit(t.unit[1], FALSE)

-----------------------------------------------------------------------------
(* What is written.  w gives the text of the items a construct is made of;  *)
(* a condition where a value is asked for is cast.                          *)
AsValue(e, text) == IF e.op = "col" \/ TypeOf(e) # "bool" THEN text ELSE F("asint", <<text>>)
Operand(w, e)   == AsValue(e, w[e])
Operands(w, es) == [i \in DOMAIN es |-> Operand(w, es[i])]
Texts(w, es)    == [i \in DOMAIN es |-> w[es[i]]]

(* A branch of a DOUBLE result: an integer is cast, or 3 / 2 would divide   *)
(* as integers.                                                             *)
Branch(w, e, result) ==
  IF result = "REAL" /\ Cls(e) = "INT" THEN F("asreal", <<Operand(w, e)>>) ELSE Operand(w, e)

(* Mutant: the server's NULL order taken for stoolap's.                     *)
PlacementSwapped(desc) == IF desc THEN "first" ELSE "last"
Placement(desc) == IF desc THEN "last" ELSE "first"
OrderList(w, keys) ==
  [i \in DOMAIN keys |-> [keys[i] EXCEPT !.it = Operand(w, @), !.nulls = Placement(keys[i].desc)]]

BranchesOf(e) ==
  CASE e.op = "case" -> {2, 3} [] e.op = "casevalue" -> {3, 4}
    [] e.op = "coalesce" -> DOMAIN e.a [] OTHER -> {}
Argument(w, e, i) ==
  CASE CountsRows(e) -> Lit(Whole(1))
    [] i \in Packed(e) ->
         PackedLiteral(e.a[CHOOSE j \in DOMAIN e.a : j \notin Packed(e)], e.a[i])
    [] i \in BranchesOf(e) -> Branch(w, e.a[i], Cls(e))
    [] e.op \in {"and", "or", "not", "case"} -> w[e.a[i]]
    [] OTHER -> Operand(w, e.a[i])
WrittenFunc(w, e) ==
  F(IF e.op = "concat" THEN "||" ELSE e.op, [i \in DOMAIN e.a |-> Argument(w, e, i)])

RECURSIVE WrittenNode(_, _), WrittenUnit(_, _, _, _)
WrittenWith(g, e, w) ==
  CASE e.op = "col" -> e
    [] e.op = "lit" -> WrittenLiteral(e.v)
    [] e.op = "true" -> Lit(Whole(1))
    [] e.op = "vref" -> IF e.of \in g THEN Operand(w, e.a[1])
                        ELSE [op |-> "col", a |-> <<>>, v |-> e.v]
    [] e.op = "window" -> [e EXCEPT !.a = Texts(w, @), !.part = Operands(w, @),
                                    !.order = OrderList(w, @)]
    [] e.op \in Subqueries ->
         [e EXCEPT !.a = Operands(w, @), !.q = WrittenUnit(g, @, FALSE, PlainExists(e))]
    [] OTHER -> WrittenFunc(w, e)
WrittenNode(g, e) == WrittenWith(g, e, [x \in Range(Parts(e)) |-> WrittenNode(g, x)])
WrittenExpr(g, e) == AsValue(e, WrittenNode(g, e))
WrittenConds(g, es) == [i \in DOMAIN es |-> WrittenNode(g, es[i])]

MergedIn(from) == {from[i].name : i \in {j \in DOMAIN from : Mergeable(from[j])}}
(* The ON of an entry takes a merged WHERE; one no ON can carry goes to the *)
(* SELECT's own.                                                            *)
OnOf(w, t) == Texts(w, t.on \o (IF t.on = <<>> THEN <<>> ELSE MergedWhere(t)))
LeftWhere(from) ==
  FlattenSeq([i \in DOMAIN from |-> IF from[i].on = <<>> THEN MergedWhere(from[i]) ELSE <<>>])
WrittenEntry(g, w, t) ==
  CASE Mergeable(t) -> [t.unit[1].legs[1].sel.from[1] EXCEPT !.on = OnOf(w, t), !.outer = t.outer]
    [] t.unit = <<>> -> [t EXCEPT !.on = OnOf(w, t)]
    [] OTHER -> [t EXCEPT !.on = OnOf(w, t), !.unit = <<WrittenUnit(g, t.unit[1], FALSE, FALSE)>>]

WrittenList(w, s, exists, cols) ==
  IF ListUnread(s, exists) THEN <<Lit(Whole(1))>>
  ELSE [i \in DOMAIN s.list |-> IF cols = <<>> THEN Operand(w, s.list[i])
                                ELSE Branch(w, s.list[i], cols[i])]
SelectWith(g, w, s, top, exists, cols) ==
  [s EXCEPT
    !.list = WrittenList(w, s, exists, cols),
    !.from = [i \in DOMAIN s.from |-> WrittenEntry(g, w, s.from[i])],
    !.where = Texts(w, s.where \o LeftWhere(s.from)),
    !.having = Texts(w, s.having),
    !.group = [i \in DOMAIN s.group |-> [s.group[i] EXCEPT !.it = Operand(w, @)]],
    !.order = CASE ~ ConstantOrder(s) -> OrderList(w, s.order)
                [] top \/ s.limit # NoLimit -> OrderList(w, s.group)
                [] OTHER -> <<>>]
SelectOver(g, s, top, exists, cols) ==
  SelectWith(g, [e \in ItemsOf(s, exists) |-> WrittenNode(g, e)], s, top, exists, cols)
WrittenSelect(g, s, top, exists, cols) ==
  SelectOver(g \cup MergedIn(s.from), s, top, exists, cols)

WrittenUnit(g, u, top, exists) ==
  [u EXCEPT
    !.legs = [i \in DOMAIN u.legs |->
       [u.legs[i] EXCEPT
          !.sel = WrittenSelect(g, @, top /\ Len(u.legs) = 1, exists, UnitColumns(u))]],
    !.order = [i \in DOMAIN u.order |-> [u.order[i] EXCEPT !.nulls = Placement(u.order[i].desc)]]]

(* Only the statement's own SELECT is the top one: gen_unit has none, and   *)
(* leaves a group list of a derived table unsorted.                         *)
GenUnit(u)         == WritesUnit(u, FALSE)
StoolapSql(u, top) == WrittenUnit({}, u, top, FALSE)
=============================================================================
