------------------------------ MODULE SqlQueries ------------------------------
(* The rows a query expression gives, in either dialect of SqlDialects.     *)
(*                                                                          *)
(* A unit is [legs, order, limit], its legs [op, all, sel] the SELECTs of a *)
(* set operation (one for a plain SELECT).  A SELECT is [list, distinct,    *)
(* from, where, group, having, order, limit, flags]; where, having and on   *)
(* are sequences of conditions.  A FROM entry is [name, on, outer, unit,    *)
(* cols, merges]: a base table has no unit, a derived one its columns, as   *)
(* the statement names them, and whether the server would merge it.  A sort *)
(* key is [it, desc, nulls].                                                *)
EXTENDS SqlDialects, FiniteSetsExt

VARIABLE data   \* table -> its rows, functions of the columns to values

NoLimit == -1
(* Where an expression is evaluated: the row, the rows of its group, and    *)
(* for a window the whole result and the row's place in it.                 *)
NoContext == [env |-> <<>>, grp |-> <<>>, all |-> <<>>, at |-> 0]
KeyOf(it, desc) == [it |-> it, desc |-> desc, nulls |-> "server"]

RECURSIVE HasAggregate(_)
HasAggregate(e) == \/ e.op \in Aggregates
                   \/ e.op # "window" /\ \E i \in DOMAIN e.a : HasAggregate(e.a[i])
IsConstant(e) == e.op \in {"lit", "true"}

(* NULLs sort first ascending and last descending in MariaDB; in stoolap    *)
(* the other way round unless the key says.                                 *)
KeyLess(d, k, x, y) ==
  LET nullsFirst == CASE d = "maria" -> ~ k.desc
                      [] k.nulls = "default" -> k.desc
                      [] OTHER -> k.nulls = "first"
  IN  CASE x = Null -> nullsFirst /\ y # Null
        [] y = Null -> ~ nullsFirst
        [] OTHER -> OrderOf(d, CollationOf(k.it), x, y)
                      = (IF k.desc THEN "gt" ELSE "lt")
Before(d, keys, p, q) ==
  \E i \in DOMAIN keys :
    /\ KeyLess(d, keys[i], p[i], q[i])
    /\ \A j \in 1 .. i - 1 : ~ KeyLess(d, keys[j], p[j], q[j])
                             /\ ~ KeyLess(d, keys[j], q[j], p[j])
OneRow(d, css, p, q) == \A i \in DOMAIN p : OneValue(d, css[i], p[i], q[i])
Picked(rows, chosen) ==
  LET idx == SelectSeq([i \in DOMAIN rows |-> i], LAMBDA i : i \in chosen)
  IN  [n \in DOMAIN idx |-> rows[idx[n]]]
AlikeTo(d, css, keys, i) == {j \in DOMAIN keys : OneRow(d, css, keys[i], keys[j])}
Distinct(d, css, rows) ==
  FoldLeft(LAMBDA kept, r : IF \E i \in DOMAIN kept : OneRow(d, css, kept[i].out, r.out)
                              THEN kept ELSE Append(kept, r), <<>>, rows)
Limited(limit, rows) ==
  IF limit = NoLimit \/ limit > Len(rows) THEN rows ELSE SubSeq(rows, 1, limit)
Sorted(d, keys, limit, rows) ==
  Limited(limit, SortSeq(rows, LAMBDA p, q : Before(d, keys, p.key, q.key)))

Wildcard == 9
LikeMatch(cs, s, p) ==
  LET f(q) == IF cs = "ci" /\ ~ trust THEN Folded(q) ELSE q
      n == Len(p)
  IN  IF n > 0 /\ p[n] = Wildcard THEN IsPrefix(SubSeq(f(p), 1, n - 1), f(s))
                                 ELSE f(s) = f(p)

RECURSIVE Eval(_, _, _), UnitRows(_, _, _), UnitResult(_, _, _), Entries(_, _, _)

(* An aggregate over the values of a group's rows: all of them, those not   *)
(* NULL, and those each once.                                               *)
Unlike(d, cs, some) ==
  FoldLeft(LAMBDA k, v : IF \E i \in DOMAIN k : OneValue(d, cs, k[i], v)
                           THEN k ELSE Append(k, v), <<>>, some)
Total(s) == FoldLeft(LAMBDA n, v : n + Number(v), 0, s)
SumOf(d, e, s) ==
  CASE s = <<>> -> Null
    [] \E i \in DOMAIN s : s[i].t \notin Numbers -> Other
    [] OTHER -> Num(IF d = "maria" THEN TypeOf(e) ELSE s[1].t, Total(s))
Best(d, cs, some, order) ==
  some[CHOOSE i \in DOMAIN some :
         \A j \in DOMAIN some : OrderOf(d, cs, some[j], some[i]) \notin {order, "other"}]
AggregateOf(d, e, vals, some, seen) ==
  CASE \E i \in DOMAIN vals : vals[i] = Error -> Error
    [] e.op = "count" -> Whole(Len(some))
    [] e.op = "countdistinct" -> Whole(Len(seen))
    [] e.op = "sum" -> SumOf(d, e, some)
    [] e.op = "sumdistinct" -> SumOf(d, e, seen)
    [] some = <<>> -> Null
    [] e.op = "avg" -> Num(SumOf(d, e, some).t, Total(some) \div Len(some))
    [] e.op \in {"min", "max"} ->
         Best(d, CollationOf(e.a[1]), some, IF e.op = "min" THEN "lt" ELSE "gt")
    [] OTHER -> Other
NotNull(vals) == SelectSeq(vals, LAMBDA v : v # Null)
AggregateOver(d, e, vals, some) ==
  AggregateOf(d, e, vals, some, Unlike(d, CollationOf(e.a[1]), some))
AggregateBy(d, e, vals) == AggregateOver(d, e, vals, NotNull(vals))
Aggregate(d, e, x) ==
  AggregateBy(d, e, [i \in DOMAIN x.grp |-> Eval(d, e.a[1], [x EXCEPT !.env = x.grp[i] @@ x.env])])

(* A window function at row x.at of the rows x.all: its peers are the rows  *)
(* of its partition, place the order of those by the window's keys, equal   *)
(* keys as they come.                                                       *)
RowAt(x, i) == [x EXCEPT !.env = x.all[i] @@ x.env]
Peers(d, e, x) ==
  LET part(i) == [k \in DOMAIN e.part |-> Eval(d, e.part[k], RowAt(x, i))]
  IN  AlikeTo(d, [k \in DOMAIN e.part |-> CollationOf(e.part[k])],
              [i \in DOMAIN x.all |-> part(i)], x.at)
WindowKeys(d, e, x) ==
  [i \in DOMAIN x.all |-> [k \in DOMAIN e.order |-> Eval(d, e.order[k].it, RowAt(x, i))]]
(* The pairs of peers of which the first has the lower keys.                *)
Lower(d, e, peers, keys) ==
  {p \in peers \X peers : Before(d, e.order, keys[p[1]], keys[p[2]])}
Places(peers, lower) ==
  [i \in peers |->
     1 + Cardinality({j \in peers : <<j, i>> \in lower \/ (<<i, j>> \notin lower /\ j < i)})]
Framed(e, x, place, lower) ==
  IF e.frame # <<>>
    THEN {i \in DOMAIN place : place[i] \in place[x.at] + e.frame[1] .. place[x.at] + e.frame[2]}
    ELSE {i \in DOMAIN place : <<x.at, i>> \notin lower}
(* lag() and lead(): the value n places on.                                 *)
ValueAt(d, f, x, place, n) ==
  IF n \notin Range(place) THEN Null
  ELSE Eval(d, f.a[1], RowAt(x, CHOOSE i \in DOMAIN place : place[i] = n))
WindowAt(d, e, f, x, keys, lower, place) ==
  LET ahead == {i \in DOMAIN place : <<i, x.at>> \in lower}
  IN  CASE f.op = "rownumber" -> Whole(place[x.at])
        [] f.op = "rank" -> Whole(Cardinality(ahead) + 1)
        [] f.op = "denserank" -> Whole(Cardinality({keys[i] : i \in ahead}) + 1)
        [] f.op \in {"lag", "lead"} ->
             ValueAt(d, f, x, place, place[x.at] + IF f.op = "lag" THEN -1 ELSE 1)
        [] e.frame = <<>> /\ d = "stoolap" -> Other
        [] OTHER -> Eval(d, f, [x EXCEPT !.grp = Picked(x.all, Framed(e, x, place, lower))])
WindowOver(d, e, x, keys, peers, lower) ==
  WindowAt(d, e, e.a[1], x, keys, lower, Places(peers, lower))
WindowOf(d, e, x, keys, peers) == WindowOver(d, e, x, keys, peers, Lower(d, e, peers, keys))
Window(d, e, x) == WindowOf(d, e, x, WindowKeys(d, e, x), Peers(d, e, x))

Mixed(d, e, v) ==
  IF d = "maria" /\ v.t \in Numbers /\ TypeOf(e) = "real" THEN AsReal(v) ELSE v
Compared(d, e, op, i, j, args) == CompareTruth(d, CompareCs(e.a[i], e.a[j]), op, args[i], args[j])
LikeTruth(d, e, s, p) ==
  CASE Null \in {s, p} -> "U"
    [] s.t # "str" -> "X"
    [] OTHER -> TruthOf(LikeMatch(IF d = "maria" THEN CompareCs(e.a[1], e.a[2]) ELSE "bn", s.v, p.v))
(* The conditions, their negations apart.                                   *)
Condition(d, e, args, truths) ==
  CASE e.op \in {"isnull", "isnotnull"} ->
         IF args[1] = Error THEN "E" ELSE TruthOf((args[1] = Null) = (e.op = "isnull"))
    [] e.op = "not" -> NotTruth(truths[1])
    [] e.op = "and" -> AndTruth(truths)
    [] e.op = "or" -> OrTruth(truths)
    [] e.op \in Comparisons -> Compared(d, e, e.op, 1, 2, args)
    [] e.op \in {"between", "notbetween"} ->
         AndTruth([i \in 1 .. 2 |-> Compared(d, e, "<=", 3 - i, (2 * i) - 1, args)])
    [] e.op \in {"in", "notin"} ->
         OrTruth([i \in 1 .. Len(args) - 1 |-> Compared(d, e, "=", 1, i + 1, args)])
    [] e.op \in {"like", "notlike"} -> LikeTruth(d, e, args[1], args[2])
Negations == {"notbetween", "notin", "notlike"}
ConditionOps == {"isnull", "isnotnull", "not", "and", "or", "between", "in", "like"}
                 \cup Comparisons \cup Negations
Concatenated(d, e, some, n) ==
  IF Len(some) < n /\ (d = "maria" \/ e.op = "||") THEN Null
  ELSE Val("str", FlattenSeq([i \in DOMAIN some |-> some[i].v]))
(* A string cut to n characters: blanks may go, others fail it.             *)
Fitted(e, x, s) ==
  CASE x = Null \/ Len(s) <= e.v -> x
    [] \A i \in e.v + 1 .. Len(s) : s[i] = Blank -> Val("str", SubSeq(s, 1, e.v))
    [] OTHER -> IF e.op = "fit" THEN Misfit ELSE x
(* An operator over the values of its arguments.                            *)
Applied(d, e, args, truths) ==
  CASE e.op = "true" -> Whole(1)
    [] e.op = "asint" -> IF args[1].t = "bool" THEN Whole(args[1].v[1]) ELSE args[1]
    [] e.op = "asreal" -> IF args[1].t = "int" THEN AsReal(args[1]) ELSE args[1]
    [] e.op \in Negations -> FromTruth(d, NotTruth(Condition(d, e, args, truths)))
    [] e.op \in ConditionOps -> FromTruth(d, Condition(d, e, args, truths))
    [] Error \in Range(args) /\ e.op \notin {"coalesce", "case", "casevalue"} -> Error
    [] e.op \in {"+", "-", "*", "/"} -> Arith(d, TypeOf(e), e.op, args[1], args[2])
    [] e.op \in {"neg", "abs"} ->
         CASE args[1].t \in Numbers ->
                Num(args[1].t, IF e.op = "abs" /\ Number(args[1]) > 0
                                 THEN Number(args[1]) ELSE - Number(args[1]))
           [] args[1].t \in {"null", "bool"} -> Null
           [] OTHER -> Other
    [] e.op = "coalesce" ->
         IF NotNull(args) = <<>> THEN Null ELSE Mixed(d, e, NotNull(args)[1])
    [] e.op = "nullif" -> IF Compared(d, e, "=", 1, 2, args) = "T" THEN Null ELSE args[1]
    [] e.op = "case" -> IF truths[1] \in {"E", "X"} THEN FromTruth(d, truths[1])
                        ELSE Mixed(d, e, IF truths[1] = "T" THEN args[2] ELSE args[3])
    [] e.op = "casevalue" ->
         Mixed(d, e, IF Compared(d, e, "=", 1, 2, args) = "T" THEN args[3] ELSE args[4])
    [] e.op \in {"concat", "||"} -> Concatenated(d, e, NotNull(args), Len(args))
    [] e.op \in {"fit", "fitself"} -> Fitted(e, args[1], args[1].v)
    [] e.op = "charlength" -> IF args[1] = Null THEN Null ELSE Whole(Len(args[1].v))
    [] OTHER -> Other
AppliedTo(d, e, args) == Applied(d, e, args, [i \in DOMAIN args |-> Truth(d, args[i])])
OfSubquery(d, e, x, rows) ==
  CASE e.op = "exists" -> FromTruth(d, TruthOf(rows # <<>>))
    [] e.op = "scalar" -> IF rows = <<>> THEN Null ELSE rows[1][1]
    [] e.op = "insub" ->
         FromTruth(d, OrTruth([i \in DOMAIN rows |->
           CompareTruth(d, CompareCs(e.a[1], e.q.legs[1].sel.list[1]), "=", x, rows[i][1])]))
Eval(d, e, x) ==
  CASE e.op \in {"col", "vref"} -> x.env[e.v]
    [] e.op = "lit" -> IF d = "stoolap" /\ Backslash \in Range(e.v.v) THEN Other ELSE e.v
    [] e.op \in {"exists", "scalar", "insub"} ->
         OfSubquery(d, e, Eval(d, e.a[1], x), UnitRows(d, e.q, x))
    [] e.op \in Aggregates -> Aggregate(d, e, x)
    [] e.op = "window" -> Window(d, e, x)
    [] OTHER -> AppliedTo(d, e, <<>> \o [i \in DOMAIN e.a |-> Eval(d, e.a[i], x)])

-----------------------------------------------------------------------------
Holds(d, conds, env) ==
  LET x == [NoContext EXCEPT !.env = env]
  IN  AndTruth([i \in DOMAIN conds |-> Truth(d, Eval(d, conds[i], x))])

BaseRows(d, name) ==
  [i \in DOMAIN data[name] |->
     [c \in DOMAIN data[name][i] |->
        IF d = "maria" THEN data[name][i][c] ELSE Stored(c, data[name][i][c])]]
DerivedRows(cols, rows) ==
  [i \in DOMAIN rows |->
     [c \in Range(cols) |-> rows[i][CHOOSE k \in DOMAIN cols : cols[k] = c]]]
EntryRows(d, t, env) ==
  IF t.unit = <<>> THEN BaseRows(d, t.name)
  ELSE DerivedRows(t.cols, UnitRows(d, t.unit[1], [NoContext EXCEPT !.env = env]))
ColumnsOf(t) == IF t.unit = <<>> THEN DOMAIN data[t.name][1] ELSE Range(t.cols)

(* The joins from left to right.  A row that fails the statement is kept,   *)
(* so that the failure shows.                                               *)
Showing == {"T", "E", "X"}
Meeting(d, t, env, left, right) ==
  SelectSeq([j \in DOMAIN right |-> right[j] @@ left],
            LAMBDA r : Holds(d, t.on, r @@ env) \in Showing)
OuterRow(t, left, met) ==
  IF met = <<>> /\ t.outer THEN << [c \in ColumnsOf(t) |-> Null] @@ left >> ELSE met
Joined(d, from, env) ==
  FoldLeft(LAMBDA rows, t :
    FlattenSeq([i \in DOMAIN rows |->
      OuterRow(t, rows[i], Meeting(d, t, env, rows[i], EntryRows(d, t, env)))]),
    << <<>> >>, from)

(* The server sorts a GROUP BY by its keys unless an ORDER BY says other.   *)
SortKeys(d, s) ==
  IF d = "maria" /\ \A i \in DOMAIN s.order : IsConstant(s.order[i].it)
    THEN s.group ELSE s.order

(* The groups of the rows kept, each with the context its expressions are   *)
(* evaluated in; without any, a row is its own and a window sees them all.  *)
Grouped(s) ==
  \/ s.group # <<>>
  \/ \E i \in DOMAIN s.list : HasAggregate(s.list[i])
  \/ \E i \in DOMAIN s.having : HasAggregate(s.having[i])
InContext(x, g, all, at) ==
  [env |-> (IF g = <<>> THEN <<>> ELSE g[1]) @@ x.env, grp |-> g, all |-> all, at |-> at]
GroupKeys(d, s, x, kept) ==
  [i \in DOMAIN kept |-> [k \in DOMAIN s.group |->
     Eval(d, s.group[k].it, [x EXCEPT !.env = kept[i] @@ x.env])]]
GroupsBy(d, css, keys, kept) ==
  LET firsts == SelectSeq([i \in DOMAIN kept |-> i],
                  LAMBDA i : \A j \in AlikeTo(d, css, keys, i) : i <= j)
  IN  [g \in DOMAIN firsts |-> Picked(kept, AlikeTo(d, css, keys, firsts[g]))]
GroupsOf(d, s, x, kept) ==
  GroupsBy(d, [k \in DOMAIN s.group |-> CollationOf(s.group[k].it)], GroupKeys(d, s, x, kept), kept)
ContextsOf(x, groups) == [k \in DOMAIN groups |-> InContext(x, groups[k], <<>>, 0)]
ContextsFor(d, s, x, kept) ==
  CASE ~ Grouped(s) -> [i \in DOMAIN kept |-> InContext(x, <<kept[i]>>, kept, i)]
    [] s.group = <<>> -> << InContext(x, kept, <<>>, 0) >>
    [] OTHER -> ContextsOf(x, GroupsOf(d, s, x, kept))

(* What the conditions of the SELECT say of the rows it keeps: one that     *)
(* fails, fails the statement.                                              *)
HavingOf(d, s, c) == AndTruth([i \in DOMAIN s.having |-> Truth(d, Eval(d, s.having[i], c))])
Verdicts(d, s, x, kept, shown) ==
  {Holds(d, s.where, kept[i] @@ x.env) : i \in DOMAIN kept}
    \cup {HavingOf(d, s, shown[i]) : i \in DOMAIN shown}
    \cup {Holds(d, s.from[i].on, kept[j] @@ x.env) : i \in DOMAIN s.from, j \in DOMAIN kept}
Output(d, s, verdicts, shown) ==
  [i \in DOMAIN shown |->
    [out |-> [k \in DOMAIN s.list |->
                CASE "E" \in verdicts -> Error
                  [] "X" \in verdicts -> Other
                  [] OTHER -> Eval(d, s.list[k], shown[i])],
     key |-> [k \in DOMAIN SortKeys(d, s) |-> Eval(d, SortKeys(d, s)[k].it, shown[i])]]]
Deduplicated(d, s, rows) ==
  IF s.distinct THEN Distinct(d, [k \in DOMAIN s.list |-> CollationOf(s.list[k])], rows)
                ELSE rows
EntriesShown(d, s, x, kept, shown) ==
  Deduplicated(d, s, Output(d, s, Verdicts(d, s, x, kept, shown), shown))
EntriesKept(d, s, x, kept) ==
  EntriesShown(d, s, x, kept, SelectSeq(ContextsFor(d, s, x, kept),
                                        LAMBDA c : HavingOf(d, s, c) \in Showing))
Entries(d, s, x) ==
  EntriesKept(d, s, x, SelectSeq(Joined(d, s.from, x.env),
                                 LAMBDA r : Holds(d, s.where, r @@ x.env) \in Showing))

-----------------------------------------------------------------------------
(* Set operations, from left to right on the values of the result's types.  *)
LegTypes(u) ==
  [k \in DOMAIN u.legs[1].sel.list |->
     MixOf({TypeOf(u.legs[i].sel.list[k]) : i \in DOMAIN u.legs})]
LegCs(u) ==
  [k \in DOMAIN u.legs[1].sel.list |->
     FoldLeft(LAMBDA c, l : CsJoin(c, CsUsed(l.sel.list[k])), "literal", u.legs)]

(* INTERSECT and EXCEPT keep the n-th row of its kind by how many of them   *)
(* the other side has, without ALL by whether it has any.                   *)
Chosen(op, all, nth, count) ==
  LET counts == IF all THEN nth ELSE 1
  IN  IF op = "intersect" THEN counts <= count ELSE counts > count
AlikeIn(d, css, r, s) == Cardinality({i \in DOMAIN s : OneRow(d, css, r.out, s[i].out)})
Selected(d, css, op, all, p, q) ==
  Picked(p, {i \in DOMAIN p : Chosen(op, all, AlikeIn(d, css, p[i], SubSeq(p, 1, i)),
                                              AlikeIn(d, css, p[i], q))})
OnlyOnce(d, css, all, rows) == IF all THEN rows ELSE Distinct(d, css, rows)
Combined(d, css, op, all, p, q) ==
  OnlyOnce(d, css, all, IF op = "union" THEN p \o q ELSE Selected(d, css, op, all, p, q))

(* The rows of a unit with their sort keys, in no order and without its     *)
(* limit.                                                                   *)
Typed(d, types, rows) ==
  [i \in DOMAIN rows |->
    [out |-> [k \in DOMAIN rows[i].out |->
               IF d = "maria" /\ types[k] = "real" /\ rows[i].out[k].t \in Numbers
                 THEN AsReal(rows[i].out[k]) ELSE rows[i].out[k]],
     key |-> <<>>]]
KeyedBy(order, rows) ==
  [i \in DOMAIN rows |-> [rows[i] EXCEPT !.key = [k \in DOMAIN order |-> rows[i].out[order[k].n]]]]
ResultOf(d, u, types, legs) ==
  IF Len(legs) = 1 THEN legs[1]
  ELSE KeyedBy(u.order,
         FoldLeft(LAMBDA p, l : Combined(d, LegCs(u), u.legs[l].op, u.legs[l].all,
                                         p, Typed(d, types, legs[l])),
                  Typed(d, types, legs[1]), [n \in 1 .. Len(legs) - 1 |-> n + 1]))
UnitResult(d, u, x) ==
  ResultOf(d, u, LegTypes(u), <<>> \o [i \in DOMAIN u.legs |-> Entries(d, u.legs[i].sel, x)])

(* A set operation is sorted by its columns n, in the collation that won.   *)
UnitKeys(d, u) ==
  LET item(n) == CHOOSE e \in {u.legs[i].sel.list[n] : i \in DOMAIN u.legs} :
                   CsUsed(e) = LegCs(u)[n]
  IN  IF Len(u.legs) = 1 THEN SortKeys(d, u.legs[1].sel)
      ELSE [k \in DOMAIN u.order |-> [u.order[k] EXCEPT !.it = item(u.order[k].n)]]
UnitLimit(u)   == IF Len(u.legs) = 1 THEN u.legs[1].sel.limit ELSE u.limit
Outs(rows) == [i \in DOMAIN rows |-> rows[i].out]
UnitRows(d, u, x) == Outs(Sorted(d, UnitKeys(d, u), UnitLimit(u), UnitResult(d, u, x)))

-----------------------------------------------------------------------------
(* Every base table of a SELECT, its derived tables and its subqueries.     *)
RECURSIVE TablesOf(_), ItemTables(_)
ItemTables(e) ==
  UNION {ItemTables(e.a[i]) : i \in DOMAIN e.a}
    \cup (IF e.op \in {"exists", "insub", "scalar"} THEN TablesOf(e.q) ELSE {})
TablesOf(u) ==
  UNION {LET s == u.legs[i].sel
         IN  UNION ({IF s.from[k].unit = <<>> THEN {s.from[k].name}
                     ELSE TablesOf(s.from[k].unit[1]) : k \in DOMAIN s.from}
                    \cup {ItemTables(s.list[k]) : k \in DOMAIN s.list}
                    \cup {ItemTables(s.where[k]) : k \in DOMAIN s.where}) :
         i \in DOMAIN u.legs}
=============================================================================
