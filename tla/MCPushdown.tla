------------------------------ MODULE MCPushdown ------------------------------
(* The statements, columns and rows Pushdown is checked on.  Table t has a  *)
(* column of every kind, table s those a join or subquery needs; k is a     *)
(* table of another engine.                                                 *)
EXTENDS Pushdown

Types ==
  [i |-> "int", i2 |-> "int", u |-> "uint", big |-> "big", r |-> "real",
   dec |-> "dec", ci |-> "str", bp |-> "str", bn |-> "str", hx |-> "str",
   dt |-> "dt", tm |-> "tm", j |-> "int", bn2 |-> "str", ci2 |-> "str", dt2 |-> "dt", n |-> "int", wide |-> "int"]
   @@ ("d.i" :> "int")
Collations ==
  [c \in DOMAIN Types |-> IF c \in {"ci", "bp"} THEN c
                          ELSE IF c = "ci2" THEN "ci" ELSE IF c = "hx" THEN "hex"
                          ELSE IF Types[c] = "str" THEN "bn" ELSE "literal"]

Str(s) == Val("str", s)
a == <<LowerA>>
A == <<UpperA>>
ValuesOf(c) ==
  CASE c \in {"i", "i2", "j", "n"} -> <<Null, Whole(1), Whole(2)>>
    [] c \in {"u", "big"} -> <<Null, Whole(0), Whole(2)>>
    [] c = "wide" -> <<Whole(8), Whole(9)>>
    [] c = "r" -> <<Null, Num("real", 1), Num("real", 4)>>
    [] c = "dec" -> <<Null, Num("dec", 18), Num("dec", 20)>>
    [] c \in {"ci", "bp", "bn", "hx"} -> <<Null, Str(a), Str(A), Str(a \o <<Blank>>)>>
    [] c \in {"dt", "tm"} -> <<Null, Val(c, <<1>>), Val(c, <<2>>)>>

(* Every pair of values of two columns, in the numbered rows of a table.    *)
Pairs(c1, c2) ==
  LET v1 == ValuesOf(c1)
      v2 == ValuesOf(c2)
      n2 == IF c1 = c2 THEN 1 ELSE Len(v2)
  IN  [p \in 1 .. Len(v1) * n2 |->
         (c1 :> v1[((p - 1) \div n2) + 1]) @@ (c2 :> v2[((p - 1) % n2) + 1])
           @@ ("n" :> Whole(p))]

Col(c) == [op |-> "col", a |-> <<>>, v |-> c]
Sub(op, args, u) == [op |-> op, a |-> args, v |-> Null, q |-> u]
Base(name) == [name |-> name, on |-> <<>>, outer |-> FALSE, unit |-> <<>>,
               cols |-> <<>>, merges |-> FALSE]
From(list) ==
  [list |-> list, distinct |-> FALSE, from |-> <<Base("t")>>, where |-> <<>>,
   group |-> <<>>, having |-> <<>>, order |-> <<>>, limit |-> NoLimit, flags |-> {}]
Unit(s) == [legs |-> <<[op |-> "union", all |-> TRUE, sel |-> s]>>,
            order |-> <<>>, limit |-> NoLimit]

-----------------------------------------------------------------------------
(* A statement's name is a tuple of strings that starts with its family; a  *)
(* leaf's name is a column's or a literal's.                                *)
Literals ==
  ("NULL" :> Null) @@ ("1" :> Whole(1)) @@ ("0.5e0" :> Num("real", 1)) @@ ("1.5" :> Num("dec", 3))
  @@ ("9.0" :> Num("dec", 18))
  @@ ("'a'" :> Str(a)) @@ ("'a '" :> Str(a \o <<Blank>>)) @@ ("'\\'" :> Str(<<Backslash>>))
  @@ ("'date1'" :> Str(<<61>>)) @@ ("'time1'" :> Str(<<71>>))
  @@ ("'A'" :> Str(A)) @@ ("'a%'" :> Str(a \o <<Wildcard>>)) @@ ("TRUE" :> Null)
  @@ ("DATE1" :> Val("dt", <<1>>)) @@ ("TIME1" :> Val("tm", <<1>>))
Leaf(n) == CASE n \in DOMAIN Types -> Col(n)
             [] n = "TRUE" -> F("true", <<>>)
             [] OTHER -> Lit(Literals[n])
Columns == {"i", "u", "big", "r", "dec", "ci", "bp", "bn", "hx", "dt", "tm"}
ColumnNames == Columns \cup {"i2", "wide"}
Leaves == Columns \cup {"i2"} \cup DOMAIN Literals
FewLeaves == {"i", "r", "bn", "ci", "dt", "NULL", "1", "1.5", "'a'"}
Used(s) == SelectSeq(s, LAMBDA x : x \in ColumnNames)

(* One operator over two leaves: selected, as the condition, and as an      *)
(* operand.                                                                 *)
Binary == {"=", "<", "<=>", "+", "-", "/", "coalesce", "nullif", "concat"}
BinaryNames ==
  {<<"list", op, x, y>> : op \in Binary, x \in Leaves, y \in Leaves}
    \cup {<<f, op, x, y>> : f \in {"where", "operand"}, op \in Binary \cap Comparisons,
                            x \in Leaves, y \in Leaves}
BinaryUnit(s) ==
  LET e == F(s[2], <<Leaf(s[3]), Leaf(s[4])>>)
  IN  Unit(CASE s[1] = "list" -> From(<<e>>)
             [] s[1] = "where" -> [From(<<Col("n")>>) EXCEPT !.where = <<e>>]
             [] s[1] = "operand" -> From(<<F("+", <<e, Lit(Whole(1))>>)>>))


(* One operator over one leaf, or over a comparison.                        *)
Comparison == F("=", <<Col("i"), Col("i2")>>)
UnaryNames ==
  {<<"unary", op, x>> : op \in {"neg", "abs", "isnull", "charlength", "not"}, x \in Leaves}
    \cup {<<"true", place, "TRUE", "i">> : place \in {"where", "list"}}
    \cup {<<"truth", op, "i", "i2">> : op \in {"neg", "abs", "not", "isnull", "isnotnull",
                                          "and", "or", "sum", "max", "coalesce", "order"}}
UnaryUnit(s) ==
  Unit(CASE s[1] = "unary" -> From(<<F(s[2], <<Leaf(s[3])>>)>>)
         [] s[1] = "true" -> IF s[2] = "list" THEN From(<<Leaf("TRUE")>>)
                             ELSE [From(<<Col("n")>>) EXCEPT !.where = <<Leaf("TRUE")>>]
         [] s[2] \in {"and", "or"} ->
              From(<<F(s[2], <<Comparison, F("isnull", <<Col("i")>>), Comparison>>)>>)
         [] s[2] = "order" -> [From(<<Col("n")>>) EXCEPT !.order = <<KeyOf(Comparison, TRUE),
                                                                     KeyOf(Col("n"), TRUE)>>]
         [] OTHER -> From(<<F(s[2], <<Comparison>>)>>))

(* A column against two literals, and against a pattern.                    *)
RangeNames ==
  {<<"range", op, x, y, z>> : op \in {"between", "notbetween", "in", "notin"}, x \in Columns,
                              y \in DOMAIN Literals, z \in DOMAIN Literals}
    \cup {<<"like", op, x, p>> : op \in {"like", "notlike"}, x \in Columns,
                                 p \in {"'a%'", "'A'", "'a '", "NULL", "1"}}
RangeUnit(s) ==
  Unit([From(<<Col("n")>>) EXCEPT !.where = <<F(s[2], [i \in 1 .. Len(s) - 2 |-> Leaf(s[i + 2])])>>])

(* Values that mix, and what is computed from them.                         *)
MixLeaves == {"i", "r", "u", "1", "1.5", "NULL"}
MixNames ==
  {s \in {<<"mix", op, x, y, z>> : op \in {"case", "casevalue"},
                                   x \in FewLeaves, y \in FewLeaves, z \in FewLeaves}
         \cup {<<"nest", op, in, x, y, z>> :
                 op \in {"/", "+", "=", "<", "coalesce"}, in \in {"coalesce", "nullif", "+", "case"},
                 x \in MixLeaves, y \in MixLeaves, z \in MixLeaves \ {"u"}} :
     Cardinality(Range(Used(s))) <= 2}
Choice(x, y) == F("case", <<F("isnotnull", <<Leaf(x)>>), Leaf(x), Leaf(y)>>)
MixUnit(s) ==
  Unit(From(<<CASE s[1] = "nest" ->
                     F(s[2], <<IF s[3] = "case" THEN Choice(s[4], s[5])
                               ELSE F(s[3], <<Leaf(s[4]), Leaf(s[5])>>), Leaf(s[6])>>)
                [] s[2] = "case" ->
                     F("case", <<F("=", <<Leaf(s[3]), Leaf("1")>>), Leaf(s[4]), Leaf(s[5])>>)
                [] OTHER -> F("casevalue", <<Leaf(s[3]), Leaf("1"), Leaf(s[4]), Leaf(s[5])>>)>>))

(* Order, groups, duplicates, aggregates and windows, by columns of every   *)
(* kind.                                                                    *)
OrderNames ==
  {<<"order", op, x, dir>> : op \in {"all", "limit", "distinct", "group", "constant"},
                             x \in Columns, dir \in {"asc", "desc"}}
    \cup {<<"order", "two", x, dir, y>> : x \in Columns, y \in Columns, dir \in {"asc", "desc"}}
    \cup {<<"aggregate", op, x, y>> : op \in Aggregates, x \in Columns,
                                      y \in {"all", "none", "i2", "bn", "ci"}}
    \cup {<<"window", f, x, dir, p>> : f \in {"rownumber", "rank", "denserank", "lag", "sum", "max",
                                              "defaultframe"},
            x \in {"i", "r", "dec", "ci", "bn", "dt"}, dir \in {"asc", "desc"},
            p \in {"none", "i2", "bn", "ci"}}
OrderUnit(s) ==
  LET x == Col(s[3])
      key == <<KeyOf(x, s[4] = "desc")>>
      by == IF s[1] = "aggregate" /\ s[4] \in ColumnNames THEN <<KeyOf(Col(s[4]), FALSE)>> ELSE <<>>
      part == IF s[1] = "window" /\ s[5] \in ColumnNames THEN <<Col(s[5])>> ELSE <<>>
      q == From(<<x>>)
  IN  CASE s[1] = "aggregate" ->
             [From(<<F(s[2], <<x>>)>>) EXCEPT
                !.group = by, !.where = IF s[4] = "none" THEN <<F("<", <<Col("n"), Leaf("1")>>)>> ELSE <<>>,
                !.having = IF s[4] = "i2" THEN <<F("isnotnull", <<F(s[2], <<x>>)>>)>> ELSE <<>>]
        [] s[1] = "window" ->
             From(<<[op |-> "window", v |-> Null, part |-> part, order |-> key,
                     a |-> <<F(IF s[2] = "defaultframe" THEN "sum" ELSE s[2],
                               IF s[2] \in {"rownumber", "rank", "denserank"} THEN <<>> ELSE <<Col("n")>>)>>,
                     frame |-> IF s[2] \in {"sum", "max"} THEN <<-1, 0>> ELSE <<>>], Col("n")>>)
        [] s[2] = "all" -> [q EXCEPT !.order = key]
        [] s[2] = "limit" -> [q EXCEPT !.order = key, !.limit = 2]
        [] s[2] = "distinct" -> [q EXCEPT !.order = key, !.distinct = TRUE]
        [] s[2] = "group" -> [q EXCEPT !.group = <<KeyOf(x, FALSE)>>]
        [] s[2] = "constant" -> [q EXCEPT !.group = <<KeyOf(x, FALSE)>>, !.limit = 2,
                                          !.order = <<KeyOf(Leaf("1"), FALSE)>>]
        [] s[2] = "two" -> [q EXCEPT !.order = key \o <<KeyOf(Col(s[5]), FALSE)>>, !.limit = 3]

(* Set operations over two columns of one table, or a literal.              *)
SetNames ==
  {<<"set", op, all, x, y, kind>> : op \in {"union", "intersect", "except"}, all \in {"all", "distinct"},
     x \in Columns \cup {"wide", "1.5", "NULL"}, y \in Columns \cup {"wide", "1", "NULL"},
     kind \in {"plain", "distinctleg", "desc"}}
SetUnit(s) ==
  LET leg(x) == [From(<<Leaf(x)>>) EXCEPT !.distinct = s[6] = "distinctleg"]
  IN  [legs |-> <<[op |-> "union", all |-> TRUE, sel |-> leg(s[4])],
                  [op |-> s[2], all |-> s[3] = "all", sel |-> leg(s[5])]>>,
       order |-> IF s[6] = "desc"
                   THEN <<[n |-> 1, it |-> Null, desc |-> TRUE, nulls |-> "server"]>> ELSE <<>>,
       limit |-> IF s[6] = "desc" THEN 2 ELSE NoLimit]

(* A derived table d over s in a join of t (or of k, another engine's), and *)
(* subqueries over s in a WHERE over t.                                     *)
Listed == [column |-> Col("j"), constant |-> Leaf("1"), expr |-> F("coalesce", <<Col("j"), Leaf("1")>>),
           refused |-> F("concat", <<Col("j"), Col("j")>>)]
DerivedNames ==
  {<<"derived", join, list, merges, filter, left>> :
     join \in {"inner", "outer", "cross", "outerfirst"}, list \in DOMAIN Listed,
     merges \in {"merges", "materialized"}, filter \in {"all", "some"}, left \in {"t", "k"}}
Ref(list) == [op |-> "vref", a |-> <<Listed[list]>>, v |-> "d.i", of |-> "d"]
DerivedUnit(s) ==
  LET ref == Ref(s[3])
      inner == [From(<<Listed[s[3]]>>) EXCEPT
                  !.from = <<Base("s")>>,
                  !.where = IF s[5] = "some" THEN <<F("<", <<Leaf("1"), Col("j")>>)>> ELSE <<>>]
      d == [name |-> "d", on |-> IF s[2] \in {"inner", "outer"} THEN <<F("=", <<Col("i"), ref>>)>> ELSE <<>>,
            outer |-> s[2] = "outer", unit |-> <<Unit(inner)>>, cols |-> <<"d.i">>,
            merges |-> s[4] = "merges"]
      t == [Base(s[6]) EXCEPT !.on = IF s[2] = "outerfirst" THEN <<F("=", <<Col("i"), ref>>)>> ELSE <<>>,
                              !.outer = s[2] = "outerfirst"]
  IN  Unit([From(<<Col("i"), ref>>) EXCEPT !.from = IF s[2] = "outerfirst" THEN <<d, t>> ELSE <<t, d>>])

SubNames ==
  {<<"sub", op, x, y, not>> : op \in {"exists", "existsother", "existsmax", "insub", "scalar"},
     x \in {"i", "r", "bn", "ci", "dt", "NULL"}, y \in {"j", "bn2", "ci2", "dt2"}, not \in {"", "not"}}
SubUnit(s) ==
  LET other == [From(<<IF s[2] = "existsother" THEN F("concat", <<Col("j")>>)
                       ELSE IF s[2] \in {"scalar", "existsmax"} THEN F("max", <<Col(s[4])>>) ELSE Col(s[4])>>) EXCEPT
                  !.from = <<Base("s")>>,
                  !.where = IF s[2] = "insub" THEN <<>> ELSE <<F("=", <<Col("j"), Col("i")>>)>>]
      sub == CASE s[2] = "insub" -> Sub("insub", <<Leaf(s[3])>>, Unit(other))
               [] s[2] = "scalar" -> F("=", <<Leaf(s[3]), Sub("scalar", <<>>, Unit(other))>>)
               [] OTHER -> Sub("exists", <<>>, Unit(other))
  IN  Unit([From(<<Col("n")>>) EXCEPT !.where = <<IF s[5] = "not" THEN F("not", <<sub>>) ELSE sub>>])

(* What is left to the server whatever its expressions.                     *)
OtherNames ==
  {<<"flag", f, "i">> : f \in {"rollup", "values", "withties", "foundrows", "sideeffect",
                               "rand", "forupdate"}}
    \cup {<<"context", c, "i">> : c \in Contexts}
    \cup {<<"count", c, "i">> : c \in {"bare", "filtered"}} \cup {<<"foreign", "k", "i">>}
OtherUnit(s) ==
  LET q == From(<<Col("i")>>)
  IN  Unit(CASE s[1] = "flag" -> [q EXCEPT !.flags = {s[2]}]
             [] s[1] = "count" -> [From(<<F("count", <<Leaf("1")>>)>>) EXCEPT
                                     !.where = IF s[2] = "bare" THEN <<>> ELSE <<Comparison>>]
             [] s[1] = "foreign" -> [q EXCEPT !.from = <<Base("k")>>]
             [] OTHER -> q)

MCStatement == BinaryNames \cup UnaryNames \cup RangeNames \cup MixNames \cup OrderNames
                 \cup SetNames \cup DerivedNames \cup SubNames \cup OtherNames
MCUnitOf(s) ==
  CASE s[1] \in {"list", "where", "operand"} -> BinaryUnit(s)
    [] s[1] \in {"unary", "true", "truth"} -> UnaryUnit(s)
    [] s[1] \in {"range", "like"} -> RangeUnit(s)
    [] s[1] \in {"mix", "nest"} -> MixUnit(s)
    [] s[1] \in {"order", "aggregate", "window"} -> Unit(OrderUnit(s))
    [] s[1] = "set" -> SetUnit(s)
    [] s[1] = "derived" -> DerivedUnit(s)
    [] s[1] = "sub" -> SubUnit(s)
    [] OTHER -> OtherUnit(s)
MCContextOf(s) == IF s[1] = "context" THEN {s[2]} ELSE {}
MCTablesFor(s) ==
  LET used == Used(s)
      c1 == IF used = <<>> THEN "i" ELSE used[1]
      more == {i \in DOMAIN used : used[i] # c1}
      other(p) == [j |-> ValuesOf("j")[p], bn2 |-> ValuesOf("bn")[p], ci2 |-> ValuesOf("ci")[p],
                   dt2 |-> ValuesOf("dt")[p]]
      table(c) == Pairs("i", c)
  IN  CASE s[1] \in {"derived", "foreign"} ->
             {[t |-> table("i"), k |-> table("i"), s |-> q] :
                q \in {<<other(1)>>, <<other(2), other(3)>>, <<other(1), other(2), other(3), other(3)>>}}
        [] s[1] = "sub" -> {[t |-> table(c1), s |-> q] : q \in {<<other(2)>>, <<other(2), other(1), other(3)>>}}
        [] s[1] \in {"truth", "count", "flag"} -> {[t |-> Pairs("i", "i2")]}
        [] OTHER -> {[t |-> Pairs(c1, IF more = {} THEN c1 ELSE used[CHOOSE i \in more : TRUE])]}
MCForeign == {"k"}
=============================================================================
