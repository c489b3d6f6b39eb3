---------------------------- MODULE MCDirectModify ----------------------------
(* The statements and rows DirectModify is checked on: one table t with a   *)
(* column of every kind a SET may name.  Its constants are what ModifySql   *)
(* makes of a statement, the trust in binary strings and the tables.        *)
EXTENDS DirectModify

Types ==
  [pk |-> "int", i |-> "int", j |-> "int", ti |-> "int", nn |-> "int", y |-> "int",
   r |-> "real", fl |-> "real", vc |-> "str", vc2 |-> "str", ch |-> "str", te |-> "str",
   ci |-> "str", dec |-> "dec", hx |-> "str", dt |-> "dt", dt2 |-> "dt", tm |-> "tm"]
Collations == [c \in DOMAIN Types |-> CASE c = "ci" -> "ci" [] c = "hx" -> "hex"
                                        [] Types[c] = "str" -> "bn" [] OTHER -> "literal"]
Kinds == [pk |-> "bigint", i |-> "bigint", j |-> "bigint", ti |-> "integer", nn |-> "integer",
          y |-> "year", r |-> "double", fl |-> "float", vc |-> "varchar", vc2 |-> "varchar",
          ch |-> "char", te |-> "text", ci |-> "varchar", dec |-> "decimal", hx |-> "varchar",
          dt |-> "temporal", dt2 |-> "temporal", tm |-> "temporal"]
MCShape == [c \in DOMAIN Types |-> [kind |-> Kinds[c], lo |-> -1, hi |-> 3, width |-> 2,
                                    notnull |-> c \in {"pk", "nn"}]]

INSTANCE SqlGen WITH ColType <- Types, ColCs <- Collations
MCForeign == {"k"}
Sql(m, t, d) ==
  INSTANCE ModifySql WITH M <- m, trust <- t, data <- d, ColType <- Types,
    ColCs <- Collations, Shape <- MCShape, PrimaryKey <- "pk", Foreign <- MCForeign

S(s) == Val("str", s)
a == <<LowerA>>
Row(pk, n, m, s, u, t) ==
  [pk |-> Whole(pk), i |-> n, j |-> m, ti |-> n, nn |-> Whole(1), y |-> m,
   r |-> IF n = Null THEN Null ELSE AsReal(n), fl |-> Null, vc |-> s, vc2 |-> u, ch |-> s, te |-> u,
   ci |-> s, dec |-> IF m = Null THEN Null ELSE Num("dec", Number(m)), hx |-> s,
   dt |-> t, dt2 |-> Val("dt", <<2>>), tm |-> Val("tm", <<1>>)]
Rows1 == <<Row(1, Whole(1), Whole(1), S(a), S(<<UpperA>>), Val("dt", <<1>>)),
           Row(2, Whole(2), Null, S(<<UpperA>>), S(a \o a), Null),
           Row(3, Null, Whole(2), Null, S(a \o <<Blank>>), Val("dt", <<2>>))>>
Rows2 == <<Row(2, Whole(2), Whole(1), S(a \o a), S(a), Val("dt", <<2>>)),
           Row(3, Whole(1), Whole(2), S(<<Blank>>), Null, Null)>>

Col(c) == [op |-> "col", a |-> <<>>, v |-> c]
Is(c, x) == F("=", <<Col(c), Lit(x)>>)
From(list) ==
  [list |-> list, distinct |-> FALSE, where |-> <<>>, group |-> <<>>, having |-> <<>>,
   order |-> <<>>, limit |-> NoLimit, flags |-> {},
   from |-> <<[name |-> "k", on |-> <<>>, outer |-> FALSE, unit |-> <<>>, cols |-> <<>>,
               merges |-> FALSE]>>]
Values ==
  [null |-> Lit(Null), one |-> Lit(Whole(1)), nine |-> Lit(Whole(9)), half |-> Lit(Num("real", 1)),
   decimal |-> Lit(Num("dec", 3)), string |-> Lit(S(a)), blank |-> Lit(S(a \o <<Blank>>)), long |-> Lit(S(a \o a \o a)),
   i |-> Col("i"), j |-> Col("j"), r |-> Col("r"), vc |-> Col("vc"), ci |-> Col("ci"),
   decc |-> Col("dec"), dt |-> Col("dt"), dt2 |-> Col("dt2"), tm |-> Col("tm"),
   next |-> F("+", <<Col("i"), Lit(Whole(1))>>), far |-> F("+", <<Col("i"), Lit(Whole(29))>>),
   both |-> F("concat", <<Col("vc"), Col("vc2")>>), known |-> F("coalesce", <<Col("j"), Lit(Whole(0))>>),
   truth |-> Is("i", Whole(1)), mix |-> F("coalesce", <<Col("r"), Col("j")>>),
   pad |-> F("concat", <<Col("vc"), Lit(S(<<Blank, Blank>>))>>)]
Conditions ==
  [none |-> <<>>, pk |-> <<Is("pk", Whole(2))>>,
   pkand |-> <<F("and", <<Is("pk", Whole(2)), Is("i", Whole(2))>>)>>,
   pkcolumn |-> <<F("=", <<Col("pk"), Col("i")>>)>>, nullable |-> <<Is("j", Whole(1))>>, isnull |-> <<F("isnull", <<Col("j")>>)>>,
   less |-> <<F("<", <<Col("i"), Lit(Num("real", 3))>>)>>,
   not |-> <<F("not", <<Is("j", Whole(1))>>)>>, vc |-> <<Is("vc", S(a))>>, ci |-> <<Is("ci", S(a))>>,
   dec |-> <<Is("dec", Whole(1))>>, dt |-> <<F("=", <<Col("dt"), Col("dt2")>>)>>, value |-> <<Col("i")>>,
   foreign |-> <<[op |-> "exists", a |-> <<>>, v |-> Null,
                  q |-> [legs |-> <<[op |-> "union", all |-> TRUE, sel |-> From(<<Lit(Whole(1))>>)]>>,
                         order |-> <<>>, limit |-> NoLimit]]>>]
Modes == [strict |-> {"strict"}, lax |-> {}, foundrows |-> {"strict", "foundrows"}]
Flags == {"prepare", "routine", "substatement", "multitable", "orderby", "limit", "sideeffect",
          "checkconstraint", "onupdate", "ignore"}

Targets == DOMAIN Types \ {"pk"}
MCStatement ==
  {<<"set", c, v, w, m>> : c \in Targets, v \in DOMAIN Values,
                           w \in {"none", "pk", "nullable"}, m \in {"strict", "lax"}}
    \cup {<<"set", c, v, w, m>> : c \in {"i", "ti", "vc"}, v \in {"one", "next", "far", "both", "pad", "string"},
                                  w \in DOMAIN Conditions, m \in DOMAIN Modes}
    \cup {<<"two", c, v, d, "strict">> : c \in {"i", "ti", "r"}, d \in {"j", "ti", "vc"},
                                         v \in {"i", "j", "next", "one"}}
    \cup {<<"delete", "rows", "none", w, m>> : w \in DOMAIN Conditions, m \in {"strict"}}
    \cup {<<x, "flag", "one", "nullable", f>> : x \in {"set", "delete"}, f \in Flags}
MCModifyOf(s) ==
  LET where == Conditions[IF s[1] = "two" THEN "nullable" ELSE s[4]]
      flags == IF s[2] = "flag" THEN {"strict", s[5]} ELSE Modes[s[5]]
      c == IF s[2] = "flag" THEN "i" ELSE s[2]
  IN  [cmd |-> IF s[1] = "delete" THEN "delete" ELSE "update",
       set |-> CASE s[1] = "delete" -> <<>>
                 [] s[1] = "set" -> <<[col |-> c, val |-> Values[s[3]]]>>
                 [] s[1] = "two" -> <<[col |-> c, val |-> Values[s[3]]],
                                      [col |-> s[4], val |-> IF s[4] = "vc" THEN Values.both ELSE Values.next]>>,
       where |-> where, flags |-> flags]
MCTablesFor(s) == {[t |-> Rows1, k |-> <<Rows1[1]>>], [t |-> Rows2, k |-> <<Rows1[1]>>]}

-----------------------------------------------------------------------------
(* A condition alone, or a statement, depends on no row.                    *)
MCPushable(s, t, where) == Sql(MCModifyOf(s), t, <<>>)!CanDirectModify(where)
MCFolds(t, where) == Sql(<<>>, t, <<>>)!CaseFolds(where)
MCOneRowFor(where) == Sql(<<>>, FALSE, <<>>)!OneRowCount(where)
MCServerOn(s, t, d) == Sql(MCModifyOf(s), t, d)!ByServer
MCEngineOn(s, t, d, where, changedOnly) ==
  Sql(MCModifyOf(s), t, d)!ByEngine(where, changedOnly)
MCCountOn(s, t, d, where) == Sql(MCModifyOf(s), t, d)!Counted(where)
=============================================================================
