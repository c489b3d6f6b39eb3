------------------------------ MODULE SqlDialects ------------------------------
(* What a pushed expression means to MariaDB and what the SQL written for   *)
(* it means to stoolap: one evaluator with the dialect, "maria" or          *)
(* "stoolap", as its first argument.  Both are external to the plugin; the  *)
(* differences are the ones stoolap_sqlgen.cc states beside its code.       *)
(*                                                                          *)
(* A value is [t, v]: its type and a sequence of integers.  A number counts *)
(* halves ("int", "real", "dec"); a string is the codes of its characters   *)
(* in the order of their bytes; a temporal value is its packed integer.     *)
(* "other" is a result this model does not know, "error" one that fails the *)
(* statement.  An item is [op, a, v]: an operator, its arguments and, for a *)
(* column or literal, its name or value.                                    *)
EXTENDS Integers, Sequences, SequencesExt, TLC

CONSTANTS
  ColType,    \* column -> "int" | "uint" | "big" | "real" | "dec" | "str" |
              \*           "dt" | "tm"
  ColCs       \* column -> its collation

VARIABLE trust      \* the session's stoolap_trust_binary_strings

-----------------------------------------------------------------------------
Val(t, v) == [t |-> t, v |-> v]
Null   == Val("null", <<>>)
Other  == Val("other", <<>>)
Error  == Val("error", <<>>)
Misfit == Val("error", <<1>>)
Num(t, halves) == Val(t, <<halves>>)
Whole(n) == Num("int", 2 * n)

Numbers  == {"int", "real", "dec"}
Number(x) == x.v[1]

(* Above 8 a double of this model holds the even integers only, as an IEEE  *)
(* one does above 2^53.                                                     *)
AsReal(x) ==
  Num("real", IF Number(x) > 16 THEN Number(x) - (Number(x) % 4) ELSE Number(x))

Blank  == 1
UpperA == 2
LowerA == 3
Backslash == -8     \* stoolap's lexer gives some escapes a meaning
Folded(s)   == [i \in DOMAIN s |-> IF s[i] = UpperA THEN LowerA ELSE s[i]]
Unpadded(s) ==
  SubSeq(s, 1, CHOOSE n \in 0 .. Len(s) :
                 /\ n > 0 => s[n] # Blank
                 /\ \A i \in n + 1 .. Len(s) : s[i] = Blank)

(* How a collation reads a string: "ci" folds case, "ci" and "bp" ignore    *)
(* trailing blanks (PAD SPACE), "bn" compares bytes (NO PAD), "hex" stands  *)
(* for a binary or non-utf8 character set.  A session that trusts binary    *)
(* strings asks for bytes in every utf8 collation; stoolap compares bytes.  *)
SortKey(d, cs, s) ==
  CASE d = "stoolap" \/ trust \/ cs \in {"bn", "hex"} -> s
    [] cs = "bp" -> Unpadded(s)
    [] cs = "ci" -> Folded(Unpadded(s))

SeqLess(s, u) ==
  \/ Len(s) < Len(u) /\ \A i \in DOMAIN s : s[i] = u[i]
  \/ \E i \in DOMAIN s \cap DOMAIN u :
       s[i] < u[i] /\ \A j \in 1 .. i - 1 : s[j] = u[j]

-----------------------------------------------------------------------------
(* What stoolap stores of a column (stoolap_types.h): a DECIMAL as text, a  *)
(* binary string as hex, a date or time as its packed integer.              *)
DecimalText(x) ==
  LET n == Number(x) \div 2
  IN  IF n < 10 THEN <<30 + n>> ELSE <<30 + (n \div 10), 30 + (n % 10)>>
Stored(c, x) ==
  CASE x = Null -> Null
    [] ColType[c] = "dec" -> Val("str", DecimalText(x))
    [] ColType[c] = "str" /\ ColCs[c] = "hex" ->
         Val("str", [i \in DOMAIN x.v |-> x.v[i] + 50])
    [] ColType[c] \in {"dt", "tm"} -> Val("int", x.v)
    [] OTHER -> x

(* What the server finds in its record for stoolap's result x of an item of *)
(* type t and collation cs.                                                 *)
ReadBack(t, cs, x) ==
  CASE x.t \in {"null", "error"} -> x
    [] t \in {"int", "uint", "big", "bool"} /\ x.t = "int" -> x
    [] t = "real" /\ x.t \in {"int", "real"} -> AsReal(x)
    [] t = "dec" /\ x.t \in {"int", "real"} -> Num("dec", Number(x))
    [] t = "dec" /\ x.t = "str" ->
         Num("dec", 2 * FoldLeft(LAMBDA n, ch : (10 * n) + ch - 30, 0, x.v))
    [] t = "str" /\ x.t = "str" /\ cs = "hex" ->
         Val("str", [i \in DOMAIN x.v |-> x.v[i] - 50])
    [] t = "str" /\ x.t = "str" -> x
    [] t \in {"dt", "tm"} /\ x.t = "int" -> Val(t, x.v)
    [] OTHER -> Other

-----------------------------------------------------------------------------
(* Types and collations the server gives an item when it is prepared.       *)
Comparisons == {"=", "<>", "<", "<=", "<=>"}
Booleans == Comparisons \cup {"isnull", "isnotnull", "not", "and", "or",
              "between", "notbetween", "in", "notin", "like", "notlike",
              "exists", "insub", "true"}
Aggregates == {"count", "countdistinct", "sum", "sumdistinct", "avg", "min",
               "max", "groupconcat"}
Ranking == {"rownumber", "rank", "denserank", "lag", "lead"}

(* The type of a value that may be any of several.                          *)
MixOf(ts) ==
  LET T == ts \ {"null"}
  IN  CASE T = {} -> "null"
        [] T \in {{"uint"}, {"str"}, {"dt"}, {"tm"}, {"big"}} -> CHOOSE t \in T : TRUE
        [] T \subseteq {"int", "bool", "uint"} -> "int"
        [] T \subseteq {"int", "bool", "uint", "real", "dec", "big"} ->
             IF "real" \in T THEN "real" ELSE "dec"
        [] OTHER -> "str"

RECURSIVE TypeOf(_)
TypeOf(e) ==
  LET arg(i) == TypeOf(e.a[i])
      args == {arg(i) : i \in DOMAIN e.a}
  IN  CASE e.op = "col" -> ColType[e.v]
        [] e.op = "lit" -> e.v.t
        [] e.op \in Booleans -> "bool"
        [] e.op \in {"vref", "window"} -> arg(1)
        [] e.op \in {"min", "max", "lag", "lead", "abs", "nullif"} ->
             IF arg(1) = "bool" THEN "int" ELSE arg(1)
        [] e.op = "scalar" -> TypeOf(e.q.legs[1].sel.list[1])
        [] e.op \in {"+", "-", "*"} ->
             CASE "real" \in args -> "real"
               [] args \cap {"dec", "str"} # {} -> "dec"
               [] args \cap {"uint", "big"} # {} -> "uint"
               [] OTHER -> "int"
        [] e.op = "/" -> IF "real" \in args THEN "real" ELSE "dec"
        [] e.op = "neg" -> IF arg(1) \in {"real", "dec"} THEN arg(1) ELSE "int"
        [] e.op = "coalesce" -> MixOf(args)
        [] e.op = "case" -> MixOf({arg(2), arg(3)})
        [] e.op = "casevalue" -> MixOf({arg(3), arg(4)})
        [] e.op \in {"concat", "upper", "groupconcat"} -> "str"
        [] e.op \in {"sum", "sumdistinct", "avg"} ->
             IF arg(1) = "real" THEN "real" ELSE "dec"
        [] OTHER -> "int"

(* A column's collation wins over a literal's, which is the connection's    *)
(* ("ci"), a binary one over the rest.                                      *)
CsJoin(c1, c2) ==
  CASE c1 = "literal" -> c2
    [] c2 = "literal" -> c1
    [] OTHER -> IF c1 = "ci" THEN c2 ELSE c1
RECURSIVE CsUsed(_)
CsUsed(e) ==
  CASE e.op = "col" -> ColCs[e.v]
    [] e.op = "scalar" -> CsUsed(e.q.legs[1].sel.list[1])
    [] e.op = "case" -> CsJoin(CsUsed(e.a[2]), CsUsed(e.a[3]))
    [] OTHER -> FoldLeft(LAMBDA c, x : CsJoin(c, CsUsed(x)), "literal", e.a)
CollationOf(e) == IF CsUsed(e) = "literal" THEN "ci" ELSE CsUsed(e)
CompareCs(e1, e2) == LET c == CsJoin(CsUsed(e1), CsUsed(e2))
                     IN  IF c = "literal" THEN "ci" ELSE c

-----------------------------------------------------------------------------
(* Comparison.  A string compared with a date or time is parsed: code 60+k  *)
(* reads as the date k, 70+k as the time of day k, anything else is left to *)
(* MariaDB's rules ("other").                                               *)
CodeOf(t) == IF t = "dt" THEN 60 ELSE 70
Parsed(d, t, x) ==
  IF /\ d = "maria" /\ t \in {"dt", "tm"}
     /\ x.t = "str" /\ Len(x.v) = 1 /\ x.v[1] - CodeOf(t) \in 0 .. 9
    THEN Val(t, <<x.v[1] - CodeOf(t)>>) ELSE x

(* "lt", "eq", "gt", "null", or "other" / "error".                          *)
Ranked(lt, gt) == CASE lt -> "lt" [] gt -> "gt" [] OTHER -> "eq"
NumberOrder(m, n) == Ranked(m < n, m > n)
StringOrder(s, u) == Ranked(SeqLess(s, u), SeqLess(u, s))
OrderOfParsed(d, cs, x, y) ==
  CASE "error" \in {x.t, y.t} -> "error"
    [] Null \in {x, y} -> "null"
    [] \/ {x.t, y.t} \subseteq Numbers
       \/ x.t = y.t /\ x.t \in {"dt", "tm", "bool"} -> NumberOrder(Number(x), Number(y))
    [] {x.t, y.t} = {"str"} -> StringOrder(SortKey(d, cs, x.v), SortKey(d, cs, y.v))
    [] d = "stoolap" /\ {x.t, y.t} = {"bool", "int"} -> "gt"
    [] OTHER -> "other"
OrderOf(d, cs, x, y) == OrderOfParsed(d, cs, Parsed(d, y.t, x), Parsed(d, x.t, y))

(* Truth values: "T", "F", "U" (unknown), "E" (the statement fails) or "X"  *)
(* (not known to this model).  MariaDB tests any number for truth, stoolap  *)
(* only takes booleans.                                                     *)
Truth(d, x) ==
  CASE x = Null -> "U"
    [] d = "maria" /\ x.t \in Numbers -> IF Number(x) # 0 THEN "T" ELSE "F"
    [] d = "stoolap" /\ x.t = "bool" -> IF x.v[1] # 0 THEN "T" ELSE "F"
    [] x = Other -> "X"
    [] OTHER -> "E"
FromTruth(d, p) ==
  CASE p = "U" -> Null
    [] p = "E" -> Error
    [] p = "X" -> Other
    [] d = "maria" -> Whole(IF p = "T" THEN 1 ELSE 0)
    [] OTHER -> Val("bool", <<IF p = "T" THEN 1 ELSE 0>>)
NotTruth(p) == CASE p = "T" -> "F" [] p = "F" -> "T" [] OTHER -> p
(* AND and OR read from the left and stop at a value that decides them.     *)
Chain(ps, stop, rest) ==
  LET ends == {i \in DOMAIN ps : ps[i] \in {stop, "E", "X"}}
  IN  CASE ends # {} -> ps[CHOOSE i \in ends : \A j \in ends : i <= j]
        [] \E i \in DOMAIN ps : ps[i] = "U" -> "U"
        [] OTHER -> rest
AndTruth(ps) == Chain(ps, "F", "T")
OrTruth(ps)  == Chain(ps, "T", "F")

TruthOf(p) == IF p THEN "T" ELSE "F"
OrderTruth(op, order, same) ==
  CASE order = "error" -> "E"
    [] order = "null" -> IF op = "<=>" THEN TruthOf(same) ELSE "U"
    [] order = "other" -> "X"
    [] op \in {"=", "<=>"} -> TruthOf(order = "eq")
    [] op = "<>" -> TruthOf(order # "eq")
    [] op = "<" -> TruthOf(order = "lt")
    [] op = "<=" -> TruthOf(order # "gt")
CompareTruth(d, cs, op, x, y) == OrderTruth(op, OrderOf(d, cs, x, y), x = y)

(* Two values are one for DISTINCT, GROUP BY and set operations.            *)
OneValue(d, cs, x, y) == x = y \/ OrderOf(d, cs, x, y) = "eq"

(* Arithmetic.  TRUE + 1 is NULL in stoolap; an unsigned result below zero  *)
(* is an error in MariaDB; 3 / 2 of integers is an integer in stoolap.  An  *)
(* integer past the 64 bits, here past 30, is an error in both.             *)
Overflows(n) == n > 60 \/ n < -60
Arith(d, t, op, x, y) ==
  LET n == CASE op = "+" -> Number(x) + Number(y)
             [] op = "-" -> Number(x) - Number(y)
             [] op = "*" -> (Number(x) * Number(y)) \div 2
             [] op = "/" /\ Number(y) # 0 -> (2 * Number(x)) \div Number(y)
             [] OTHER -> 0
      ints == x.t = "int" /\ y.t = "int"
  IN  CASE Error \in {x, y} -> Error
        [] Other \in {x, y} -> Other
        [] Null \in {x, y} -> Null
        [] "bool" \in {x.t, y.t} -> Null
        [] x.t \notin Numbers \/ y.t \notin Numbers -> Other
        [] t = "int" /\ ints /\ Overflows(n) -> Error
        [] d = "maria" -> IF t = "uint" /\ n < 0 THEN Error
                          ELSE IF t = "real" THEN AsReal(Num("real", n)) ELSE Num(t, n)
        [] op = "/" /\ ints -> Num("int", 2 * (n \div 2))
        [] OTHER -> IF ints THEN Num("int", n) ELSE AsReal(Num("real", n))
=============================================================================
