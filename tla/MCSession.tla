------------------------------- MODULE MCSession -------------------------------
(* Instances of Session: row a1 of a table written directly, f1 and f2 of a  *)
(* table a FOREIGN KEY names.                                               *)
EXTENDS Session, Naturals, FiniteSets, TLC

CONSTANTS a, f, a1, f1, f2

TablesF == {f}
TablesAF == {a, f}
RowsF == {f1, f2}
RowsAF == {a1, f1}
RowTable == [r \in Row |-> IF r \in {f1, f2} THEN f ELSE a]

Symmetric == Permutations(Conn) \cup Permutations(Val)

(* The bound of the run over both tables: one connection at a time is in   *)
(* an explicit transaction or has more than one table handle, against      *)
(* simple autocommit statements of the other.                              *)
Handles(c) ==
  {<<t, w>> \in Table \X BOOLEAN :
     (IF w THEN sess[c].writeTables[t] ELSE sess[c].tables[t]) # "none"}
Busy(c) == explicit[c] \/ Cardinality(Handles(c)) > 1
OneBusy == Cardinality({c \in Conn : Busy(c)}) <= 1
=============================================================================
