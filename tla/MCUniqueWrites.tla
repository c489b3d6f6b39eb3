---------------------------- MODULE MCUniqueWrites ----------------------------
(* Instance of UniqueWrites for TLC: two columns with a UNIQUE index on    *)
(* each, or one over both.  Ids and columns are not ordered.               *)
EXTENDS UniqueWrites, TLC

CONSTANTS i1, i2, i3, a, b

Ids == {i1, i2, i3}
Columns == {a, b}
Tables == {{{a}, {b}}, {{a, b}}}
Alike == Permutations(Ids) \cup Permutations(Columns)
=============================================================================
