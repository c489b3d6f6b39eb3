------------------------------ MODULE MCCatalog ------------------------------
(* Instance of Catalog: two tables of one database and one outside it.      *)
EXTENDS Catalog

CONSTANTS a, b, other

Tables == {a, b, other}
OneDatabase == {a, b}
Graphs == {{}, {<<b, a>>, <<other, a>>}, {<<b, a>>, <<other, b>>}}
=============================================================================
