---------------------------- MODULE MCAutoIncrement ----------------------------
(* Instance of AutoIncrement: two sessions that change their increment and  *)
(* offset, an offset past its increment among them.                         *)
EXTENDS AutoIncrement, TLC

SomeLadders == {<<1, 1>>, <<2, 3>>, <<3, 2>>}

Symmetric == Permutations(Conn)

(* Bound: a behaviour is followed until the counter may be behind, which    *)
(* leaves nothing to say of the ids.                                        *)
NotLoose == loose = "no"
=============================================================================
