---------------------------- MODULE MCOrderedScan ----------------------------
(* Instances of OrderedScan: ids and keys few, pages of one or two rows.    *)
EXTENDS OrderedScan

Ids == 1 .. 4
Keys == 0 .. 1
=============================================================================
