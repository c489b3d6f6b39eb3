---------------------------- MODULE StoolapEngine ----------------------------
(***************************************************************************)
(* What the plugin relies on from the embedded Stoolap engine, a crate of  *)
(* its own that is not part of this repository: storage transactions over  *)
(* a store of committed rows.  No variables; the modules of the plugin     *)
(* keep the transactions where the plugin keeps them.                      *)
(*                                                                         *)
(* A row is a cell: a value stands for its contents, absence included.     *)
(***************************************************************************)
CONSTANTS
  Row,      \* the rows the instance talks about
  Val,      \* what a row may hold
  None      \* no value, no transaction, no view

Level == {"RC", "SI"}      \* IsolationLevel: ReadCommitted, SnapshotIsolation

State == [Row -> Val]      \* every row's contents, as one reader sees them
Writes == [Row -> Val \cup {None}]
NoWrites == [r \in Row |-> None]

(* A storage transaction.  A snapshot transaction, and no other, remembers *)
(* the committed rows it began at.                                         *)
Transaction ==
  {tx \in [level : Level, snap : State \cup {None}, writes : Writes] :
     tx.level = "SI" <=> tx.snap # None}

ASSUME NoneIsNoValue ==
  /\ None \notin Val
  /\ None \notin State
  /\ None \notin Transaction

NewTransaction(level, db) ==
  [level  |-> level,
   snap   |-> IF level = "SI" THEN db ELSE None,
   writes |-> NoWrites]

(* The rows a transaction sees over the committed rows db: its own pending *)
(* write first, then its snapshot, or the last commit under RC.            *)
Sees(tx, db) ==
  [r \in Row |-> CASE tx.writes[r] # None -> tx.writes[r]
                   [] tx.writes[r] = None /\ tx.level = "SI" -> tx.snap[r]
                   [] OTHER -> db[r]]

Wrote(tx, r) == tx.writes[r] # None
WroteAnything(tx) == \E r \in Row : Wrote(tx, r)

Put(tx, r, v) == [tx EXCEPT !.writes = [@ EXCEPT ![r] = v]]

(* First committer wins: a snapshot transaction may not write a row that   *)
(* was committed to after its snapshot ("write conflict").                 *)
Overtaken(tx, r, db) == tx.level = "SI" /\ tx.snap[r] # db[r]

Install(writes, db) ==
  [r \in Row |-> IF writes[r] # None THEN writes[r] ELSE db[r]]

=============================================================================
