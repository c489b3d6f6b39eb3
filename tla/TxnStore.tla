------------------------------- MODULE TxnStore -------------------------------
(***************************************************************************)
(* What a MariaDB session is promised of its STOOLAP tables, with none of  *)
(* the plugin's machinery: a write is pending until its transaction ends;  *)
(* then all the pending writes are committed in one step, or none is, and  *)
(* the client is told which.  Outside an explicit transaction a write may  *)
(* also commit on its own (the autocommit SQL the plugin sends for tables  *)
(* a FOREIGN KEY names).                                                   *)
(***************************************************************************)
CONSTANTS Conn, Row, Val, None

VARIABLES
  store,      \* the committed rows
  pend,       \* pend[c]: the writes of c not yet committed or undone
  explicit,   \* explicit[c]: c is between BEGIN and COMMIT / ROLLBACK
  reply       \* reply[c]: how c's last statement, COMMIT or ROLLBACK ended

vars == <<store, pend, explicit, reply>>

NothingPending == [r \in Row |-> None]
Reply == {"none", "done", "undone"}

TypeOK ==
  /\ store \in [Row -> Val]
  /\ pend \in [Conn -> [Row -> Val \cup {None}]]
  /\ explicit \in [Conn -> BOOLEAN]
  /\ reply \in [Conn -> Reply]

Init ==
  /\ store \in [Row -> Val]
  /\ pend = [c \in Conn |-> NothingPending]
  /\ explicit = [c \in Conn |-> FALSE]
  /\ reply = [c \in Conn |-> "none"]

(* A new request; BEGIN makes the connection's transaction explicit.       *)
Request(c) ==
  /\ reply' = [reply EXCEPT ![c] = "none"]
  /\ \/ UNCHANGED explicit
     \/ /\ pend[c] = NothingPending
        /\ explicit' = [explicit EXCEPT ![c] = TRUE]
  /\ UNCHANGED <<store, pend>>

(* A row another connection has a pending write on cannot be written. *)
Write(c, r, v) ==
  /\ \A d \in Conn \ {c} : pend[d][r] = None
  /\ pend' = [pend EXCEPT ![c] = [@ EXCEPT ![r] = v]]
  /\ UNCHANGED <<store, explicit, reply>>

(* A write that is its own transaction; never inside an explicit one. *)
AutoWrite(c, r, v) ==
  /\ ~explicit[c]
  /\ \A d \in Conn : pend[d][r] = None
  /\ store' = [store EXCEPT ![r] = v]
  /\ UNCHANGED <<pend, explicit, reply>>

(* A statement of an explicit transaction ends: its writes stay pending,   *)
(* those of a failed one too.                                              *)
StatementEnds(c) ==
  /\ explicit[c]
  /\ \E how \in Reply : reply' = [reply EXCEPT ![c] = how]
  /\ UNCHANGED <<store, pend, explicit>>

(* The transaction ends, the explicit one included.  The client hears of   *)
(* it now, or nothing yet when it was the transaction of a part of its     *)
(* statement (a buffer of rows).                                           *)
Commit(c) ==
  /\ store' = [r \in Row |-> IF pend[c][r] # None THEN pend[c][r]
                                                  ELSE store[r]]
  /\ pend' = [pend EXCEPT ![c] = NothingPending]
  /\ explicit' = [explicit EXCEPT ![c] = FALSE]
  /\ \E how \in {reply[c], "done"} : reply' = [reply EXCEPT ![c] = how]

Abort(c) ==
  /\ pend' = [pend EXCEPT ![c] = NothingPending]
  /\ explicit' = [explicit EXCEPT ![c] = FALSE]
  /\ \E how \in {reply[c], "undone"} : reply' = [reply EXCEPT ![c] = how]
  /\ UNCHANGED store

Next ==
  \E c \in Conn :
    \/ Request(c)
    \/ \E r \in Row, v \in Val : Write(c, r, v) \/ AutoWrite(c, r, v)
    \/ StatementEnds(c)
    \/ Commit(c)
    \/ Abort(c)

Spec == Init /\ [][Next]_vars
=============================================================================
