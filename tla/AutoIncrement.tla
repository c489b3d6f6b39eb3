---------------------------- MODULE AutoIncrement ----------------------------
(***************************************************************************)
(* AUTO_INCREMENT ids of one table: the process-wide counter of Engine     *)
(* (ai_next_, under ai_mu_), its seeding by SELECT MAX when it is missing, *)
(* and its loss at DDL and at a restart, with sessions that reserve a      *)
(* batch of ids and use them one row at a time in open transactions.       *)
(*                                                                         *)
(* DDL on any table clears every table's counter, so a counter can go      *)
(* missing while other sessions hold ids of it, and an UPDATE of the id    *)
(* column gives rows ids the counter is not told of.                       *)
(***************************************************************************)
EXTENDS Integers, FiniteSets

CONSTANTS
  Conn,        \* client connections
  Ladder,      \* what <<auto_increment_increment, _offset>> may be
  MaxBatch,    \* bound: the largest nb_desired_values
  U,           \* UINT64_MAX
  None

ASSUME AutoIncrementConstants ==
  /\ U \in Nat \ {0}
  /\ MaxBatch \in Nat \ {0}
  /\ Ladder \subseteq (Nat \ {0}) \X Nat
  /\ None \notin Nat /\ None \notin Ladder

Id == 1 .. U - 1
Count == 1 .. MaxBatch

VARIABLES
  next,      \* the table's ai_next_ entry, None when there is none
  rows,      \* the committed ids
  txn,       \* txn[c]: c's transaction, "auto" outside an explicit one
  snap,      \* snap[c]: the committed ids c's snapshot transaction began at
  pend,      \* pend[c]: ids c has given to rows and not committed
  gone,      \* gone[c]: committed ids whose rows c has deleted or given
             \*   another id, not committed
  gen,       \* gen[c]: the ids of pend[c] that were generated
  pc,        \* pc[c]: "idle", "stmt", or "seeding" after its SELECT MAX
  seen,      \* seen[c]: the maximum it found
  held,      \* held[c]: ids MariaDB has reserved for c's statement
  ladder,    \* ladder[c]: the step and offset they were reserved with
  loose      \* observer: why the counter may be behind ids in use, "no" if
             \*   it may not; the first cause since it was lost with none

vars == <<next, rows, txn, snap, pend, gone, gen, pc, seen, held, ladder, loose>>

Causes == {"ddl", "explicit", "unseen", "update"}

TypeOK ==
  /\ next \in (0 .. U) \cup {None}
  /\ rows \subseteq Id
  /\ txn \in [Conn -> {"auto", "RC", "SI"}]
  /\ snap \in [Conn -> SUBSET Id]
  /\ pend \in [Conn -> SUBSET Id]
  /\ gone \in [Conn -> SUBSET Id]
  /\ gen \in [Conn -> SUBSET Id]
  /\ pc \in [Conn -> {"idle", "stmt", "seeding"}]
  /\ seen \in [Conn -> 0 .. U - 1]
  /\ held \in [Conn -> SUBSET Id]
  /\ ladder \in [Conn -> Ladder \cup {None}]
  /\ loose \in {"no"} \cup Causes

(* A process that has just started, on whatever is stored.                 *)
Init ==
  /\ next = None
  /\ rows \in SUBSET Id
  /\ txn = [c \in Conn |-> "auto"]
  /\ snap = [c \in Conn |-> {}]
  /\ pend = [c \in Conn |-> {}]
  /\ gone = [c \in Conn |-> {}]
  /\ gen = [c \in Conn |-> {}]
  /\ pc = [c \in Conn |-> "idle"]
  /\ seen = [c \in Conn |-> 0]
  /\ held = [c \in Conn |-> {}]
  /\ ladder = [c \in Conn |-> None]
  /\ loose = "no"

-----------------------------------------------------------------------------
(* The cursor arithmetic, saturating at U.                                 *)

Saturate(n) == IF n > U THEN U ELSE n

(* Mutant: the residues are compared the wrong way round.                  *)
RoundUpSwapped(cur, step, offset) ==
  LET off == offset % step
      mod == cur % step
  IN  Saturate(cur + (IF mod >= off THEN mod - off ELSE step - (off - mod)))

(* round_up_to_modulus *)
RoundUp(cur, step, offset) ==
  LET off == offset % step
      mod == cur % step
  IN  IF mod = off THEN cur
      ELSE Saturate(cur + (IF off > mod THEN off - mod ELSE step - (mod - off)))

LastOf(first, count, step) == first + (count - 1) * step

(* Mutant: the cursor advances by the count, whatever the step.            *)
AdvanceByCount(first, count, step) == Saturate(first + count)

(* Mutant: the end of the range is not looked for.                         *)
AdvanceUnsaturated(first, count, step) == LastOf(first, count, step) + 1

(* advance_after_reservation *)
Advance(first, count, step) == Saturate(LastOf(first, count, step) + 1)

(* The ids MariaDB issues from a reservation.                              *)
Batch(first, count, step) ==
  {v \in Id : v >= first /\ v <= LastOf(first, count, step)
                         /\ (v - first) % step = 0}

-----------------------------------------------------------------------------
Outstanding == UNION {pend[c] \cup held[c] : c \in Conn}

(* The ids rows have, for the UNIQUE check of c's writes.                  *)
Taken(c) == (rows \ gone[c]) \cup UNION {pend[d] : d \in Conn}

Because(behind, cause) == IF loose = "no" /\ behind THEN cause ELSE loose

(* A reservation from the cursor at `from`.  An id of U is out of range:   *)
(* the statement fails with nothing reserved.                              *)
ReserveFrom(c, from) ==
  \E count \in Count, l \in Ladder :
    LET first == RoundUp(from, l[1], l[2])
    IN  /\ next' = Advance(first, count, l[1])
        /\ held' = [held EXCEPT ![c] = Batch(first, count, l[1])]
        /\ ladder' = [ladder EXCEPT ![c] = l]

(* BEGIN, with the snapshot taken by the first statement or at once.       *)
BeginTx(c) ==
  /\ pc[c] = "idle" /\ txn[c] = "auto"
  /\ \E level \in {"RC", "SI"} :
       /\ txn' = [txn EXCEPT ![c] = level]
       /\ snap' = [snap EXCEPT ![c] = IF level = "SI" THEN rows ELSE {}]
  /\ UNCHANGED <<next, rows, pend, gone, gen, pc, seen, held, ladder, loose>>

StartStatement(c) ==
  /\ pc[c] = "idle"
  /\ pc' = [pc EXCEPT ![c] = "stmt"]
  /\ UNCHANGED <<next, rows, txn, snap, pend, gone, gen, seen, held, ladder, loose>>

(* get_auto_increment, when the counter is there: ai_reserve.              *)
Reserve(c) ==
  /\ pc[c] = "stmt" /\ held[c] = {} /\ next # None
  /\ ReserveFrom(c, next)
  /\ UNCHANGED <<rows, txn, snap, pend, gone, gen, pc, seen, loose>>

(* Otherwise SELECT MAX, in the transaction if there is one ...            *)
Visible(c) == ((IF txn[c] = "SI" THEN snap[c] ELSE rows) \ gone[c]) \cup pend[c]

SelectMax(c) ==
  /\ pc[c] = "stmt" /\ held[c] = {} /\ next = None
  /\ \E max \in Visible(c) \cup {0} :
       /\ \A v \in Visible(c) : v <= max
       /\ seen' = [seen EXCEPT ![c] = max]
       /\ loose' = Because(\E d \in Conn, v \in Id : v \in pend[d] /\ v > max,
                           "update")
  /\ pc' = [pc EXCEPT ![c] = "seeding"]
  /\ UNCHANGED <<next, rows, txn, snap, pend, gone, gen, held, ladder>>

(* Mutant: the maximum found overrides a counter made meanwhile.           *)
SeededAlways(max) == max + 1

(* ... and ai_seed_and_reserve, in a second critical section: a counter    *)
(* made meanwhile is only ever raised.                                     *)
Seeded(max) == IF next # None /\ next > max + 1 THEN next ELSE max + 1

SeedAndReserve(c) ==
  /\ pc[c] = "seeding"
  /\ ReserveFrom(c, Seeded(seen[c]))
  /\ pc' = [pc EXCEPT ![c] = "stmt"]
  /\ seen' = [seen EXCEPT ![c] = 0]
  /\ loose' = Because(next = None /\ \E v \in rows \ Visible(c) : v > seen[c],
                      "unseen")
  /\ UNCHANGED <<rows, txn, snap, pend, gone, gen>>

(* Mutant: an explicit value does not move an existing counter.            *)
NotedOnlyWhenMissing(v) == IF next = None THEN v + 1 ELSE next

(* ai_note_explicit makes a missing counter from 0.                        *)
Noted(v) == IF next # None /\ next > v THEN next ELSE v + 1

(* write_row of a row with id v: the counter takes note of the id before   *)
(* the row is written, which fails where another row has it.  Where it     *)
(* makes a counter, higher ids stay in use.                                *)
WriteRow(c, v, mine) ==
  /\ next' = Noted(v)
  /\ loose' = Because(next = None /\ \E w \in rows \cup Outstanding : w > v,
                      "explicit")
  /\ IF v \in Taken(c)
       THEN UNCHANGED <<pend, gen>>
       ELSE /\ pend' = [pend EXCEPT ![c] = @ \cup {v}]
            /\ gen' = [gen EXCEPT ![c] = @ \cup mine]

(* A generated id: the next one of the statement's reservation.            *)
WriteGenerated(c) ==
  /\ pc[c] = "stmt"
  /\ \E v \in held[c] :
       /\ \A n \in held[c] : v <= n
       /\ WriteRow(c, v, {v})
       /\ held' = [held EXCEPT ![c] = @ \ {v}]
  /\ UNCHANGED <<rows, txn, snap, gone, pc, seen, ladder>>

(* An explicit id: MariaDB drops the reserved ids it passes.               *)
WriteExplicit(c, v) ==
  /\ pc[c] = "stmt"
  /\ WriteRow(c, v, {})
  /\ held' = [held EXCEPT ![c] = {n \in @ : n > v}]
  /\ UNCHANGED <<rows, txn, snap, gone, pc, seen, ladder>>

(* A row c may write: it sees it, no commit has taken it away since, and   *)
(* no other session has.                                                   *)
Writable(c) ==
  {u \in Visible(c) \cap (rows \cup pend[c]) :
     \A d \in Conn \ {c} : u \notin gone[d] \cup pend[d]}

(* The row with id u leaves it.                                            *)
Leave(c, u) ==
  /\ gone' = [gone EXCEPT ![c] = @ \cup ({u} \cap rows)]
  /\ gen' = [gen EXCEPT ![c] = @ \ {u}]

(* delete_row, or a row of a pushed DELETE.                                *)
DeleteRow(c, u) ==
  /\ pc[c] = "stmt" /\ u \in Writable(c)
  /\ Leave(c, u)
  /\ pend' = [pend EXCEPT ![c] = @ \ {u}]
  /\ UNCHANGED <<next, rows, txn, snap, pc, seen, held, ladder, loose>>

(* update_row, or a row of a pushed UPDATE, that gives row u the id v: the *)
(* counter takes no note.  MariaDB drops the reserved ids it passes, if    *)
(* the statement is an INSERT (ON DUPLICATE KEY UPDATE).                   *)
UpdateId(c, u, v) ==
  /\ pc[c] = "stmt" /\ u \in Writable(c) /\ v \notin Taken(c)
  /\ Leave(c, u)
  /\ pend' = [pend EXCEPT ![c] = (@ \ {u}) \cup {v}]
  /\ held' = [held EXCEPT ![c] = {n \in @ : n > v}]
  /\ loose' = Because(\/ next # None /\ v >= next
                      \/ /\ next = None
                         /\ \E d \in Conn : pc[d] = "seeding" /\ v > seen[d],
                      "update")
  /\ UNCHANGED <<next, rows, txn, snap, pc, seen, ladder>>

(* What c has written is stored: what it took away, and then what it gave. *)
Stored(c) == (rows \ gone[c]) \cup pend[c]

(* The statement ends, with its transaction when it is the statement's     *)
(* own; ids it did not use are lost.                                       *)
EndStatement(c) ==
  /\ pc[c] = "stmt"
  /\ pc' = [pc EXCEPT ![c] = "idle"]
  /\ held' = [held EXCEPT ![c] = {}]
  /\ ladder' = [ladder EXCEPT ![c] = None]
  /\ IF txn[c] = "auto"
       THEN /\ rows' \in {rows, Stored(c)}
            /\ pend' = [pend EXCEPT ![c] = {}]
            /\ gone' = [gone EXCEPT ![c] = {}]
            /\ gen' = [gen EXCEPT ![c] = {}]
       ELSE UNCHANGED <<rows, pend, gone, gen>>
  /\ UNCHANGED <<next, txn, snap, seen, loose>>

(* COMMIT, or ROLLBACK, or a COMMIT that fails.                            *)
EndTx(c) ==
  /\ pc[c] = "idle" /\ txn[c] # "auto"
  /\ rows' \in {rows, Stored(c)}
  /\ pend' = [pend EXCEPT ![c] = {}]
  /\ gone' = [gone EXCEPT ![c] = {}]
  /\ gen' = [gen EXCEPT ![c] = {}]
  /\ txn' = [txn EXCEPT ![c] = "auto"]
  /\ snap' = [snap EXCEPT ![c] = {}]
  /\ UNCHANGED <<next, pc, seen, held, ladder, loose>>

-----------------------------------------------------------------------------
(* ai_invalidate.  Sessions in the middle of an insert keep their ids.     *)
Cleared ==
  /\ next' = None
  /\ loose' = IF Outstanding # {} \/ \E c \in Conn : pc[c] = "seeding"
               THEN "ddl" ELSE "no"

(* DROP, RENAME (ALTER renames too) or TRUNCATE of another table.          *)
DdlElsewhere ==
  /\ Cleared
  /\ UNCHANGED <<rows, txn, snap, pend, gone, gen, pc, seen, held, ladder>>

(* TRUNCATE of this table waits for the transactions that use it.          *)
Truncate ==
  /\ Outstanding = {} /\ \A c \in Conn : pc[c] = "idle" /\ gone[c] = {}
  /\ rows' = {}
  /\ Cleared
  /\ UNCHANGED <<txn, snap, pend, gone, gen, pc, seen, held, ladder>>

(* The server stops, or dies, and starts: ai_next_ is in memory.           *)
Restart ==
  /\ next' = None
  /\ txn' = [c \in Conn |-> "auto"]
  /\ snap' = [c \in Conn |-> {}]
  /\ pend' = [c \in Conn |-> {}]
  /\ gone' = [c \in Conn |-> {}]
  /\ gen' = [c \in Conn |-> {}]
  /\ pc' = [c \in Conn |-> "idle"]
  /\ seen' = [c \in Conn |-> 0]
  /\ held' = [c \in Conn |-> {}]
  /\ ladder' = [c \in Conn |-> None]
  /\ loose' = "no"
  /\ UNCHANGED rows

ConnStep(c) ==
  \/ BeginTx(c)
  \/ StartStatement(c)
  \/ Reserve(c)
  \/ SelectMax(c)
  \/ SeedAndReserve(c)
  \/ WriteGenerated(c)
  \/ \E v \in Id : WriteExplicit(c, v)
  \/ \E u \in Id : DeleteRow(c, u)
  \/ \E u, v \in Id : UpdateId(c, u, v)
  \/ EndStatement(c)
  \/ EndTx(c)

Next ==
  \/ \E c \in Conn : ConnStep(c)
  \/ DdlElsewhere
  \/ Truncate
  \/ Restart

Spec == Init /\ [][Next]_vars

-----------------------------------------------------------------------------
(* Properties.                                                             *)

(* "per-connection caches collide under concurrent sessions + explicit     *)
(* high-id inserts" (get_auto_increment): the shared counter is past every *)
(* id committed, pending or reserved, or at the end of the range, unless   *)
(* it was lost with ids outstanding (ddl), made from an explicit value     *)
(* below others (explicit), seeded from a SELECT MAX that did not see a    *)
(* committed id (unseen), or an UPDATE gave a row an id past it (update).  *)
CounterPastIds ==
  loose = "no" /\ next # None =>
    next = U \/ \A v \in rows \cup Outstanding : v < next

(* The ids of a reservation belong to one session, under the same proviso. *)
ReservedOnce ==
  loose = "no" => \A c, d \in Conn : c # d => held[c] \cap (held[d] \cup gen[d]) = {}

(* The ids MariaDB issues are on the session's increment / offset ladder,  *)
(* so that writers with different offsets never meet, and start at the     *)
(* least id there that the counter, or the maximum found, has not passed.  *)
LeastOnLadder ==
  [][\A c \in Conn : held[c] = {} /\ held'[c] # {} =>
       LET past(v) == /\ pc[c] = "seeding" => v > seen[c]
                      /\ next # None => v >= next
           step == ladder'[c][1]
           rungs == {v \in Id : v % step = ladder'[c][2] % step}
           fit == {v \in rungs : past(v)}
       IN  /\ held'[c] \subseteq rungs
           /\ \A v \in fit, h \in held'[c] :
                fit \cap held'[c] # {} /\ (v < h => v \in held'[c])]_vars

(* A counter is never lowered, only lost.                                  *)
CounterOnlyRises == [][next # None /\ next' # None => next' >= next]_vars

(* "a concurrent session never collides with any id MariaDB will use       *)
(* within the current statement's batch": also when a DDL statement took   *)
(* the counter away meanwhile.                                             *)
NeverCollides ==
  loose \in {"no", "ddl"} =>
    \A c, d \in Conn : c # d => held[c] \cap (held[d] \cup gen[d]) = {}

(* "a new AUTO_INCREMENT id is past the committed ones": every reservation *)
(* is, where the counter was not seeded from an incomplete maximum, nor    *)
(* lost with ids outstanding, nor passed by an UPDATE: what is left is a   *)
(* counter that ai_note_explicit makes.                                    *)
NewIdsPastCommitted ==
  [][loose' \in {"no", "explicit"} =>
       \A c \in Conn : held[c] = {} =>
         \A v \in held'[c], r \in rows : v > r]_vars

(* The same where UPDATE of the id column is the only cause.               *)
NewIdsPastUpdated ==
  [][loose' \in {"no", "update"} =>
       \A c \in Conn : held[c] = {} =>
         \A v \in held'[c], r \in rows : v > r]_vars
=============================================================================
