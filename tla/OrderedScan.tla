----------------------------- MODULE OrderedScan -----------------------------
(***************************************************************************)
(* A read of one table in the order of an indexed column, taken from the   *)
(* index a page at a time (Pager), by a statement that writes rows as it   *)
(* goes (UPDATE / DELETE ... ORDER BY ... LIMIT) while other sessions      *)
(* commit changes.                                                         *)
(*                                                                         *)
(* A row is its id and its value in that column.  Pages count rows from    *)
(* the start of the index, so they only fit together while the rows they   *)
(* count stay the same.                                                    *)
(***************************************************************************)
EXTENDS Integers, FiniteSets

CONSTANTS
  Id,          \* row ids
  Key,         \* values of the indexed column, NULL the lowest
  FirstPage,   \* rows in the first page (16)
  Growth,      \* how much larger the next one is (4)
  MaxPage,     \* rows in the largest (1 << 16)
  MaxChanges,  \* bound: rows other sessions change during the read
  Gone,        \* no row
  None

ASSUME OrderedScanConstants ==
  /\ Id \subseteq Int /\ Key \subseteq Int /\ IsFiniteSet(Id)
  /\ FirstPage \in Nat \ {0} /\ Growth \in Nat \ {0} /\ MaxPage \in Nat
  /\ FirstPage <= MaxPage
  /\ MaxChanges \in Nat
  /\ Gone \notin Key /\ None \notin Key \cup {Gone} \cup (Key \X SUBSET Id)

Rows == [Id -> Key \cup {Gone}]

VARIABLES
  tab,       \* the committed rows
  view,      \* the rows the read handle, or the snapshot, is of
  own,       \* the rows the transaction wrote, None where it did not
  wrote,     \* the transaction has written the table
  handle,    \* the handle with_table uses: "read" or "write"
  how,       \* the statement, see Statement
  pc,        \* "closed", "reading", "given" a row, "ended"
  offset,    \* Pager: rows taken so far
  page,      \* Pager: rows in the next page
  buf,       \* Pager: rows of this page not given yet, as <<id, key>>
  done,      \* Pager: no page follows
  last,      \* Pager: <<key of the last row given, ids given with it>>
  cur,       \* the row last given
  changes,   \* rows other sessions changed so far
  start,     \* observer: the rows there were when the read opened
  counted,   \* observer: the rows the last page was counted in
  given,     \* observer: ids given
  again,     \* observer: ids given more than once
  touched,   \* observer: ids other sessions changed
  shifted    \* observer: a page was counted in other rows than the one before

stored == <<tab, view, own, wrote, handle, changes>>
pager == <<offset, page, buf, done, last>>
observers == <<start, counted, given, again, touched, shifted>>
vars == <<stored, how, pc, pager, cur, observers>>

(* tx: the statement's own transaction, or an explicit one by level.       *)
(* sql: its writes go through SQL, the table being one of a FOREIGN KEY.   *)
(* pk: it sets the primary key.                                            *)
Statement ==
  [tx : {"auto", "RC", "SI"}, sql : BOOLEAN, desc : BOOLEAN, pk : BOOLEAN]

TypeOK ==
  /\ tab \in Rows /\ view \in Rows
  /\ own \in [Id -> Key \cup {Gone, None}]
  /\ wrote \in BOOLEAN
  /\ handle \in {"read", "write"}
  /\ how \in Statement
  /\ pc \in {"closed", "reading", "given", "ended"}
  /\ offset \in 0 .. 2 * Cardinality(Id) /\ page \in 1 .. MaxPage
  /\ buf \subseteq Id \X Key
  /\ done \in BOOLEAN
  /\ last \in {None} \cup (Key \X SUBSET Id)
  /\ cur \in Id \cup {None}
  /\ changes \in 0 .. MaxChanges
  /\ start \in Rows \cup {None} /\ counted \in Rows \cup {None}
  /\ given \subseteq Id /\ again \subseteq given /\ touched \subseteq Id
  /\ shifted \in BOOLEAN

(* A statement about to read.  It has the write handle when it wrote, or   *)
(* tried to, before; an explicit transaction may have written earlier.     *)
Init ==
  /\ tab \in Rows /\ view = tab
  /\ own = [i \in Id |-> None]
  /\ how \in Statement
  /\ handle \in {"read", "write"}
  /\ wrote \in BOOLEAN
  /\ how.tx = "auto" /\ wrote => handle = "write" /\ ~how.sql
  /\ pc = "closed"
  /\ offset = 0 /\ page = FirstPage /\ buf = {} /\ done = FALSE /\ last = None
  /\ cur = None /\ changes = 0
  /\ start = None /\ counted = None
  /\ given = {} /\ again = {} /\ touched = {} /\ shifted = FALSE

-----------------------------------------------------------------------------
(* What a handle sees: the transaction's writes first; then what the view  *)
(* or the snapshot was taken of, or the last commit.                       *)
Seen ==
  [i \in Id |-> CASE own[i] # None -> own[i]
                  [] own[i] = None /\ (handle = "read" \/ how.tx = "SI") -> view[i]
                  [] OTHER -> tab[i]]

Present(rows) == {i \in Id : rows[i] # Gone}
Pairs(rows) == {<<i, rows[i]>> : i \in Present(rows)}

(* Key k comes strictly before key l.                                      *)
Before(k, l) == IF how.desc THEN k > l ELSE k < l

(* Index order: by key, then by id.                                        *)
Ahead(rows, j, i) ==
  \/ Before(rows[j], rows[i])
  \/ rows[j] = rows[i] /\ Before(j, i)

Rank(rows, i) == Cardinality({j \in Present(rows) : Ahead(rows, j, i)})

(* collect_rows_ordered_by_index: the page rows after the first offset.    *)
Page(rows) ==
  {<<i, rows[i]>> : i \in {j \in Present(rows) :
                             /\ Rank(rows, j) >= offset
                             /\ Rank(rows, j) < offset + page}}

(* Mutant: the rest begins at the first row again.                         *)
RestFromStart(rows) == Pairs(rows)

(* Mutant: the rows with the last key that were not given are left out.    *)
RestPastKey(rows) ==
  {p \in Pairs(rows) : last = None \/ Before(last[1], p[2])}

(* The rest of a scan that cannot use the index any more.                  *)
Rest(rows) ==
  {p \in Pairs(rows) :
     \/ last = None
     \/ Before(last[1], p[2])
     \/ last[1] = p[2] /\ p[1] \notin last[2]}

(* Mutant: pages grow without end.                                         *)
SmallerNot(m, n) == m

Smaller(m, n) == IF m < n THEN m ELSE n

(* Where the next page starts.                                             *)
Advance(taken) == offset + Cardinality(taken)

(* What Pager::fill takes: the next page, or all the rest when the         *)
(* transaction has written the table.                                      *)
Taken == IF wrote THEN Rest(Seen) ELSE Page(Seen)

(* The rows of the page that may come next: equal keys in no set order.    *)
Heads(rows) == {p \in rows : \A q \in rows : ~Before(q[2], p[2])}

(* Mutant: a read never takes its rows at open.                            *)
TakesAtOpenNever == FALSE

(* STOOLAP_READ_FIXED: the statement may move rows to new ids.             *)
TakesAtOpen == how.pk

(* open_read and Cursor::ordered.                                          *)
Open ==
  /\ pc = "closed"
  /\ pc' = "reading"
  /\ start' = Seen
  /\ IF TakesAtOpen THEN buf' = Pairs(Seen) /\ done' = TRUE
                    ELSE UNCHANGED <<buf, done>>
  /\ UNCHANGED <<stored, how, offset, page, last, cur, counted, given, again,
                 touched, shifted>>

(* Cursor::next_row gives a row of what is loaded ...                      *)
Give(rows) ==
  \E p \in Heads(rows) :
    /\ buf' = rows \ {p}
    /\ last' = IF last # None /\ last[1] = p[2]
                 THEN <<p[2], last[2] \cup {p[1]}>> ELSE <<p[2], {p[1]}>>
    /\ cur' = p[1]
    /\ given' = given \cup {p[1]}
    /\ again' = again \cup (given \cap {p[1]})
    /\ pc' = "given"

NextOfPage ==
  /\ pc \in {"reading", "given"} /\ buf # {}
  /\ Give(buf)
  /\ UNCHANGED <<stored, how, offset, page, done, start, counted, touched,
                 shifted>>

(* ... and loads the next page when there is none left.                    *)
NextPage ==
  /\ pc \in {"reading", "given"} /\ buf = {} /\ ~done
  /\ done' = (wrote \/ Cardinality(Taken) < page)
  /\ offset' = Advance(Taken)
  /\ page' = Smaller(page * Growth, MaxPage)
  /\ counted' = Seen
  /\ shifted' = (shifted \/ (~wrote /\ offset > 0 /\ Seen # counted))
  /\ IF Taken # {}
       THEN Give(Taken)
       ELSE pc' = "ended" /\ UNCHANGED <<buf, last, cur, given, again>>
  /\ UNCHANGED <<stored, how, start, touched>>

EndOfRead ==
  /\ pc \in {"reading", "given"} /\ buf = {} /\ done
  /\ pc' = "ended"
  /\ UNCHANGED <<stored, how, pager, cur, observers>>

-----------------------------------------------------------------------------
(* The statement writes the row it was given, through the write handle     *)
(* where it can.                                                           *)

Autocommits == how.sql /\ how.tx = "auto"

(* The transaction may write i: nobody committed to it past its snapshot.  *)
Writable(i) == how.tx = "SI" => tab[i] = view[i]

Written(changed) ==
  /\ handle' = "write"
  /\ IF Autocommits
       THEN /\ tab' = [i \in Id |-> IF changed[i] # None THEN changed[i] ELSE tab[i]]
            /\ UNCHANGED <<own, wrote>>
       ELSE /\ own' = [i \in Id |-> IF changed[i] # None THEN changed[i] ELSE own[i]]
            /\ wrote' = TRUE
            /\ UNCHANGED tab
  /\ pc' = "reading"
  /\ UNCHANGED <<view, changes, how, pager, cur, observers>>

NowAt(i) == IF own[i] # None THEN own[i] ELSE tab[i]

(* delete_row *)
DeleteRow ==
  /\ pc = "given" /\ ~how.pk /\ NowAt(cur) # Gone /\ Writable(cur)
  /\ Written([i \in Id |-> IF i = cur THEN Gone ELSE None])

(* update_row of other columns: MariaDB collects the rows first when the   *)
(* index it reads by changes.                                              *)
UpdateRow ==
  /\ pc = "given" /\ ~how.pk /\ NowAt(cur) # Gone /\ Writable(cur)
  /\ Written([i \in Id |-> IF i = cur THEN NowAt(i) ELSE None])

(* update_row of the primary key: the row gets another id, maybe one that  *)
(* a row given earlier had.                                                *)
MoveRow(j) ==
  /\ pc = "given" /\ how.pk /\ NowAt(cur) # Gone /\ Writable(cur)
  /\ NowAt(j) = Gone /\ Writable(j)
  /\ Written([i \in Id |-> CASE i = cur -> Gone
                             [] i = j -> NowAt(cur)
                             [] OTHER -> None])

(* A write that fails (and is ignored) leaves the write handle.            *)
WriteFails ==
  /\ pc = "given"
  /\ handle' = "write"
  /\ pc' = "reading"
  /\ UNCHANGED <<tab, view, own, wrote, changes, how, pager, cur, observers>>

(* Another session commits a change to a row the statement has not locked. *)
OthersCommit(i, k) ==
  /\ pc \in {"reading", "given"} /\ changes < MaxChanges
  /\ own[i] = None /\ tab[i] # k
  /\ tab' = [tab EXCEPT ![i] = k]
  /\ changes' = changes + 1
  /\ touched' = touched \cup {i}
  /\ UNCHANGED <<view, own, wrote, handle, how, pc, pager, cur, start, counted,
                 given, again, shifted>>

Next ==
  \/ Open
  \/ NextOfPage
  \/ NextPage
  \/ EndOfRead
  \/ DeleteRow
  \/ UpdateRow
  \/ \E j \in Id : MoveRow(j)
  \/ WriteFails
  \/ \E i \in Id, k \in Key \cup {Gone} : OthersCommit(i, k)

Spec == Init /\ [][Next]_vars

-----------------------------------------------------------------------------
(* Properties.  Of rows other sessions left alone, and while pages are     *)
(* counted in the same rows:                                               *)

(* A row is given once, and not again under the id it was moved to.        *)
GivenOnce ==
  ~shifted => again \subseteq touched
              /\ (start # None => given \subseteq touched \cup Present(start))

Passed(i) == pc = "ended" \/ (last # None /\ Before(start[i], last[1]))

(* "the rest from a sorted scan, after the last row given, as an index     *)
(* cursor goes on from its position": no row is passed over, whichever     *)
(* way the rest was read.                                                  *)
NothingSkipped ==
  ~shifted /\ start # None =>
    \A i \in Present(start) \ touched : Passed(i) => i \in given

(* Rows come in the order of the column.                                   *)
InOrder ==
  [][~shifted' /\ last # None => ~Before(last'[1], last[1])]_vars

(* "index_first then index_next, which reads on": with no proviso.         *)
ReadsOn ==
  start # None =>
    \A i \in Present(start) \ touched : Passed(i) => i \in given
=============================================================================
