------------------------------ MODULE IndexRead ------------------------------
(***************************************************************************)
(* Reads through an index: the handler calls MariaDB makes on a key        *)
(* (index_read_map, index_first, index_last, read_range_first and the next *)
(* calls), the conditions they become for stoolap, and the rows they let   *)
(* through.                                                                *)
(*                                                                         *)
(* MariaDB orders and compares key values by their collation, stoolap by   *)
(* the bytes it stores.  A value here is its place in each order: `pos` by *)
(* MariaDB, `byte` by stoolap; `pad` is how many trailing spaces it has.   *)
(* The handler keeps its filters in fields that outlive a call, so one     *)
(* read may follow another on the same handler.                            *)
(***************************************************************************)
EXTENDS Integers, Sequences, FiniteSets

CONSTANTS
  Values(_),       \* kind -> the values a row can hold there, NULL too
  Beyond,          \* a BIGINT UNSIGNED past INT64_MAX: bounds only
  Keys,            \* keys: [parts |-> sequence of kinds, unique |-> BOOLEAN]
  Tables(_),       \* key -> sets of rows
  Reads(_, _),     \* key, reads so far -> the calls MariaDB may make
  Room,            \* StoolapField.max_chars left for trailing spaces
  PadSpaceLookups, \* past this many variants a PAD SPACE lookup is a range
  MaxReads,        \* bound: calls that open a read on one handler
  None

VARIABLES
  key, rows,   \* the key and the rows of the table
  index,       \* index_init was called
  sorted,      \* index_sorted_
  read,        \* the call that opened the read, None before one
  left,        \* the cursor: rows stoolap has yet to give
  order,       \* the parts stoolap orders them by
  desc,        \* and whether backwards
  keyFilter,   \* key_filter_active_: the key index_next compares, or None
  rangeFilter, \* range_filter_active_: the range, or None
  rc,          \* what the last call returned
  given,       \* the rows given since the read was opened
  reads        \* reads opened

handler == <<index, sorted, left, order, desc, keyFilter, rangeFilter>>
vars == <<key, rows, read, handler, rc, given, reads>>

NULL == [pos |-> -1, byte |-> -1, pad |-> 0]

(* A kind of key part is what the code asks of its field: [type, binary,    *)
(* binsort, nopad, hexmb, prefix, varchar], its real_type(), the state bits *)
(* of its collation, whether it is hex-stored with several bytes a          *)
(* character, whether the key covers a prefix of it only, whether it is a   *)
(* VARCHAR stored as text.                                                  *)

(* A call: index_read_map with a find_flag and a key, index_first or        *)
(* index_last, or read_range_first with its bounds, `sorted` and the parts  *)
(* the WHERE clause holds constant.                                         *)
Part(i) == key.parts[i]
Parts == DOMAIN key.parts

-----------------------------------------------------------------------------
(* What the key offers.                                                     *)

IndexFlagsOrder(p) ==
  CASE p.type = "str" -> ~p.hexmb /\ p.binsort
    [] p.type = "dec" -> FALSE
    [] OTHER -> TRUE

KeyPartNeedsFilter(p) ==
  p.prefix \/ (p.type = "str" /\ ~p.binary /\ ~(p.binsort /\ p.nopad))

KeyPartPads(p) == KeyPartNeedsFilter(p) /\ ~p.prefix /\ p.binsort

(* Ordered and compared by stoolap as by MariaDB.                           *)
PartSafe(p) == IndexFlagsOrder(p) /\ ~KeyPartNeedsFilter(p)

-----------------------------------------------------------------------------
(* What the model takes from the columns and from MariaDB.                  *)

Cell == [pos : Nat, byte : Nat, pad : Nat] \cup {NULL}

Kind ==
  [type : {"int", "str", "dec"}, binary : BOOLEAN, binsort : BOOLEAN,
   nopad : BOOLEAN, hexmb : BOOLEAN, prefix : BOOLEAN, varchar : BOOLEAN]

(* The two orders agree as far as the code says they do.                    *)
Agree(p, v, w) ==
  /\ ~KeyPartNeedsFilter(p) => (v.byte = w.byte <=> v.pos = w.pos)
  /\ PartSafe(p) => (v.byte < w.byte <=> v.pos < w.pos)

Column(p) ==
  /\ p \in Kind /\ (p.prefix => p.type = "str") /\ (p.binary => p.binsort)
  /\ Values(p) \subseteq Cell \ {Beyond}
  /\ \A v, w \in Values(p) : Agree(p, v, w)
  /\ KeyPartPads(p) => \A v \in Values(p) : v.pad <= Room

(* The values of the leading parts of the key, or one past the column.      *)
KeyOf(k, b) ==
  /\ b \in Seq(Cell) /\ Len(b) \in 1 .. Len(k.parts)
  /\ \A i \in DOMAIN b : \A v \in Values(k.parts[i]) :
       IF b[i] = Beyond THEN v.pos < b[i].pos ELSE Agree(k.parts[i], v, b[i])

CallOf(k, call) ==
  /\ call # None
  /\ call.call \in {"map", "first", "last", "range"}
  /\ call.call = "map" =>
       /\ KeyOf(k, call.k)
       /\ call.flag \in {"exact", "or next", "after", "or prev", "before"}
  /\ call.call = "range" =>
       /\ [start |-> call.start, end |-> call.end] # None
       /\ call.start # None =>
            KeyOf(k, call.start.k) /\ call.start.flag \in {"exact", "or next", "after"}
       /\ call.end # None =>
            KeyOf(k, call.end.k) /\ call.end.flag \in {"after", "before"}

ASSUME IndexReadConstants ==
  /\ Beyond \in Cell \ {NULL} /\ None \notin Seq(Cell) /\ MaxReads \in Nat
  /\ \A k \in Keys :
       /\ k.parts \in Seq(Kind) /\ k.parts # <<>>
       /\ \A i \in DOMAIN k.parts : Column(k.parts[i])
       /\ \A table \in Tables(k) : \A r \in table :
            \A i \in DOMAIN k.parts : r.k[i] \in Values(k.parts[i])
       /\ \A n \in 0 .. MaxReads : \A call \in Reads(k, n) : CallOf(k, call)

-----------------------------------------------------------------------------
(* MariaDB's order of a row against a key: NULL first, then by collation.   *)
Same(r, k)  == \A i \in DOMAIN k : r.k[i].pos = k[i].pos
SameTo(r, k, i) == \A j \in 1 .. i - 1 : r.k[j].pos = k[j].pos
Less(r, k)  == \E i \in DOMAIN k : SameTo(r, k, i) /\ r.k[i].pos < k[i].pos
More(r, k)  == \E i \in DOMAIN k : SameTo(r, k, i) /\ r.k[i].pos > k[i].pos

-----------------------------------------------------------------------------
(* Conditions from key bounds (key.rs), on a value v stoolap holds.         *)

Stands(v, op, w) ==
  v # NULL /\ CASE op = "=" -> v.byte = w.byte
                [] op = ">" -> v.byte > w.byte
                [] op = ">=" -> v.byte >= w.byte
                [] op = "<" -> v.byte < w.byte
                [] op = "<=" -> v.byte <= w.byte

Upper == {"<", "<="}

(* compare(): in the order of an index; never true when Never.              *)
Compare(v, op, w) ==
  CASE w = NULL -> \/ op \in {"=", "<="} /\ v = NULL
                   \/ op = ">" /\ v # NULL
                   \/ op = ">="
    [] w = Beyond -> op \in Upper
    [] OTHER -> Stands(v, op, w)
Never(op, w) == (w = NULL /\ op = "<") \/ (w = Beyond /\ op \notin Upper)

Leading(r, b) ==
  LET v == r.k[1]   w == b.k[1]
  IN  w \in {NULL, Beyond} \/ IF b.op \in Upper THEN Stands(v, "<=", w) \/ v = NULL
                              ELSE Stands(v, ">=", w)

(* The legs of a composite bound: parts before leg equal, leg itself        *)
(* strictly past, or by the operator at the last.                           *)
(* Mutant: a leg that takes in the values equal to its own.                 *)
LegOpLoose(b, leg, i) == IF i < leg THEN "=" ELSE b.op
LegOp(b, leg, i) ==
  CASE i < leg -> "="
    [] i = leg /\ leg < Len(b.k) -> IF b.op \in Upper THEN "<" ELSE ">"
    [] OTHER -> b.op
LegHolds(r, b, leg) == \A i \in 1 .. leg : Compare(r.k[i], LegOp(b, leg, i), b.k[i])
LegNever(b, leg) == \E i \in 1 .. leg : Never(LegOp(b, leg, i), b.k[i])
LeadOp(b) == IF b.op \in Upper THEN "<=" ELSE ">="
Legs(r, b) ==
  /\ \E leg \in DOMAIN b.k : LegHolds(r, b, leg)
  /\ Compare(r.k[1], LeadOp(b), b.k[1])

(* pad_space_nodes: the value less its trailing spaces, and with up to as   *)
(* many as the column has room for; past PadSpaceLookups, the byte range    *)
(* they sit in.                                                             *)
PadCandidate(i, v, w) ==
  LET padded == {x \in Values(Part(i)) \ {NULL} : x.pos = w.pos /\ x.pad <= Room}
  IN  IF Room < PadSpaceLookups THEN v \in padded
      ELSE \E x, y \in padded : x.byte <= v.byte /\ v.byte <= y.byte

PartOp(b, i) == IF i = Len(b.k) THEN b.op ELSE "="
Lookup(r, b) ==
  \A i \in DOMAIN b.k :
    IF i \in b.skip
    THEN i \in b.pad /\ Part(i).varchar /\ b.k[i] # NULL => PadCandidate(i, r.k[i], b.k[i])
    ELSE Compare(r.k[i], PartOp(b, i), b.k[i])

Composite(b) == b.mode = "range" /\ Len(b.k) > 1 /\ b.op # "="

Meets(r, b) ==
  CASE b.mode = "leading" -> Leading(r, b)
    [] Composite(b) -> Legs(r, b)
    [] OTHER -> Lookup(r, b)

(* bound_nodes returned false: no row can meet the bound.                   *)
Impossible(b) ==
  CASE b.mode = "leading" -> FALSE
    [] Composite(b) -> \A leg \in DOMAIN b.k : LegNever(b, leg)
    [] OTHER -> \E i \in DOMAIN b.k \ b.skip : Never(PartOp(b, i), b.k[i])

-----------------------------------------------------------------------------
(* The stream.                                                              *)

(* stoolap's order over the parts `by`, as they stand in the key; NULLs     *)
(* first.                                                                   *)
EngineBefore(r, s, by, back) ==
  \E i \in by :
    /\ \A j \in by : j < i => r.k[j].byte = s.k[j].byte
    /\ IF back THEN r.k[i].byte > s.k[i].byte
       ELSE r.k[i].byte < s.k[i].byte

Init ==
  /\ key \in Keys /\ rows \in Tables(key)
  /\ index = FALSE /\ sorted = FALSE /\ read = None
  /\ left = {} /\ order = {} /\ desc = FALSE
  /\ keyFilter = None /\ rangeFilter = None
  /\ rc = "none" /\ given = <<>> /\ reads = 0

InBounds(r, range) ==
  /\ range.start # None =>
       CASE range.start.flag = "after" -> More(r, range.start.k)
         [] range.start.flag = "exact" -> Same(r, range.start.k)
         [] OTHER -> ~Less(r, range.start.k)
  /\ range.end # None =>
       IF range.end.flag = "before" THEN Less(r, range.end.k)
       ELSE ~More(r, range.end.k)

(* The loop of index_next and read_range_next: the first row the active     *)
(* filter keeps, or the code for none.                                      *)
Keeps(r, kf, rf) ==
  /\ kf # None => Same(r, kf)
  /\ rf # None => InBounds(r, rf)
(* Mutant: the row given stays in the cursor.                               *)
RestSame(from, r) == from
Rest(from, r) == from \ {r}
Give(from, by, back, kf, rf, before, none) ==
  LET kept == {r \in from : Keeps(r, kf, rf)}
  IN  \/ \E r \in kept :
           /\ \A s \in kept : ~EngineBefore(s, r, by, back)
           /\ left' = Rest(from, r) /\ given' = Append(before, r) /\ rc' = "row"
      \/ /\ kept = {}
         /\ left' = {} /\ given' = before /\ rc' = none

(* reset_scan_state: no cursor, no filter.                                  *)
ResetKeyFilter == None
ResetRangeFilter == None

IndexInit(srt) ==
  /\ ~index
  /\ index' = TRUE /\ sorted' = srt
  /\ keyFilter' = ResetKeyFilter /\ rangeFilter' = ResetRangeFilter
  /\ read' = None /\ left' = {} /\ given' = <<>> /\ rc' = "none"
  /\ UNCHANGED <<key, rows, order, desc, reads>>

IndexEnd ==
  /\ index
  /\ index' = FALSE /\ left' = {} /\ read' = None /\ given' = <<>> /\ rc' = "none"
  /\ keyFilter' = None /\ rangeFilter' = ResetRangeFilter
  /\ UNCHANGED <<key, rows, sorted, order, desc, reads>>

(* open_read and the first row.  The cursor starts from the rows that meet  *)
(* the bounds; `none` is what the caller makes of no row, `impossible` of   *)
(* bounds no row can meet.                                                  *)
OpenRead(call, bounds, by, back, kf, rf, none, impossible) ==
  /\ index /\ reads < MaxReads
  /\ reads' = reads + 1 /\ read' = call
  /\ order' = by /\ desc' = back
  /\ IF \E b \in bounds : Impossible(b)
     THEN /\ left' = {} /\ given' = <<>> /\ rc' = impossible
          /\ keyFilter' = ResetKeyFilter /\ rangeFilter' = ResetRangeFilter
     ELSE /\ keyFilter' = kf /\ rangeFilter' = rf
          /\ Give({r \in rows : \A b \in bounds : Meets(r, b)},
                  by, back, kf, rf, <<>>, none)
  /\ UNCHANGED <<key, rows, index, sorted>>

OpOfFlag(flag) ==
  CASE flag = "exact" -> "=" [] flag = "or next" -> ">=" [] flag = "after" -> ">"
    [] flag = "or prev" -> "<=" [] flag = "before" -> "<"

FilterMask(call) ==
  {i \in DOMAIN call.k : call.flag = "exact" /\ KeyPartNeedsFilter(Part(i))}
PadMask(call) == {i \in FilterMask(call) : KeyPartPads(Part(i))}

ExactUnique(call) ==
  call.flag = "exact" /\ Len(call.k) = Len(key.parts) /\ key.unique

BoundByEquals(call, i) ==
  i < Len(call.k) \/ (i = Len(call.k) /\ OpOfFlag(call.flag) = "=")
LookupOrder(call) ==
  LET back == OpOfFlag(call.flag) \in Upper
      free == {i \in Parts \ FilterMask(call) : ~BoundByEquals(call, i)}
  IN  IF ~ExactUnique(call) /\ (sorted \/ back) THEN free ELSE {}

IndexReadMap(call) ==
  /\ call.call = "map"
  /\ OpenRead(call,
              {[k |-> call.k, op |-> OpOfFlag(call.flag), mode |-> "key",
                skip |-> FilterMask(call), pad |-> PadMask(call)]},
              LookupOrder(call), OpOfFlag(call.flag) \in Upper,
              IF FilterMask(call) # {} THEN call.k ELSE ResetKeyFilter,
              ResetRangeFilter, "not found", "not found")

(* index_first, index_last.                                                 *)
IndexEndRead(call) ==
  /\ call.call \in {"first", "last"}
  /\ OpenRead(call, {}, Parts, call.call = "last",
              ResetKeyFilter, ResetRangeFilter, "end", "not found")

-----------------------------------------------------------------------------
UnsafePart(p) ==
  \/ p.type = "str" /\ (p.hexmb \/ KeyPartNeedsFilter(p))
  \/ p.type = "dec"
ContainsUnsafePart(bound) ==
  bound # None /\ \E i \in DOMAIN bound.k : UnsafePart(Part(i))
Filtered(call) == ContainsUnsafePart(call.start) \/ ContainsUnsafePart(call.end)

OpForStart(flag) == OpOfFlag(flag)
OpForEnd(flag) == IF flag = "after" THEN "<=" ELSE "<"

RangeBound(bound, op) ==
  IF bound = None THEN {}
  ELSE {[k |-> bound.k, op |-> op, mode |-> "range", skip |-> {}, pad |-> {}]}

(* read_range_first turns open_read's "key not found" into the range's end. *)
(* Mutant: it is handed on.                                                 *)
EndOfRangeAsRead(code) == code
EndOfRange(code) == IF code = "not found" THEN "end" ELSE code
ReadRangePlain(call) ==
  /\ ~Filtered(call)
  /\ OpenRead(call,
              RangeBound(call.start, IF call.start = None THEN "=" ELSE OpForStart(call.start.flag))
              \cup RangeBound(call.end, IF call.end = None THEN "=" ELSE OpForEnd(call.end.flag)),
              IF call.sorted /\ ~(call.start # None /\ ExactUnique(call.start))
              THEN Parts ELSE {},
              FALSE, ResetKeyFilter, ResetRangeFilter, "end", EndOfRange("not found"))

(* Leading parts the bounds agree on, byte for byte.                        *)
ConstPrefix(call) ==
  IF call.start = None \/ call.end = None THEN {}
  ELSE LET both == DOMAIN call.start.k \cap DOMAIN call.end.k
       IN  {i \in both : \A j \in 1 .. i : call.start.k[j] = call.end.k[j]}

LeadingBound(bound, op) ==
  IF bound = None THEN {}
  ELSE {[k |-> <<bound.k[1]>>, op |-> op, mode |-> "leading", skip |-> {}, pad |-> {}]}

FilteredBounds(call) ==
  CASE PartSafe(Part(1)) -> LeadingBound(call.start, ">=") \cup LeadingBound(call.end, "<=")
    [] ~PartSafe(Part(1)) /\ ConstPrefix(call) # {} /\ KeyPartPads(Part(1)) ->
         {[k |-> <<call.start.k[1]>>, op |-> "=", mode |-> "key",
           skip |-> {1}, pad |-> {1}]}
    [] OTHER -> {}

(* Mutant: parts held constant are ordered by all the same.                 *)
ConstantNever(call, i) == FALSE
Constant(call, i) == i \in ConstPrefix(call) \cup call.const
FilteredOrder(call) ==
  LET Reached(i) == \A j \in 1 .. i : Constant(call, j) \/ IndexFlagsOrder(Part(j))
  IN  IF call.sorted THEN {i \in Parts : ~Constant(call, i) /\ Reached(i)} ELSE {}

ReadRangeFiltered(call) ==
  /\ Filtered(call)
  /\ OpenRead(call, FilteredBounds(call), FilteredOrder(call), FALSE,
              ResetKeyFilter, [start |-> call.start, end |-> call.end],
              "end", "not found")

ReadRangeFirst(call) ==
  call.call = "range" /\ (ReadRangePlain(call) \/ ReadRangeFiltered(call))

(* index_next and read_range_next; rnd_next ends the read at its end.       *)
GetNext ==
  /\ index /\ rc = "row"
  /\ Give(left, order, desc, keyFilter,
          IF read.call = "range" THEN rangeFilter ELSE None, given, "end")
  /\ UNCHANGED <<key, rows, index, sorted, read, order, desc, keyFilter, rangeFilter, reads>>

Next ==
  \/ \E srt \in BOOLEAN : IndexInit(srt)
  \/ IndexEnd
  \/ \E call \in Reads(key, reads) :
       IndexReadMap(call) \/ IndexEndRead(call) \/ ReadRangeFirst(call)
  \/ GetNext

Spec == Init /\ [][Next]_vars

-----------------------------------------------------------------------------
(* One value each, of the ranges the code gives them.                       *)
TypeOK ==
  /\ key \in Keys
  /\ index \in BOOLEAN /\ sorted \in BOOLEAN
  /\ read # None => index
  /\ left \subseteq rows
  /\ order \subseteq Parts /\ desc \in BOOLEAN
  /\ rc \in {"none", "row", "end", "not found"}
  /\ \A n \in DOMAIN given : given[n] \in rows \ left
  /\ reads \in 0 .. MaxReads

(* What MariaDB's index holds for the call, by its own comparison.          *)
PosHolds(v, op, w) ==
  CASE op = "=" -> v = w [] op = ">" -> v > w [] op = ">=" -> v >= w
    [] op = "<" -> v < w [] op = "<=" -> v <= w
AskedKey(r, call) ==
  LET n == Len(call.k)
  IN  SameTo(r, call.k, n) /\ PosHolds(r.k[n].pos, OpOfFlag(call.flag), call.k[n].pos)
Asked(r, call) ==
  CASE call.call = "map" -> AskedKey(r, call)
    [] call.call = "range" -> InBounds(r, call)
    [] OTHER -> TRUE

(* The NULLs an upper bound leaves out: those a value decides against.      *)
NullBelow(r, k) ==
  \E i \in DOMAIN k : SameTo(r, k, i) /\ r.k[i] = NULL /\ k[i] # NULL
LeavesOut(r, call) ==
  CASE call.call = "map" -> OpOfFlag(call.flag) \in Upper /\ NullBelow(r, call.k)
    [] call.call = "range" ->
         call.end # None /\ NullBelow(r, call.end.k) /\ ~Filtered(call)
    [] OTHER -> FALSE

(* A lookup other than an exact one has no filter of the handler's: it is   *)
(* by MariaDB's comparison on parts stoolap compares as MariaDB does (see   *)
(* FlagsHold for the others).                                               *)
ComparedAlike(call) ==
  call.call = "map" /\ call.flag # "exact" => \A i \in DOMAIN call.k : PartSafe(Part(i))

(* A read gives the rows MariaDB's key range holds and no other, each once, *)
(* but for the NULLs tests/diff/key_bounds.sql names: whatever the          *)
(* collation, the encoding, or the read the handler did before.             *)
RowsOfTheRead ==
  read # None =>
    /\ \A n, m \in DOMAIN given : given[n] = given[m] => n = m
    /\ ComparedAlike(read) => \A n \in DOMAIN given : Asked(given[n], read)
    /\ ComparedAlike(read) /\ rc \in {"end", "not found"} =>
         \A r \in rows : Asked(r, read) =>
           LeavesOut(r, read) \/ \E n \in DOMAIN given : given[n] = r

(* The parts a read's order reaches: each offering it, or constant.         *)
Held(call) ==
  CASE call.call = "map" -> {i \in DOMAIN call.k : BoundByEquals(call, i)}
    [] call.call = "range" -> ConstPrefix(call) \cup call.const
    [] OTHER -> {}
Promised(call) ==
  CASE call.call = "map" -> sorted \/ OpOfFlag(call.flag) \in Upper
    [] call.call = "range" -> call.sorted
    [] OTHER -> TRUE
Backwards(call) ==
  call.call = "last" \/ (call.call = "map" /\ OpOfFlag(call.flag) \in Upper)

(* The rows come in MariaDB's order as far as each part offers one or is    *)
(* one of `held`, which has one value.                                      *)
InOrderOf(Offers(_), held) ==
  read # None /\ Promised(read) =>
    LET Reached(i) == \A j \in 1 .. i : j \in held \/ Offers(Part(j))
        KeyBefore(r, s) ==
          \E i \in Parts :
            /\ Reached(i) /\ r.k[i].pos < s.k[i].pos
            /\ \A j \in 1 .. i - 1 : r.k[j].pos = s.k[j].pos
        Alike(r, s) == \A i \in held : r.k[i].pos = s.k[i].pos
    IN  \A m \in DOMAIN given : \A n \in 1 .. m - 1 :
          Alike(given[n], given[m]) =>
            ~ IF Backwards(read) THEN KeyBefore(given[n], given[m])
              ELSE KeyBefore(given[m], given[n])

(* A range read with bounds stoolap compares itself orders by the parts the *)
(* WHERE holds constant too, all the same: those it tells apart where       *)
(* MariaDB does not are left out here (see ConstantsHold).                  *)
HeldAlike(call) ==
  IF call.call = "range" /\ ~Filtered(call)
  THEN {i \in Held(call) : PartSafe(Part(i))} ELSE Held(call)

(* Rows asked for in order come in MariaDB's order, as far as index_flags   *)
(* offers one, PAD SPACE collations apart (see FlagsHold).                  *)
InKeyOrder == InOrderOf(PartSafe, HeldAlike(read))

(* "A constant part is one value to MariaDB: sorting stoolap's bytes there  *)
(* could split values its collation calls equal ... and break the order of  *)
(* the parts after it" (read_range_filtered): of every range read.          *)
ConstantsHold == InOrderOf(PartSafe, Held(read))

(* "_bin string parts: full flags (byte compare agrees)", index_flags says: *)
(* every part it offers order on comes in MariaDB's order.                  *)
FlagsHold == InOrderOf(IndexFlagsOrder, HeldAlike(read))

(* A range without a row ends; only a lookup's key is not found.  To a      *)
(* caller of read_range_first "key not found" is an error.                  *)
EmptyIsNoError ==
  read # None /\ given = <<>> =>
    (rc = "not found") <=> (read.call = "map")
=============================================================================
