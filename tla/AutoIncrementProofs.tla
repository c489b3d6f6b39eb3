------------------------- MODULE AutoIncrementProofs -------------------------
(***************************************************************************)
(* Theorems about AutoIncrement, for every set of sessions, every ladder   *)
(* and every range of ids: unless the counter was lost, started low or was *)
(* passed by an UPDATE, it is past every id in use, and no id is issued    *)
(* twice.                                                                  *)
(***************************************************************************)
EXTENDS AutoIncrement, TLAPS

(* What an id of a session's own is: pending, reserved or generated.       *)
GeneratedArePending == \A c \in Conn : gen[c] \subseteq pend[c]

(* Nothing is reserved while the counter is missing.                       *)
NothingBeforeCounter ==
  loose = "no" /\ next = None => \A c \in Conn : held[c] = {}

(* What a session found before it seeds is still past what it could see,   *)
(* and past what an UPDATE has pending.                                    *)
SeenIsPast ==
  \A c \in Conn :
    pc[c] = "seeding" /\ loose = "no" /\ next = None =>
      /\ \A v \in Visible(c) : v <= seen[c]
      /\ \A d \in Conn : \A v \in pend[d] : v <= seen[c]

(* The inductive invariant.                                                *)
IInv ==
  /\ TypeOK
  /\ GeneratedArePending
  /\ NothingBeforeCounter
  /\ SeenIsPast
  /\ CounterPastIds
  /\ ReservedOnce

-----------------------------------------------------------------------------
(* The cursor arithmetic.                                                  *)

LEMMA RoundUpRises ==
  ASSUME NEW cur \in 0 .. U, NEW step \in Nat \ {0}, NEW offset \in Nat
  PROVE  RoundUp(cur, step, offset) \in cur .. U
<1> DEFINE off == offset % step
           mod == cur % step
<1>1. off \in 0 .. step - 1 /\ mod \in 0 .. step - 1
  OBVIOUS
<1>2. RoundUp(cur, step, offset) =
        IF mod = off THEN cur
        ELSE Saturate(cur + (IF off > mod THEN off - mod
                                          ELSE step - (mod - off)))
  BY DEF RoundUp
<1> HIDE DEF off, mod
<1> QED BY <1>1, <1>2, AutoIncrementConstants DEF Saturate

LEMMA LastIsPastFirst ==
  ASSUME NEW first \in Nat, NEW count \in Count, NEW step \in Nat \ {0}
  PROVE  LastOf(first, count, step) \in Nat /\ LastOf(first, count, step) >= first
<1>1. count - 1 \in Nat
  BY AutoIncrementConstants DEF Count
<1>2. (count - 1) * step \in Nat
  BY <1>1
<1> QED BY <1>2 DEF LastOf

(* A reservation leaves the counter at or past where it was, and past      *)
(* every id it issues; at the end of the range it issues none.             *)
LEMMA ReservationAdvances ==
  ASSUME NEW from \in 0 .. U, NEW count \in Count, NEW l \in Ladder
  PROVE  LET first == RoundUp(from, l[1], l[2])
             end == Advance(first, count, l[1])
             batch == Batch(first, count, l[1])
         IN  /\ end \in from .. U
             /\ batch \subseteq Id
             /\ \A v \in batch : v >= from
             /\ end = U \/ \A v \in batch : v < end
             /\ end = U \/ end > from
<1> DEFINE first == RoundUp(from, l[1], l[2])
           last == LastOf(first, count, l[1])
<1>1. l[1] \in Nat \ {0} /\ l[2] \in Nat
  BY AutoIncrementConstants
<1>2. first \in from .. U
  BY <1>1, RoundUpRises
<1>3. first \in Nat
  BY <1>2, AutoIncrementConstants
<1>4. last \in Nat /\ last >= first
  BY <1>1, <1>3, LastIsPastFirst
<1>5. Advance(first, count, l[1]) = Saturate(last + 1)
  BY DEF Advance
<1>6. Batch(first, count, l[1]) \subseteq {v \in Id : v >= first /\ v <= last}
  BY DEF Batch
<1> HIDE DEF first, last
<1>7. Saturate(last + 1) \in from .. U
  BY <1>2, <1>3, <1>4, AutoIncrementConstants DEF Saturate
<1>8. Saturate(last + 1) = U \/ Saturate(last + 1) = last + 1
  BY DEF Saturate
<1>9. \A v \in Batch(first, count, l[1]) : v \in Id /\ v >= from /\ v <= last
  BY <1>2, <1>3, <1>6, AutoIncrementConstants DEF Id
<1>10. Saturate(last + 1) = U \/ Saturate(last + 1) > from
  BY <1>2, <1>3, <1>4, <1>8, AutoIncrementConstants
<1>11. \A v \in Batch(first, count, l[1]) : v < last + 1
  BY <1>4, <1>9 DEF Id
<1> QED BY <1>5, <1>7, <1>8, <1>9, <1>10, <1>11 DEF first

LEMMA NotedRises ==
  ASSUME NEW v \in Id, next \in (0 .. U) \cup {None}
  PROVE  /\ Noted(v) \in 1 .. U
         /\ Noted(v) > v
         /\ next # None => Noted(v) >= next
BY AutoIncrementConstants DEF Noted, Id

LEMMA SeededRises ==
  ASSUME NEW max \in 0 .. U - 1, next \in (0 .. U) \cup {None}
  PROVE  /\ Seeded(max) \in max + 1 .. U
         /\ next # None => Seeded(max) >= next
BY AutoIncrementConstants DEF Seeded

(* The observer keeps the first cause.                                     *)
LEMMA BecauseTyped ==
  ASSUME TypeOK, NEW behind \in BOOLEAN, NEW cause \in Causes
  PROVE  /\ Because(behind, cause) \in {"no"} \cup Causes
         /\ Because(behind, cause) = "no" => loose = "no" /\ ~behind
BY DEF Because, TypeOK, Causes

-----------------------------------------------------------------------------
(* The two ways ids come into use.                                         *)

(* A reservation from a cursor past every id in use issues new ones.       *)
LEMMA ReserveFromIsFresh ==
  ASSUME IInv, NEW c \in Conn, NEW from \in 0 .. U,
         ReserveFrom(c, from),
         UNCHANGED <<rows, txn, snap, pend, gone, gen>>,
         loose' = "no" =>
           /\ loose = "no"
           /\ from = U \/ \A v \in rows \cup Outstanding : v < from
  PROVE  /\ next' \in from .. U
         /\ held' \in [Conn -> SUBSET Id]
         /\ ladder' \in [Conn -> Ladder \cup {None}]
         /\ CounterPastIds'
         /\ ReservedOnce'
<1> PICK count \in Count, l \in Ladder :
      /\ next' = Advance(RoundUp(from, l[1], l[2]), count, l[1])
      /\ held' = [held EXCEPT ![c] = Batch(RoundUp(from, l[1], l[2]), count, l[1])]
      /\ ladder' = [ladder EXCEPT ![c] = l]
  BY DEF ReserveFrom
<1> DEFINE batch == Batch(RoundUp(from, l[1], l[2]), count, l[1])
<1>1. /\ next' \in from .. U
      /\ batch \subseteq Id
      /\ \A v \in batch : v >= from
      /\ next' = U \/ \A v \in batch : v < next'
  BY ReservationAdvances
<1>2. held' = [held EXCEPT ![c] = batch]
  OBVIOUS
<1> HIDE DEF batch
<1>3. /\ held' \in [Conn -> SUBSET Id]
      /\ ladder' \in [Conn -> Ladder \cup {None}]
  BY <1>1, <1>2 DEF IInv, TypeOK
<1>4. Outstanding' \subseteq Outstanding \cup batch
  BY <1>2 DEF Outstanding, IInv, TypeOK
<1>5. /\ held'[c] = batch
      /\ \A d \in Conn \ {c} : held'[d] = held[d]
  BY <1>2 DEF IInv, TypeOK
<1>6. \A d \in Conn : held[d] \cup gen[d] \subseteq Outstanding
  BY DEF IInv, GeneratedArePending, Outstanding
<1>7. rows \cup Outstanding \subseteq Id
  BY DEF Outstanding, IInv, TypeOK
<1>8. CounterPastIds'
  <2> SUFFICES ASSUME loose' = "no", next' # U, NEW v \in rows \cup Outstanding'
               PROVE  v < next'
    BY DEF CounterPastIds
  <2>1. CASE v \in batch
    BY <1>1, <2>1
  <2>2. CASE v \in rows \cup Outstanding
    BY <1>1, <1>7, <2>2, AutoIncrementConstants DEF Id
  <2> QED BY <1>4, <2>1, <2>2
<1>9. ReservedOnce'
  <2> SUFFICES ASSUME loose' = "no", NEW a \in Conn, NEW b \in Conn, a # b,
                      NEW v \in held'[a], v \in held'[b] \cup gen[b]
               PROVE  FALSE
    BY DEF ReservedOnce
  <2>1. v \in Id
    BY <1>3
  <2>2. v \in batch => v \notin Outstanding
    BY <1>1, <1>7, <2>1, AutoIncrementConstants DEF Id
  <2>3. CASE a = c
    BY <1>5, <1>6, <2>2, <2>3
  <2>4. CASE b = c /\ v \in held'[b]
    BY <1>5, <1>6, <2>2, <2>4
  <2>5. CASE a # c /\ v \in held[b] \cup gen[b]
    BY <1>5, <2>5 DEF IInv, ReservedOnce
  <2> QED BY <1>5, <2>3, <2>4, <2>5
<1> QED BY <1>1, <1>3, <1>8, <1>9

(* A write of a reserved id keeps the books, and so does one of an id the  *)
(* session has not reserved: the counter takes note of it first.           *)
LEMMA WriteRowKeeps ==
  ASSUME IInv, NEW c \in Conn, NEW v \in Id,
         NEW mine \in SUBSET {v}, NEW kept \in SUBSET held[c],
         v \in mine => v \in held[c], v \notin kept,
         WriteRow(c, v, mine),
         held' = [held EXCEPT ![c] = kept],
         UNCHANGED <<rows, txn, snap, gone, pc, seen, ladder>>
  PROVE  IInv'
<1> USE DEF IInv, TypeOK
<1>1. /\ next' \in 1 .. U /\ next' > v
      /\ next # None => next' >= next
  BY NotedRises DEF WriteRow
<1>2. /\ loose' \in {"no"} \cup Causes
      /\ loose' = "no" =>
           /\ loose = "no"
           /\ next = None => \A w \in rows \cup Outstanding : ~(w > v)
  BY BecauseTyped DEF WriteRow, Causes
<1>3. /\ \A d \in Conn : pend'[d] \subseteq pend[d] \cup {v}
      /\ \A d \in Conn : gen'[d] \subseteq gen[d] \cup (IF d = c THEN mine ELSE {})
      /\ pend' \in [Conn -> SUBSET Id]
      /\ gen' \in [Conn -> SUBSET Id]
      /\ GeneratedArePending'
  <2>1. CASE UNCHANGED <<pend, gen>>
    BY <2>1 DEF GeneratedArePending
  <2>2. CASE /\ pend' = [pend EXCEPT ![c] = @ \cup {v}]
             /\ gen' = [gen EXCEPT ![c] = @ \cup mine]
    BY <2>2 DEF GeneratedArePending
  <2> QED BY <2>1, <2>2 DEF WriteRow
<1>4. /\ held' \in [Conn -> SUBSET Id]
      /\ held'[c] = kept
      /\ \A d \in Conn : held'[d] \subseteq held[d]
  OBVIOUS
<1>5. Outstanding' \subseteq Outstanding \cup {v}
  BY <1>3, <1>4 DEF Outstanding
<1>6. rows \cup Outstanding \subseteq Id
  BY DEF Outstanding
<1>7. next' # None
  BY <1>1, AutoIncrementConstants
<1>8. TypeOK'
  BY <1>1, <1>2, <1>3, <1>4
<1>9. CounterPastIds'
  <2> SUFFICES ASSUME loose' = "no", next' # U, NEW w \in rows \cup Outstanding'
               PROVE  w < next'
    BY DEF CounterPastIds
  <2>1. CASE w = v
    BY <1>1, <2>1, AutoIncrementConstants DEF Id
  <2>2. CASE w \in rows \cup Outstanding /\ next = None
    <3>1. ~(w > v)
      BY <1>2, <2>2
    <3> QED BY <1>1, <1>6, <2>2, <3>1, AutoIncrementConstants DEF Id
  <2>3. CASE w \in rows \cup Outstanding /\ next # None
    <3>1. next # U
      BY <1>1, <2>3, AutoIncrementConstants
    <3>2. w < next
      BY <1>2, <2>3, <3>1 DEF CounterPastIds
    <3> QED BY <1>1, <1>6, <2>3, <3>1, <3>2, AutoIncrementConstants DEF Id
  <2> QED BY <1>5, <2>1, <2>2, <2>3
<1>10. ReservedOnce'
  <2> SUFFICES ASSUME loose' = "no", NEW a \in Conn, NEW b \in Conn, a # b,
                      NEW w \in held'[a], w \in held'[b] \cup gen'[b]
               PROVE  FALSE
    BY DEF ReservedOnce
  <2>1. w \in held[a] /\ held[a] \cap (held[b] \cup gen[b]) = {}
    BY <1>2, <1>4 DEF ReservedOnce
  <2>2. b = c /\ w \in mine
    BY <1>3, <1>4, <2>1
  <2>3. w = v /\ v \in held[c]
    BY <2>2
  <2> QED BY <2>1, <2>2, <2>3
<1>11. NothingBeforeCounter' /\ SeenIsPast'
  BY <1>7 DEF NothingBeforeCounter, SeenIsPast
<1> QED BY <1>3, <1>8, <1>9, <1>10, <1>11

-----------------------------------------------------------------------------
(* The invariant, one action at a time.                                    *)

LEMMA InitInv == Init => IInv
<1> SUFFICES ASSUME Init PROVE IInv
  OBVIOUS
<1>1. TypeOK
  <2>1. 0 \in 0 .. U - 1
    BY AutoIncrementConstants
  <2>2. seen \in [Conn -> 0 .. U - 1]
    BY <2>1 DEF Init
  <2> QED BY <2>2 DEF Init, TypeOK
<1>2. GeneratedArePending /\ NothingBeforeCounter /\ SeenIsPast
  BY DEF Init, GeneratedArePending, NothingBeforeCounter, SeenIsPast
<1>3. CounterPastIds /\ ReservedOnce
  BY DEF Init, CounterPastIds, ReservedOnce
<1> QED BY <1>1, <1>2, <1>3 DEF IInv

LEMMA ReserveKeeps ==
  ASSUME IInv, NEW c \in Conn, Reserve(c)
  PROVE  IInv' /\ next' >= next
<1>1. next \in 0 .. U
  BY DEF Reserve, IInv, TypeOK
<1>2. loose' = "no" => loose = "no" /\ (next = U \/ \A v \in rows \cup Outstanding : v < next)
  BY DEF Reserve, IInv, CounterPastIds
<1>3. UNCHANGED <<rows, txn, snap, pend, gone, gen, pc, seen, loose>> /\ ReserveFrom(c, next)
  BY DEF Reserve
<1>4. /\ next' \in next .. U
      /\ held' \in [Conn -> SUBSET Id]
      /\ ladder' \in [Conn -> Ladder \cup {None}]
      /\ CounterPastIds' /\ ReservedOnce'
  BY <1>1, <1>2, <1>3, ReserveFromIsFresh
<1>5. next' \in 0 .. U /\ next' # None
  BY <1>1, <1>4, AutoIncrementConstants
<1>6. TypeOK'
  BY <1>3, <1>4, <1>5 DEF IInv, TypeOK
<1>7. GeneratedArePending' /\ NothingBeforeCounter' /\ SeenIsPast'
  BY <1>3, <1>5 DEF IInv, GeneratedArePending, NothingBeforeCounter, SeenIsPast
<1> QED BY <1>1, <1>4, <1>6, <1>7, AutoIncrementConstants DEF IInv

LEMMA SelectMaxKeeps ==
  ASSUME IInv, NEW c \in Conn, SelectMax(c)
  PROVE  IInv'
<1>1. PICK max \in Visible(c) \cup {0} :
        /\ \A v \in Visible(c) : v <= max
        /\ seen' = [seen EXCEPT ![c] = max]
        /\ loose' = Because(\E d \in Conn, v \in Id : v \in pend[d] /\ v > max,
                            "update")
  BY DEF SelectMax
<1>2. max \in 0 .. U - 1
  BY AutoIncrementConstants DEF IInv, TypeOK, Visible, Id
<1>3. /\ pc' = [pc EXCEPT ![c] = "seeding"]
      /\ UNCHANGED <<next, rows, txn, snap, pend, gone, gen, held, ladder>>
  BY DEF SelectMax
<1>4. /\ loose' \in {"no"} \cup Causes
      /\ loose' = "no" =>
           /\ loose = "no"
           /\ \A d \in Conn : \A v \in pend[d] : ~(v > max)
  <2> DEFINE behind == \E d \in Conn, v \in Id : v \in pend[d] /\ v > max
  <2>1. behind \in BOOLEAN /\ "update" \in Causes
    BY DEF Causes
  <2>2. /\ loose' \in {"no"} \cup Causes
        /\ loose' = "no" => loose = "no" /\ ~behind
    BY <1>1, <2>1, BecauseTyped DEF IInv
  <2> QED BY <2>2 DEF IInv, TypeOK
<1>5. TypeOK'
  BY <1>1, <1>2, <1>3, <1>4 DEF IInv, TypeOK
<1>6. ASSUME loose' = "no", next' = None, NEW d \in Conn, pc'[d] = "seeding"
      PROVE  /\ \A v \in Visible(d)' : v <= seen'[d]
             /\ \A e \in Conn : \A v \in pend'[e] : v <= seen'[d]
  <2>1. CASE d = c
    <3>1. seen'[d] = max /\ pend' = pend /\ Visible(d)' = Visible(c)
      BY <1>1, <1>3, <2>1 DEF IInv, TypeOK, Visible
    <3>2. \A e \in Conn : \A v \in pend[e] : v \in Int
      BY DEF IInv, TypeOK, Id
    <3>3. \A e \in Conn : \A v \in pend[e] : v <= max
      BY <1>2, <1>4, <1>6, <3>2
    <3> QED BY <1>1, <3>1, <3>3
  <2>2. CASE d # c
    <3>1. /\ seen'[d] = seen[d] /\ pend' = pend /\ Visible(d)' = Visible(d)
          /\ pc[d] = "seeding" /\ next = None
      BY <1>1, <1>3, <1>6, <2>2 DEF IInv, TypeOK, Visible
    <3> QED BY <1>4, <1>6, <3>1 DEF IInv, SeenIsPast
  <2> QED BY <2>1, <2>2
<1>7. SeenIsPast'
  BY <1>6 DEF SeenIsPast
<1> QED BY <1>3, <1>4, <1>5, <1>7
        DEF IInv, GeneratedArePending, NothingBeforeCounter, CounterPastIds,
            ReservedOnce, Outstanding

LEMMA SeedAndReserveKeeps ==
  ASSUME IInv, NEW c \in Conn, SeedAndReserve(c)
  PROVE  IInv' /\ (next # None => next' >= next)
<1> DEFINE from == Seeded(seen[c])
<1>1. seen[c] \in 0 .. U - 1 /\ next \in (0 .. U) \cup {None}
  BY DEF IInv, TypeOK
<1>2. from \in seen[c] + 1 .. U /\ (next # None => from >= next)
  BY <1>1, SeededRises
<1>3. /\ ReserveFrom(c, from)
      /\ pc[c] = "seeding" /\ pc' = [pc EXCEPT ![c] = "stmt"]
      /\ seen' = [seen EXCEPT ![c] = 0]
      /\ UNCHANGED <<rows, txn, snap, pend, gone, gen>>
  BY DEF SeedAndReserve
<1> DEFINE behind == next = None /\ \E v \in rows \ Visible(c) : v > seen[c]
<1>12. /\ loose' \in {"no"} \cup Causes
       /\ loose' = "no" => loose = "no" /\ ~behind
  <2>1. behind \in BOOLEAN /\ "unseen" \in Causes
    BY DEF Causes
  <2>2. loose' = Because(behind, "unseen")
    BY DEF SeedAndReserve
  <2> QED BY <2>1, <2>2, BecauseTyped DEF IInv
<1> HIDE DEF from
<1>4. rows \cup Outstanding \subseteq Id
  BY DEF Outstanding, IInv, TypeOK
<1>5. ASSUME loose' = "no", from # U, NEW v \in rows \cup Outstanding
      PROVE  v < from
  <2>1. CASE next = None
    <3>1. loose = "no" /\ \A d \in Conn : held[d] = {}
      BY <1>5, <1>12, <2>1 DEF IInv, NothingBeforeCounter
    <3>2. /\ \A w \in Visible(c) : w <= seen[c]
          /\ \A d \in Conn : \A w \in pend[d] : w <= seen[c]
      BY <1>3, <2>1, <3>1 DEF IInv, SeenIsPast
    <3>3. v \in rows \/ \E d \in Conn : v \in pend[d]
      BY <1>5, <3>1 DEF Outstanding
    <3>4. v \in rows \ Visible(c) => ~(v > seen[c])
      BY <1>5, <1>12, <2>1
    <3> QED BY <1>1, <1>2, <1>4, <3>2, <3>3, <3>4 DEF Id
  <2>2. CASE next # None
    <3>1. next = U \/ v < next
      BY <1>5, <1>12, <2>2 DEF IInv, CounterPastIds
    <3> QED BY <1>1, <1>2, <1>4, <1>5, <2>2, <3>1, AutoIncrementConstants DEF Id
  <2> QED BY <2>1, <2>2
<1>6. from \in 0 .. U
  BY <1>1, <1>2, AutoIncrementConstants
<1>7. loose' = "no" => loose = "no" /\ (from = U \/ \A v \in rows \cup Outstanding : v < from)
  BY <1>5, <1>12
<1>8. /\ next' \in from .. U
      /\ held' \in [Conn -> SUBSET Id]
      /\ ladder' \in [Conn -> Ladder \cup {None}]
      /\ CounterPastIds' /\ ReservedOnce'
  BY <1>3, <1>6, <1>7, ReserveFromIsFresh
<1>9. next' \in 0 .. U /\ next' # None /\ (next # None => next' >= next)
  BY <1>1, <1>2, <1>6, <1>8, AutoIncrementConstants
<1>10. TypeOK'
  <2>1. 0 \in 0 .. U - 1
    BY AutoIncrementConstants
  <2>2. seen' \in [Conn -> 0 .. U - 1]
    BY <1>3, <2>1 DEF IInv, TypeOK
  <2>3. loose' \in {"no"} \cup Causes
    BY <1>12
  <2> QED BY <1>3, <1>8, <1>9, <2>2, <2>3 DEF IInv, TypeOK
<1>11. GeneratedArePending' /\ NothingBeforeCounter' /\ SeenIsPast'
  BY <1>3, <1>9 DEF IInv, GeneratedArePending, NothingBeforeCounter, SeenIsPast
<1> QED BY <1>8, <1>9, <1>10, <1>11 DEF IInv

LEMMA WriteGeneratedKeeps ==
  ASSUME IInv, NEW c \in Conn, WriteGenerated(c)
  PROVE  IInv'
<1>1. PICK v \in held[c] :
        /\ WriteRow(c, v, {v})
        /\ held' = [held EXCEPT ![c] = held[c] \ {v}]
  BY DEF WriteGenerated
<1>2. v \in Id
  BY DEF IInv, TypeOK
<1>3. UNCHANGED <<rows, txn, snap, gone, pc, seen, ladder>>
  BY DEF WriteGenerated
<1> DEFINE kept == held[c] \ {v}
<1>4. kept \in SUBSET held[c] /\ v \notin kept /\ held' = [held EXCEPT ![c] = kept]
  BY <1>1
<1> HIDE DEF kept
<1>5. {v} \in SUBSET {v}
  OBVIOUS
<1> QED BY <1>1, <1>2, <1>3, <1>4, <1>5, WriteRowKeeps

LEMMA WriteExplicitKeeps ==
  ASSUME IInv, NEW c \in Conn, NEW v \in Id, WriteExplicit(c, v)
  PROVE  IInv'
<1> DEFINE kept == {n \in held[c] : n > v}
<1>1. /\ WriteRow(c, v, {})
      /\ held' = [held EXCEPT ![c] = kept]
      /\ UNCHANGED <<rows, txn, snap, gone, pc, seen, ladder>>
  BY DEF WriteExplicit
<1>2. kept \in SUBSET held[c] /\ v \notin kept
  BY DEF Id
<1> HIDE DEF kept
<1>3. {} \in SUBSET {v} /\ v \notin {}
  OBVIOUS
<1> QED BY <1>1, <1>2, <1>3, WriteRowKeeps

(* A statement or a transaction opens; nothing of the ids changes.         *)
LEMMA OpeningKeeps ==
  ASSUME IInv, NEW c \in Conn, BeginTx(c) \/ StartStatement(c)
  PROVE  IInv'
<1>1. /\ UNCHANGED <<next, rows, pend, gone, gen, seen, held, ladder, loose>>
      /\ pc[c] = "idle" /\ pc'[c] # "seeding"
      /\ \A d \in Conn \ {c} :
           pc'[d] = pc[d] /\ txn'[d] = txn[d] /\ snap'[d] = snap[d]
      /\ txn' \in [Conn -> {"auto", "RC", "SI"}]
      /\ snap' \in [Conn -> SUBSET Id]
      /\ pc' \in [Conn -> {"idle", "stmt", "seeding"}]
  BY DEF BeginTx, StartStatement, IInv, TypeOK
<1>2. TypeOK'
  BY <1>1 DEF IInv, TypeOK
<1>3. SeenIsPast'
  BY <1>1 DEF IInv, SeenIsPast, Visible
<1> QED BY <1>1, <1>2, <1>3
        DEF IInv, GeneratedArePending, NothingBeforeCounter, CounterPastIds,
            ReservedOnce, Outstanding

(* A row is deleted, or gets an id below the counter.                      *)
LEMMA ChangeKeeps ==
  ASSUME IInv, NEW c \in Conn, NEW u \in Id, NEW given \in SUBSET Id,
         Leave(c, u),
         pend' = [pend EXCEPT ![c] = (@ \ {u}) \cup given],
         held' \in [Conn -> SUBSET Id],
         \A d \in Conn : held'[d] \subseteq held[d],
         loose' \in {"no"} \cup Causes,
         loose' = "no" =>
           /\ loose = "no"
           /\ next # None => next = U \/ \A v \in given : v < next
           /\ next = None =>
                \A d \in Conn : pc[d] = "seeding" => \A v \in given : v <= seen[d],
         UNCHANGED <<next, rows, txn, snap, pc, seen, ladder>>
  PROVE  IInv'
<1> USE DEF IInv, TypeOK
<1>1. /\ gone' \in [Conn -> SUBSET Id]
      /\ gen' \in [Conn -> SUBSET Id]
      /\ \A d \in Conn : gone[d] \subseteq gone'[d] /\ gen'[d] \subseteq gen[d]
      /\ u \notin gen'[c]
  BY DEF Leave
<1>2. /\ pend' \in [Conn -> SUBSET Id]
      /\ pend'[c] = (pend[c] \ {u}) \cup given
      /\ \A d \in Conn \ {c} : pend'[d] = pend[d]
  OBVIOUS
<1>3. TypeOK'
  BY <1>1, <1>2
<1>4. GeneratedArePending'
  BY <1>1, <1>2 DEF GeneratedArePending
<1>5. Outstanding' \subseteq Outstanding \cup given
  BY <1>2 DEF Outstanding
<1>6. NothingBeforeCounter'
  BY DEF NothingBeforeCounter
<1>7. SeenIsPast'
  <2> SUFFICES ASSUME NEW d \in Conn, pc[d] = "seeding", loose' = "no", next = None
               PROVE  /\ \A v \in Visible(d)' : v <= seen[d]
                      /\ \A e \in Conn : \A v \in pend'[e] : v <= seen[d]
    BY DEF SeenIsPast
  <2>1. /\ \A v \in Visible(d) : v <= seen[d]
        /\ \A e \in Conn : \A v \in pend[e] : v <= seen[d]
    BY DEF SeenIsPast
  <2>2. \A e \in Conn : \A v \in pend'[e] : v <= seen[d]
    BY <1>2, <2>1
  <2>3. Visible(d)' \subseteq Visible(d) \cup pend'[d]
    BY <1>1 DEF Visible
  <2> QED BY <2>1, <2>2, <2>3
<1>8. CounterPastIds'
  BY <1>5 DEF CounterPastIds
<1>9. ReservedOnce'
  BY <1>1 DEF ReservedOnce
<1> QED BY <1>3, <1>4, <1>6, <1>7, <1>8, <1>9

(* A statement or a transaction ends: what was outstanding is now stored,  *)
(* or lost.                                                                *)
LEMMA EndingKeeps ==
  ASSUME IInv, NEW c \in Conn, EndStatement(c) \/ EndTx(c)
  PROVE  IInv'
<1>1. /\ UNCHANGED <<next, seen, loose>>
      /\ rows' \in {rows, (rows \ gone[c]) \cup pend[c]}
      /\ pc'[c] # "seeding"
      /\ \A d \in Conn \ {c} :
           /\ pc'[d] = pc[d] /\ txn'[d] = txn[d] /\ snap'[d] = snap[d]
           /\ pend'[d] = pend[d] /\ gone'[d] = gone[d] /\ gen'[d] = gen[d]
           /\ held'[d] = held[d]
      /\ \/ pend'[c] = pend[c] /\ gen'[c] = gen[c]
         \/ pend'[c] = {} /\ gen'[c] = {}
      /\ held'[c] \in {held[c], {}}
  BY DEF EndStatement, EndTx, Stored, IInv, TypeOK
<1>2. TypeOK'
  <2>1. CASE EndStatement(c)
    <3>1. CASE txn[c] = "auto"
      BY <2>1, <3>1 DEF EndStatement, Stored, IInv, TypeOK
    <3>2. CASE txn[c] # "auto"
      BY <2>1, <3>2 DEF EndStatement, IInv, TypeOK
    <3> QED BY <3>1, <3>2
  <2>2. CASE EndTx(c)
    BY <2>2 DEF EndTx, Stored, IInv, TypeOK
  <2> QED BY <2>1, <2>2
<1>3. rows' \cup Outstanding' \subseteq rows \cup Outstanding
  BY <1>1 DEF Outstanding
<1>4. GeneratedArePending' /\ NothingBeforeCounter'
  BY <1>1 DEF IInv, GeneratedArePending, NothingBeforeCounter
<1>5. SeenIsPast'
  <2> SUFFICES ASSUME NEW d \in Conn, pc'[d] = "seeding", loose = "no", next = None
               PROVE  /\ \A v \in Visible(d)' : v <= seen[d]
                      /\ \A e \in Conn : \A v \in pend'[e] : v <= seen[d]
    BY <1>1 DEF SeenIsPast
  <2>1. d # c /\ pc[d] = "seeding"
    BY <1>1
  <2>2. /\ \A v \in Visible(d) : v <= seen[d]
        /\ \A e \in Conn : \A v \in pend[e] : v <= seen[d]
    BY <2>1 DEF IInv, SeenIsPast
  <2>3. Visible(d)' \subseteq Visible(d) \cup pend[c]
    BY <1>1, <2>1 DEF Visible
  <2>4. \A e \in Conn : pend'[e] \subseteq pend[e]
    BY <1>1
  <2> QED BY <2>2, <2>3, <2>4
<1>6. CounterPastIds'
  BY <1>1, <1>3 DEF IInv, CounterPastIds
<1>7. ReservedOnce'
  BY <1>1 DEF IInv, ReservedOnce
<1> QED BY <1>2, <1>4, <1>5, <1>6, <1>7 DEF IInv

LEMMA DeleteRowKeeps ==
  ASSUME IInv, NEW c \in Conn, NEW u \in Id, DeleteRow(c, u)
  PROVE  IInv'
<1>1. /\ Leave(c, u)
      /\ pend' = [pend EXCEPT ![c] = (@ \ {u}) \cup {}]
      /\ UNCHANGED <<next, rows, txn, snap, pc, seen, held, ladder, loose>>
  BY DEF DeleteRow
<1>2. /\ held' \in [Conn -> SUBSET Id]
      /\ loose' \in {"no"} \cup Causes
  BY <1>1 DEF IInv, TypeOK
<1>3. {} \in SUBSET Id
  OBVIOUS
<1> QED BY <1>1, <1>2, <1>3, ChangeKeeps

LEMMA UpdateIdKeeps ==
  ASSUME IInv, NEW c \in Conn, NEW u \in Id, NEW v \in Id, UpdateId(c, u, v)
  PROVE  IInv'
<1> DEFINE behind ==
             \/ next # None /\ v >= next
             \/ /\ next = None
                /\ \E d \in Conn : pc[d] = "seeding" /\ v > seen[d]
<1>1. /\ Leave(c, u)
      /\ pend' = [pend EXCEPT ![c] = (@ \ {u}) \cup {v}]
      /\ held' = [held EXCEPT ![c] = {n \in @ : n > v}]
      /\ loose' = Because(behind, "update")
      /\ UNCHANGED <<next, rows, txn, snap, pc, seen, ladder>>
  BY DEF UpdateId
<1>2. /\ held' \in [Conn -> SUBSET Id]
      /\ \A d \in Conn : held'[d] \subseteq held[d]
  BY <1>1 DEF IInv, TypeOK
<1>3. /\ v \in Int
      /\ next # None => next \in Int
      /\ \A d \in Conn : seen[d] \in Int
  BY AutoIncrementConstants DEF IInv, TypeOK, Id
<1>4. /\ loose' \in {"no"} \cup Causes
      /\ loose' = "no" => loose = "no" /\ ~behind
  <2>1. behind \in BOOLEAN /\ "update" \in Causes
    BY <1>3 DEF Causes
  <2> HIDE DEF behind
  <2> QED BY <1>1, <2>1, BecauseTyped DEF IInv
<1>5. loose' = "no" =>
        /\ loose = "no"
        /\ next # None => next = U \/ \A w \in {v} : w < next
        /\ next = None =>
             \A d \in Conn : pc[d] = "seeding" => \A w \in {v} : w <= seen[d]
  BY <1>3, <1>4
<1>6. {v} \in SUBSET Id
  OBVIOUS
<1> HIDE DEF behind
<1> QED BY <1>1, <1>2, <1>4, <1>5, <1>6, ChangeKeeps

(* The counter is lost, and says so if anything of it was outstanding.     *)
LEMMA ClearedKeeps ==
  ASSUME IInv, DdlElsewhere \/ Truncate \/ Restart
  PROVE  IInv'
<1>1. next' = None
  BY DEF DdlElsewhere, Truncate, Restart, Cleared
<1>2. loose' = "no" =>
        /\ Outstanding' = {}
        /\ \A c \in Conn : pc'[c] # "seeding"
        /\ \A c \in Conn : held'[c] = {}
  <2>1. CASE DdlElsewhere \/ Truncate
    <3> SUFFICES ASSUME loose' = "no"
                 PROVE  /\ Outstanding' = {}
                        /\ \A c \in Conn : pc'[c] # "seeding"
                        /\ \A c \in Conn : held'[c] = {}
      OBVIOUS
    <3>1. UNCHANGED <<pend, pc, held>> /\ Cleared
      BY <2>1 DEF DdlElsewhere, Truncate
    <3>2. Outstanding = {} /\ \A c \in Conn : pc[c] # "seeding"
      BY <3>1 DEF Cleared
    <3>3. \A c \in Conn : held[c] \subseteq Outstanding
      BY DEF Outstanding
    <3>4. Outstanding' = Outstanding
      BY <3>1 DEF Outstanding
    <3> QED BY <3>1, <3>2, <3>3, <3>4
  <2>2. CASE Restart
    BY <2>2 DEF Restart, Outstanding
  <2> QED BY <2>1, <2>2
<1>3. TypeOK' /\ GeneratedArePending'
  <2>1. CASE DdlElsewhere
    BY <2>1 DEF DdlElsewhere, Cleared, Causes, IInv, TypeOK, GeneratedArePending
  <2>2. CASE Truncate
    BY <2>2 DEF Truncate, Cleared, Causes, IInv, TypeOK, GeneratedArePending
  <2>3. CASE Restart
    <3>1. 0 \in 0 .. U - 1
      BY AutoIncrementConstants
    <3>2. seen' \in [Conn -> 0 .. U - 1]
      BY <2>3, <3>1 DEF Restart
    <3>3. TypeOK'
      BY <2>3, <3>2 DEF Restart, IInv, TypeOK
    <3> QED BY <2>3, <3>3 DEF Restart, GeneratedArePending
  <2> QED BY <2>1, <2>2, <2>3
<1>4. NothingBeforeCounter' /\ SeenIsPast'
  BY <1>2 DEF NothingBeforeCounter, SeenIsPast
<1>5. CounterPastIds' /\ ReservedOnce'
  BY <1>1, <1>2 DEF CounterPastIds, ReservedOnce
<1> QED BY <1>3, <1>4, <1>5 DEF IInv

LEMMA StutterKeeps ==
  ASSUME IInv, UNCHANGED vars
  PROVE  IInv'
BY DEF vars, IInv, TypeOK, GeneratedArePending, NothingBeforeCounter,
       SeenIsPast, CounterPastIds, ReservedOnce, Outstanding, Visible

LEMMA StepInv == IInv /\ [Next]_vars => IInv'
<1> SUFFICES ASSUME IInv, [Next]_vars PROVE IInv'
  OBVIOUS
<1>1. ASSUME NEW c \in Conn, ConnStep(c) PROVE IInv'
  <2>1. CASE BeginTx(c) \/ StartStatement(c)
    BY <2>1, OpeningKeeps
  <2>2. CASE Reserve(c)
    BY <2>2, ReserveKeeps
  <2>3. CASE SelectMax(c)
    BY <2>3, SelectMaxKeeps
  <2>4. CASE SeedAndReserve(c)
    BY <2>4, SeedAndReserveKeeps
  <2>5. CASE WriteGenerated(c)
    BY <2>5, WriteGeneratedKeeps
  <2>6. ASSUME NEW v \in Id, WriteExplicit(c, v) PROVE IInv'
    BY <2>6, WriteExplicitKeeps
  <2>7. CASE EndStatement(c) \/ EndTx(c)
    BY <2>7, EndingKeeps
  <2>8. ASSUME NEW u \in Id, DeleteRow(c, u) PROVE IInv'
    BY <2>8, DeleteRowKeeps
  <2>9. ASSUME NEW u \in Id, NEW v \in Id, UpdateId(c, u, v) PROVE IInv'
    BY <2>9, UpdateIdKeeps
  <2> QED BY <1>1, <2>1, <2>2, <2>3, <2>4, <2>5, <2>6, <2>7, <2>8, <2>9
          DEF ConnStep
<1>2. CASE DdlElsewhere \/ Truncate \/ Restart
  BY <1>2, ClearedKeeps
<1>3. CASE UNCHANGED vars
  BY <1>3, StutterKeeps
<1> QED BY <1>1, <1>2, <1>3 DEF Next

LEMMA StepRises ==
  IInv /\ [Next]_vars => [next # None /\ next' # None => next' >= next]_vars
<1> SUFFICES ASSUME IInv, Next, next # None, next' # None PROVE next' >= next
  OBVIOUS
<1>1. next \in 0 .. U
  BY DEF IInv, TypeOK
<1>2. CASE next' = next
  BY <1>1, <1>2
<1>3. ASSUME NEW c \in Conn, NEW v \in Id, next' = Noted(v) PROVE next' >= next
  BY <1>1, <1>3, NotedRises
<1>4. ASSUME NEW c \in Conn, ConnStep(c) PROVE next' >= next
  <2>1. CASE BeginTx(c) \/ StartStatement(c) \/ SelectMax(c)
             \/ EndStatement(c) \/ EndTx(c)
    BY <1>2, <2>1 DEF BeginTx, StartStatement, SelectMax, EndStatement, EndTx
  <2>2. CASE Reserve(c)
    BY <2>2, ReserveKeeps
  <2>3. CASE SeedAndReserve(c)
    BY <2>3, SeedAndReserveKeeps
  <2>4. CASE WriteGenerated(c)
    <3>1. PICK v \in held[c] : next' = Noted(v)
      BY <2>4 DEF WriteGenerated, WriteRow
    <3>2. v \in Id
      BY <3>1 DEF IInv, TypeOK
    <3> QED BY <1>3, <3>1, <3>2
  <2>5. ASSUME NEW v \in Id, WriteExplicit(c, v) PROVE next' >= next
    BY <1>3, <2>5 DEF WriteExplicit, WriteRow
  <2>6. ASSUME NEW u \in Id, DeleteRow(c, u) PROVE next' >= next
    BY <1>2, <2>6 DEF DeleteRow
  <2>7. ASSUME NEW u \in Id, NEW v \in Id, UpdateId(c, u, v) PROVE next' >= next
    BY <1>2, <2>7 DEF UpdateId
  <2> QED BY <1>4, <2>1, <2>2, <2>3, <2>4, <2>5, <2>6, <2>7 DEF ConnStep
<1>5. CASE DdlElsewhere \/ Truncate \/ Restart
  BY <1>5 DEF DdlElsewhere, Truncate, Restart, Cleared
<1> QED BY <1>4, <1>5 DEF Next

-----------------------------------------------------------------------------
(* Remainders, which the ladders of ids are made of.                       *)

(* A number from its quotient and remainder, which no other pair gives.    *)
LEMMA Division ==
  ASSUME NEW a \in Nat, NEW n \in Nat \ {0}
  PROVE  /\ a % n \in 0 .. n - 1
         /\ a \div n \in Nat
         /\ a = n * (a \div n) + (a % n)
<1>1. a % n \in Int /\ a % n >= 0 /\ a % n < n
  OBVIOUS
<1>2. a \div n \in Int /\ a \div n >= 0
  OBVIOUS
<1>3. a = n * (a \div n) + (a % n)
  OBVIOUS
<1> QED BY <1>1, <1>2, <1>3

LEMMA NoMultipleBetween ==
  ASSUME NEW n \in Nat \ {0}, NEW d \in Int, n * d < n, -n < n * d
  PROVE  d = 0
<1>1. ~(d >= 1)
  <2>1. ASSUME d >= 1 PROVE n * d >= n
    BY <2>1
  <2> QED BY <2>1
<1>2. ~(d <= -1)
  <2>1. ASSUME d <= -1 PROVE n * d <= -n
    BY <2>1
  <2> QED BY <2>1
<1> QED BY <1>1, <1>2

(* a is q times n and r more.                                              *)
Divides(a, n, q, r) == q \in Int /\ r \in 0 .. n - 1 /\ a = n * q + r

LEMMA DivisionUnique ==
  ASSUME NEW a \in Nat, NEW n \in Nat \ {0}, NEW q, NEW r, NEW p, NEW s,
         Divides(a, n, q, r), Divides(a, n, p, s)
  PROVE  r = s
<1> DEFINE d == q - p
<1>1. /\ q \in Int /\ r \in 0 .. n - 1 /\ a = n * q + r
      /\ p \in Int /\ s \in 0 .. n - 1 /\ a = n * p + s
  BY DEF Divides
<1>2. d \in Int /\ n * d = s - r
  BY <1>1
<1>3. n * d \in Int /\ n * d < n /\ -n < n * d
  BY <1>1, <1>2
<1> HIDE DEF d
<1>4. d = 0
  BY <1>2, <1>3, NoMultipleBetween
<1> QED BY <1>1, <1>2, <1>4

LEMMA Remainder ==
  ASSUME NEW a \in Nat, NEW n \in Nat \ {0}
  PROVE  /\ Divides(a, n, a \div n, a % n)
         /\ \A q, r : Divides(a, n, q, r) => a % n = r
<1>1. Divides(a, n, a \div n, a % n)
  BY Division DEF Divides
<1> QED BY <1>1, DivisionUnique

(* Two numbers have one remainder when their difference has none.          *)
LEMMA OneLadder ==
  ASSUME NEW a \in Nat, NEW b \in Nat, b <= a, NEW n \in Nat \ {0}
  PROVE  (a - b) % n = 0 <=> a % n = b % n
<1> DEFINE q == a \div n   r == a % n   p == b \div n   s == b % n
           e == (a - b) \div n   t == (a - b) % n
<1>1. Divides(a, n, q, r)
  BY Remainder
<1>2. Divides(b, n, p, s)
  BY Remainder
<1>3. a - b \in Nat
  OBVIOUS
<1>4. Divides(a - b, n, e, t)
  BY <1>3, Remainder
<1>5. ASSUME t = 0 PROVE r = s
  <2> HIDE DEF q, r, p, s, e, t
  <2>1. n * (p + e) = n * p + n * e
    BY <1>2, <1>4 DEF Divides
  <2>2. Divides(a, n, p + e, s)
    BY <1>2, <1>4, <1>5, <2>1 DEF Divides
  <2> QED BY <1>1, <2>2, DivisionUnique
<1>6. ASSUME r = s PROVE t = 0
  <2> HIDE DEF q, r, p, s, e, t
  <2>1. n * (q - p) = n * q - n * p
    BY <1>1, <1>2 DEF Divides
  <2>2. Divides(a - b, n, q - p, 0)
    BY <1>1, <1>2, <1>6, <2>1 DEF Divides
  <2> QED BY <1>3, <1>4, <2>2, DivisionUnique
<1> QED BY <1>5, <1>6

(* Of the numbers of one remainder, the next after cur is where its own    *)
(* remainder reaches it.                                                   *)
LEMMA NextOfRemainder ==
  ASSUME NEW cur \in Nat, NEW n \in Nat \ {0}, NEW off \in 0 .. n - 1,
         NEW up \in 0 .. n - 1,
         off = (cur % n) + up \/ off + n = (cur % n) + up
  PROVE  /\ (cur + up) % n = off
         /\ \A v \in Nat : v >= cur /\ v % n = off => v >= cur + up
<1> DEFINE p == cur \div n   s == cur % n
<1>1. Divides(cur, n, p, s)
  BY Remainder
<1>2. off = s + up \/ off + n = s + up
  OBVIOUS
<1> HIDE DEF p, s
<1>3. n * (p + 1) = n * p + n
  BY <1>1 DEF Divides
<1>4. PICK g \in Int : cur + up = n * g + off
  <2>1. p \in Int /\ p + 1 \in Int /\ cur = n * p + s /\ s \in Int
    BY <1>1 DEF Divides
  <2>2. CASE off = s + up
    <3>1. cur + up = n * p + off
      BY <2>1, <2>2
    <3> QED BY <2>1, <3>1
  <2>3. CASE off + n = s + up
    <3>1. cur + up = n * (p + 1) + off
      BY <1>3, <2>1, <2>3
    <3> QED BY <2>1, <3>1
  <2> QED BY <1>2, <2>2, <2>3
<1>5. (cur + up) % n = off
  <2>1. cur + up \in Nat
    OBVIOUS
  <2>2. Divides(cur + up, n, g, off)
    BY <1>4 DEF Divides
  <2> QED BY <2>1, <2>2, Remainder
<1>6. ASSUME NEW v \in Nat, v >= cur, v % n = off, v < cur + up PROVE FALSE
  <2> DEFINE q == v \div n
  <2>1. q \in Int /\ v = n * q + off
    BY <1>6, Remainder DEF Divides
  <2> HIDE DEF q
  <2> DEFINE d == g - q
  <2>2. d \in Int /\ n * d = n * g - n * q
    BY <2>1
  <2>3. n * d = cur + up - v
    BY <1>4, <2>1, <2>2
  <2> HIDE DEF d
  <2>4. n * d < n /\ -n < n * d /\ n * d # 0
    BY <1>6, <2>3
  <2>5. d = 0
    BY <2>2, <2>4, NoMultipleBetween
  <2> QED BY <2>4, <2>5
<1> QED BY <1>5, <1>6

-----------------------------------------------------------------------------
(* Reservations on a ladder.                                               *)

(* round_up_to_modulus stops at the first id of the ladder it reaches.     *)
LEMMA RoundUpIsLeast ==
  ASSUME NEW cur \in 0 .. U, NEW step \in Nat \ {0}, NEW offset \in Nat,
         RoundUp(cur, step, offset) # U
  PROVE  /\ RoundUp(cur, step, offset) % step = offset % step
         /\ \A v \in Nat : v >= cur /\ v % step = offset % step
              => v >= RoundUp(cur, step, offset)
<1> DEFINE off == offset % step
           mod == cur % step
           up == IF mod = off THEN 0
                 ELSE IF off > mod THEN off - mod ELSE step - (mod - off)
<1>1. off \in 0 .. step - 1 /\ mod \in 0 .. step - 1 /\ cur \in Nat
  BY Division, AutoIncrementConstants
<1>2. RoundUp(cur, step, offset) =
        IF mod = off THEN cur
        ELSE Saturate(cur + (IF off > mod THEN off - mod
                                          ELSE step - (mod - off)))
  BY DEF RoundUp
<1> HIDE DEF off, mod
<1>3. up \in 0 .. step - 1 /\ (off = mod + up \/ off + step = mod + up)
  BY <1>1
<1>4. RoundUp(cur, step, offset) = cur + up
  BY <1>1, <1>2, AutoIncrementConstants DEF Saturate
<1> HIDE DEF up
<1>5. /\ (cur + up) % step = off
      /\ \A v \in Nat : v >= cur /\ v % step = off => v >= cur + up
  BY <1>1, <1>3, NextOfRemainder DEF mod
<1> QED BY <1>4, <1>5 DEF off

(* A batch is the run of a ladder's ids from the first one at `from` on.   *)
LEMMA BatchIsARun ==
  ASSUME NEW from \in 0 .. U, NEW count \in Count, NEW l \in Ladder,
         NEW batch, batch = Batch(RoundUp(from, l[1], l[2]), count, l[1])
  PROVE  /\ \A v \in batch : v \in Id /\ v % l[1] = l[2] % l[1] /\ v >= from
         /\ \A v \in Id, h \in batch :
              v % l[1] = l[2] % l[1] /\ v >= from /\ v < h => v \in batch
<1> DEFINE step == l[1]
           first == RoundUp(from, l[1], l[2])
           last == LastOf(first, count, step)
<1>1. step \in Nat \ {0} /\ l[2] \in Nat
  BY AutoIncrementConstants
<1>2. first \in from .. U
  BY <1>1, RoundUpRises
<1>3. first \in Nat /\ from \in Nat
  BY <1>2, AutoIncrementConstants
<1>4. last \in Nat
  BY <1>1, <1>3, LastIsPastFirst
<1>5. \A v : v \in batch <=> v \in Id /\ v >= first /\ v <= last /\ (v - first) % step = 0
  BY DEF Batch
<1>6. first # U =>
        /\ first % step = l[2] % step
        /\ \A v \in Nat : v >= from /\ v % step = l[2] % step => v >= first
  BY <1>1, RoundUpIsLeast
<1> HIDE DEF first, last
<1>7. Id \subseteq Nat
  BY DEF Id
<1>8. ASSUME NEW v \in batch PROVE first # U
  BY <1>5, AutoIncrementConstants DEF Id
<1>9. ASSUME NEW v \in batch PROVE v \in Id /\ v % step = l[2] % step /\ v >= from
  <2>1. v \in Nat /\ v >= first
    BY <1>5, <1>7
  <2>2. v % step = first % step
    <3>1. (v - first) % step = 0
      BY <1>5
    <3>2. first <= v
      BY <1>3, <2>1
    <3>3. (v - first) % step = 0 <=> v % step = first % step
      BY ONLY <1>1, <1>3, <2>1, <3>2, OneLadder, ZenonT(20)
    <3> QED BY <3>1, <3>3
  <2>3. v >= from
    BY <1>2, <1>3, <2>1
  <2> QED BY <1>5, <1>6, <1>8, <2>2, <2>3
<1>10. ASSUME NEW v \in Id, NEW h \in batch,
              v % step = l[2] % step, v >= from, v < h
       PROVE  v \in batch
  <2>1. v >= first /\ v % step = first % step
    BY <1>6, <1>7, <1>8, <1>10
  <2>2. v <= last
    <3>1. h \in Nat /\ h <= last
      BY <1>5, <1>7
    <3> QED BY <1>4, <1>7, <1>10, <3>1
  <2>3. (v - first) % step = 0
    BY <1>1, <1>3, <1>7, <2>1, OneLadder
  <2> QED BY <1>5, <2>1, <2>2, <2>3
<1> QED BY <1>9, <1>10

(* What LeastOnLadder says of one session's reservation.                   *)
OnLadder(c) ==
  LET past(v) == /\ pc[c] = "seeding" => v > seen[c]
                 /\ next # None => v >= next
      step == ladder'[c][1]
      rungs == {v \in Id : v % step = ladder'[c][2] % step}
      fit == {v \in rungs : past(v)}
  IN  /\ held'[c] \subseteq rungs
      /\ \A v \in fit, h \in held'[c] :
           fit \cap held'[c] # {} /\ (v < h => v \in held'[c])

LEMMA ReserveFromIsLeast ==
  ASSUME TypeOK, NEW c \in Conn, NEW from \in 0 .. U, ReserveFrom(c, from),
         \A v \in Id : v >= from <=> /\ pc[c] = "seeding" => v > seen[c]
                                     /\ next # None => v >= next
  PROVE  OnLadder(c)
<1> PICK count \in Count, l \in Ladder :
      /\ held' = [held EXCEPT ![c] = Batch(RoundUp(from, l[1], l[2]), count, l[1])]
      /\ ladder' = [ladder EXCEPT ![c] = l]
  BY DEF ReserveFrom
<1> DEFINE batch == Batch(RoundUp(from, l[1], l[2]), count, l[1])
<1>1. held'[c] = batch /\ ladder'[c] = l
  BY DEF TypeOK
<1>2. /\ \A v \in batch : v \in Id /\ v % l[1] = l[2] % l[1] /\ v >= from
      /\ \A v \in Id, h \in batch :
           v % l[1] = l[2] % l[1] /\ v >= from /\ v < h => v \in batch
  BY BatchIsARun
<1> HIDE DEF batch
<1> QED BY <1>1, <1>2, Zenon DEF OnLadder

(* Only a reservation gives ids to a session that holds none.              *)
LEMMA StepIsLeast ==
  IInv /\ [Next]_vars =>
    [\A c \in Conn : held[c] = {} /\ held'[c] # {} => OnLadder(c)]_vars
<1> SUFFICES ASSUME IInv, Next, NEW c \in Conn, held[c] = {}, held'[c] # {}
             PROVE  OnLadder(c)
  OBVIOUS
<1> USE DEF IInv, TypeOK
<1>1. CASE UNCHANGED held
  BY <1>1
<1>2. ASSUME NEW d \in Conn, NEW s, s \subseteq held[d],
             held' = [held EXCEPT ![d] = s]
      PROVE  FALSE
  BY <1>2
<1>3. ASSUME NEW d \in Conn, NEW from, ReserveFrom(d, from) PROVE d = c
  BY <1>3 DEF ReserveFrom
<1>4. ASSUME NEW d \in Conn, ConnStep(d) PROVE OnLadder(c)
  <2>1. CASE BeginTx(d) \/ StartStatement(d) \/ SelectMax(d) \/ EndTx(d)
    BY <1>1, <2>1 DEF BeginTx, StartStatement, SelectMax, EndTx
  <2>2. CASE Reserve(d)
    <3>1. pc[d] = "stmt" /\ next # None /\ ReserveFrom(d, next) /\ d = c
      BY <1>3, <2>2 DEF Reserve
    <3>2. next \in 0 .. U
      BY <3>1
    <3> QED BY <3>1, <3>2, ReserveFromIsLeast
  <2>3. CASE SeedAndReserve(d)
    <3> DEFINE from == Seeded(seen[d])
    <3>1. pc[d] = "seeding" /\ ReserveFrom(d, from) /\ d = c
      BY <1>3, <2>3 DEF SeedAndReserve
    <3>2. seen[d] \in 0 .. U - 1 /\ next \in (0 .. U) \cup {None}
      OBVIOUS
    <3>3. from \in 0 .. U
      BY <3>2, SeededRises, AutoIncrementConstants
    <3>4. \A v \in Id : v >= from <=> v > seen[d] /\ (next # None => v >= next)
      BY <3>2, AutoIncrementConstants DEF Id, Seeded
    <3> HIDE DEF from
    <3> QED BY <3>1, <3>3, <3>4, ReserveFromIsLeast
  <2>4. CASE WriteGenerated(d)
    <3>1. PICK v \in held[d] : held' = [held EXCEPT ![d] = @ \ {v}]
      BY <2>4 DEF WriteGenerated
    <3> QED BY <1>2, <3>1
  <2>5. ASSUME NEW v \in Id, WriteExplicit(d, v) PROVE OnLadder(c)
    <3>1. held' = [held EXCEPT ![d] = {n \in @ : n > v}]
      BY <2>5 DEF WriteExplicit
    <3> QED BY <1>2, <3>1
  <2>6. CASE EndStatement(d)
    BY <1>2, <2>6 DEF EndStatement
  <2>7. ASSUME NEW u \in Id, DeleteRow(d, u) PROVE OnLadder(c)
    BY <1>1, <2>7 DEF DeleteRow
  <2>8. ASSUME NEW u \in Id, NEW v \in Id, UpdateId(d, u, v) PROVE OnLadder(c)
    <3>1. held' = [held EXCEPT ![d] = {n \in @ : n > v}]
      BY <2>8 DEF UpdateId
    <3> QED BY <1>2, <3>1
  <2> QED BY <1>4, <2>1, <2>2, <2>3, <2>4, <2>5, <2>6, <2>7, <2>8 DEF ConnStep
<1>5. CASE DdlElsewhere \/ Truncate
  BY <1>1, <1>5 DEF DdlElsewhere, Truncate
<1>6. CASE Restart
  BY <1>6 DEF Restart
<1> QED BY <1>4, <1>5, <1>6 DEF Next

-----------------------------------------------------------------------------
(* The theorems.                                                           *)

(* The conjuncts of IInv hold together in every reachable state.           *)
THEOREM AutoIncrementInvariance == Spec => []IInv
BY InitInv, StepInv, PTL DEF Spec

(* ai_reserve, ai_seed_and_reserve, ai_note_explicit: the counter stays in *)
(* 0 .. UINT64_MAX and never wraps, and every id issued is in range.       *)
THEOREM CounterTyped == Spec => []TypeOK
<1>1. IInv => TypeOK
  BY DEF IInv
<1> QED BY <1>1, AutoIncrementInvariance, PTL

(* get_auto_increment: the counter is past every id committed, pending or  *)
(* reserved, by any number of sessions on any ladders, unless it was lost  *)
(* with ids outstanding, made low, or passed by an UPDATE.                 *)
THEOREM CounterPastIdsAlways == Spec => []CounterPastIds
<1>1. IInv => CounterPastIds
  BY DEF IInv
<1> QED BY <1>1, AutoIncrementInvariance, PTL

(* advance_after_reservation: an id reserved by one session is not         *)
(* reserved by, nor was generated for, another, unless the counter may be  *)
(* behind.                                                                 *)
THEOREM ReservedOnceAlways == Spec => []ReservedOnce
<1>1. IInv => ReservedOnce
  BY DEF IInv
<1> QED BY <1>1, AutoIncrementInvariance, PTL

(* ai_seed_and_reserve and ai_note_explicit only raise a counter that is   *)
(* there.                                                                  *)
THEOREM CounterOnlyRisesAlways == Spec => CounterOnlyRises
BY AutoIncrementInvariance, StepRises, PTL DEF Spec, CounterOnlyRises

(* round_up_to_modulus and the reservation loop: the ids of a reservation  *)
(* are the session's own ladder from the least id the counter, or the      *)
(* maximum found, has not passed, none between them left out.              *)
THEOREM LeastOnLadderAlways == Spec => LeastOnLadder
<1>1. [\A c \in Conn : held[c] = {} /\ held'[c] # {} => OnLadder(c)]_vars
        <=> [\A c \in Conn : held[c] = {} /\ held'[c] # {} =>
               LET past(v) == /\ pc[c] = "seeding" => v > seen[c]
                              /\ next # None => v >= next
                   step == ladder'[c][1]
                   rungs == {v \in Id : v % step = ladder'[c][2] % step}
                   fit == {v \in rungs : past(v)}
               IN  /\ held'[c] \subseteq rungs
                   /\ \A v \in fit, h \in held'[c] :
                        fit \cap held'[c] # {} /\ (v < h => v \in held'[c])]_vars
  BY DEF OnLadder
<1> QED BY <1>1, AutoIncrementInvariance, StepIsLeast, PTL DEF Spec, LeastOnLadder
=============================================================================
