---------------------------- MODULE MCIndexRead ----------------------------
(* Keys of two parts over every kind of column the code tells apart, each   *)
(* with two rows, and every lookup and range over their values; and of      *)
(* three parts, the second of which a WHERE holds constant.                 *)
EXTENDS IndexRead

V(pos, byte, pad) == [pos |-> pos, byte |-> byte, pad |-> pad]
Plain == [type |-> "int", binary |-> FALSE, binsort |-> FALSE, nopad |-> FALSE,
          hexmb |-> FALSE, prefix |-> FALSE, varchar |-> FALSE]
Str   == [Plain EXCEPT !.type = "str", !.varchar = TRUE]

Whole     == Plain
Dec     == [Plain EXCEPT !.type = "dec"]                      \* text: "10" < "9"
Ci      == Str
PadBin  == [Str EXCEPT !.binsort = TRUE]                      \* utf8mb4_bin
HexPad  == [PadBin EXCEPT !.varchar = FALSE]                  \* latin1_bin
NoPad   == [PadBin EXCEPT !.nopad = TRUE]                     \* utf8mb4_nopad_bin
Bytes   == [NoPad EXCEPT !.binary = TRUE, !.varchar = FALSE]  \* VARBINARY
HexWide == [NoPad EXCEPT !.hexmb = TRUE, !.varchar = FALSE]   \* utf16_nopad_bin
Prefix  == [NoPad EXCEPT !.prefix = TRUE]                     \* KEY (s(3))

Past == V(9, 9, 0)    \* 2^63, no value stoolap holds

ValuesOf(p) ==
  {NULL} \cup
  CASE p \in {Dec, HexWide} -> {V(1, 2, 0), V(2, 1, 0)}
    [] p = Ci -> {V(1, 1, 0), V(2, 2, 0), V(1, 3, 0)}               \* A B a
    [] p \in {PadBin, HexPad} -> {V(2, 1, 0), V(1, 2, 0), V(2, 3, 1)} \* a, a-tab, a-blank
    [] p = Prefix -> {V(1, 1, 0), V(1, 2, 0), V(2, 3, 0)}           \* abc abcd abd
    [] OTHER -> {V(1, 1, 0), V(2, 2, 0)}

(* The values a key can hold: of a prefix, those cut to it.                 *)
KeyValues(p) ==
  CASE p = Prefix -> {NULL, V(1, 1, 0), V(2, 3, 0)}
    [] p = Whole -> ValuesOf(p) \cup {Past}
    [] OTHER -> ValuesOf(p)

OneKey(p, q, u) == [parts |-> <<p, q>>, unique |-> u]
AllKeys ==
  {OneKey(p, Whole, FALSE) : p \in {Whole, Dec, Ci, PadBin, HexPad, NoPad, Bytes, HexWide, Prefix}}
  \cup {OneKey(Whole, p, FALSE) : p \in {Ci, PadBin, Dec}}
  \cup {OneKey(Whole, Whole, TRUE), OneKey(PadBin, Whole, TRUE)}

(* WHERE a > 1 AND b = ... ORDER BY a, c, on a key (a, b, c).               *)
LongKey(p) == [parts |-> <<Whole, p, Whole>>, unique |-> FALSE]
LongKeys == {LongKey(p) : p \in {Whole, Ci}}
KeysUsed == AllKeys \cup LongKeys

(* Two rows in either order, told apart by their ids; equal ones included.  *)
Code(r) == 100 * r[1].byte + r[2].byte
RowsFor(k) ==
  LET cells == IF k \in LongKeys
               THEN {V(2, 2, 0)} \X ValuesOf(k.parts[2]) \X ValuesOf(k.parts[3])
               ELSE ValuesOf(k.parts[1]) \X ValuesOf(k.parts[2])
  IN  {{[id |-> 1, k |-> r], [id |-> 2, k |-> s]} :
         <<r, s>> \in {x \in cells \X cells : Code(x[1]) <= Code(x[2])}}

Cuts(k) ==
  {<<v>> : v \in KeyValues(k.parts[1])}
  \cup {<<v, w>> : v \in KeyValues(k.parts[1]),
                  w \in IF k.unique THEN KeyValues(k.parts[2]) ELSE ValuesOf(k.parts[2])}

Bounds(k, flags) == {[flag |-> f, k |-> c] : f \in flags, c \in Cuts(k)}
Range(s, e, srt, held) ==
  [call |-> "range", start |-> s, end |-> e, sorted |-> srt, const |-> held]
Map(f, c) == [call |-> "map", flag |-> f, k |-> c]

(* Backward and open-ended lookups are the ones of MIN and MAX, on parts    *)
(* index_flags offers order on.                                             *)
Lookups(k) ==
  {Map("exact", c) : c \in Cuts(k)}
  \cup {Map(f, c) : f \in {"or next", "after", "or prev", "before"},
                    c \in {d \in Cuts(k) : \A i \in DOMAIN d :
                             k.parts[i] \in {Whole, NoPad, Bytes, PadBin, HexPad}}}
NotPast(s, e) ==
  \A i \in DOMAIN s.k \cap DOMAIN e.k :
    (\A j \in 1 .. i - 1 : s.k[j].pos = e.k[j].pos) => s.k[i].pos <= e.k[i].pos
Ranges(k) ==
  {Range(s, e, TRUE, {}) :
     s \in Bounds(k, {"or next", "after"}) \cup {None}, e \in Bounds(k, {"after", "before"})}
  \cup {Range(s, None, TRUE, {}) : s \in Bounds(k, {"or next", "after"})}
Equal(k) ==
  {Range([flag |-> "exact", k |-> c], [flag |-> "after", k |-> c], srt, {}) :
     c \in Cuts(k), srt \in BOOLEAN}
Held1(k) ==
  {Range(s, None, TRUE, {1}) : s \in Bounds(k, {"or next"})}

FirstReads == [k \in AllKeys |->
  [call : {"first", "last"}] \cup Lookups(k) \cup Equal(k) \cup Held1(k)
  \cup {r \in Ranges(k) : r.start = None \/ r.end = None \/ NotPast(r.start, r.end)}]
SecondReads == [k \in AllKeys |->
  IF ~k.unique THEN {} ELSE
  [call : {"first"}]
  \cup {Map("exact", <<CHOOSE v \in KeyValues(k.parts[1]) : v # NULL>>),
        Range(None, [flag |-> "after", k |-> <<NULL>>], TRUE, {})}]
LongReads ==
  {Range([flag |-> "after", k |-> <<V(1, 1, 0)>>], None, srt, held) :
     srt \in BOOLEAN, held \in SUBSET {2}}
  \cup {Range([flag |-> "or next", k |-> <<V(2, 2, 0), w>>], None, TRUE, {2}) :
         w \in {V(1, 1, 0), V(2, 2, 0)}}
ReadsFor(k, n) ==
  CASE k \in LongKeys -> IF n = 0 THEN LongReads ELSE {}
    [] n = 0 -> FirstReads[k]
    [] OTHER -> SecondReads[k]
=============================================================================
