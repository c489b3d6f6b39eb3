-------------------------- MODULE DirectModifyProofs --------------------------
(***************************************************************************)
(* The calls of a pushed UPDATE or DELETE, for every statement, every      *)
(* generator that is faithful (GeneratorIsFaithful of DirectModify) and    *)
(* everything other sessions commit between the calls.                     *)
(***************************************************************************)
EXTENDS DirectModify, FiniteSetTheorems, TLAPS

-----------------------------------------------------------------------------
(* The statement in one state of the tables.                               *)

LEMMA RowsFinite ==
  ASSUME NEW s \in Statement, NEW d \in TablesFor(s)
  PROVE  IsFiniteSet(DOMAIN d["t"])
<1>1. d["t"] \in Seq({d["t"][i] : i \in DOMAIN d["t"]})
  BY StatementsAndTables
<1>2. Len(d["t"]) \in Nat /\ DOMAIN d["t"] = 1 .. Len(d["t"])
  BY <1>1
<1> QED BY <1>2, FS_Interval

(* The counts of any outcome are numbers, and the changed rows are among   *)
(* the matched ones.                                                       *)
LEMMA OutcomeCounts ==
  ASSUME NEW m, NEW rows, NEW does, IsFiniteSet(DOMAIN rows)
  PROVE  /\ OutcomeOf(m, rows, does).matched \in Nat
         /\ OutcomeOf(m, rows, does).changed \in Nat
         /\ OutcomeOf(m, rows, does).changed <= OutcomeOf(m, rows, does).matched
         /\ m.cmd = "delete" =>
              OutcomeOf(m, rows, does).changed = OutcomeOf(m, rows, does).matched
<1> DEFINE taken   == {i \in DOMAIN rows : does[i].takes}
           changes == {i \in taken : m.cmd = "delete" \/ does[i].row # rows[i]}
<1>1. IsFiniteSet(taken)
  BY FS_Subset
<1>2. /\ IsFiniteSet(changes) /\ Cardinality(changes) <= Cardinality(taken)
  <2>1. changes \in SUBSET taken
    OBVIOUS
  <2> HIDE DEF taken, changes
  <2> QED BY <1>1, <2>1, FS_Subset
<1>3. Cardinality(taken) \in Nat /\ Cardinality(changes) \in Nat
  <2> HIDE DEF taken, changes
  <2> QED BY <1>1, <1>2, FS_CardinalityType
<1>4. m.cmd = "delete" => changes = taken
  OBVIOUS
<1>5. /\ OutcomeOf(m, rows, does).matched = Cardinality(taken)
      /\ OutcomeOf(m, rows, does).changed = Cardinality(changes)
  BY DEF OutcomeOf
<1> HIDE DEF taken, changes
<1> QED BY <1>2, <1>3, <1>4, <1>5

(* A set of which any two members are one has at most one.                 *)
LEMMA AtMostOne ==
  ASSUME NEW S, IsFiniteSet(S), \A i, j \in S : i = j
  PROVE  Cardinality(S) <= 1
<1>1. CASE S = {}
  BY <1>1, FS_EmptySet
<1>2. CASE S # {}
  <2>1. PICK x : x \in S
    BY <1>2
  <2>2. S = {x}
    BY <2>1
  <2> QED BY <2>2, FS_Singleton
<1> QED BY <1>1, <1>2

(* What a faithful generator gives of a whole statement.                   *)
LEMMA EngineLeavesWhatTheServerLeaves ==
  ASSUME NEW s \in Statement, NEW t \in BOOLEAN, NEW d \in TablesFor(s),
         Pushable(s, t, ModifyOf(s).where)
  PROVE  LET own    == ByServer(s, t, d)
             engine == ByEngine(s, t, d, ModifyOf(s).where)
         IN  /\ own.known
             /\ engine.errors = own.errors
             /\ own.errors = {} => engine.rows = own.rows
<1> DEFINE m == ModifyOf(s)
           rows == d["t"]
           own == ServerOn(s, t, d)
           engine == EngineOn(s, t, d, m.where, ChangedOnly(m))
<1>1. ModifiesAlike(s, t, d)
  BY GeneratorIsFaithful
<1>2. /\ \A i \in DOMAIN rows : own[i].known
      /\ \A i \in DOMAIN rows : engine[i].errors = own[i].errors
      /\ (\A i \in DOMAIN rows : own[i].errors = {}) => TakesAlike(m, rows, engine, own)
  BY <1>1 DEF ModifiesAlike
<1>3. m.cmd \in {"update", "delete"}
  BY StatementsAndTables
<1> HIDE DEF m, rows, own, engine
<1>4. ASSUME \A i \in DOMAIN rows : own[i].errors = {}
      PROVE  OutcomeOf(m, rows, engine).rows = OutcomeOf(m, rows, own).rows
  <2>1. \A i \in DOMAIN rows :
          /\ engine[i].takes <=> own[i].takes /\ (ChangedOnly(m) => own[i].row # rows[i])
          /\ engine[i].takes => engine[i].row = own[i].row
    BY <1>2, <1>4 DEF TakesAlike
  <2>2. CASE m.cmd = "delete"
    <3>1. {i \in DOMAIN rows : engine[i].takes} = {i \in DOMAIN rows : own[i].takes}
      BY <2>1, <2>2 DEF ChangedOnly
    <3> QED BY <2>2, <3>1 DEF OutcomeOf
  <2>3. CASE m.cmd # "delete"
    <3>1. \A i \in DOMAIN rows : (IF engine[i].takes THEN engine[i].row ELSE rows[i])
                                 = (IF own[i].takes THEN own[i].row ELSE rows[i])
      BY <2>1
    <3> QED BY <2>3, <3>1 DEF OutcomeOf
  <2> QED BY <2>2, <2>3
<1>5. /\ OutcomeOf(m, rows, own).known
      /\ OutcomeOf(m, rows, engine).errors = OutcomeOf(m, rows, own).errors
      /\ OutcomeOf(m, rows, own).errors = {} => \A i \in DOMAIN rows : own[i].errors = {}
  BY <1>2 DEF OutcomeOf
<1>6. /\ ByServer(s, t, d) = OutcomeOf(m, rows, own)
      /\ ByEngine(s, t, d, ModifyOf(s).where) = OutcomeOf(m, rows, engine)
  BY DEF ByServer, ByEngine, m, rows, own, engine
<1> QED BY <1>4, <1>5, <1>6

LEMMA EngineCountsWhatTheServerCounts ==
  ASSUME NEW s \in Statement, NEW t \in BOOLEAN, NEW d \in TablesFor(s),
         Pushable(s, t, ModifyOf(s).where)
  PROVE  LET own    == ByServer(s, t, d)
             engine == ByEngine(s, t, d, ModifyOf(s).where)
             m      == ModifyOf(s)
         IN  /\ own.matched \in Nat /\ own.changed \in Nat /\ own.changed <= own.matched
             /\ engine.matched \in Nat
             /\ m.cmd = "delete" => own.changed = own.matched
             /\ own.errors = {} =>
                  engine.matched = IF ChangedOnly(m) THEN own.changed ELSE own.matched
             /\ CountOn(s, t, d, m.where) = own.matched
             /\ OneRowFor(m.where) => own.matched <= 1
<1> DEFINE m == ModifyOf(s)
           rows == d["t"]
           own == ServerOn(s, t, d)
           engine == EngineOn(s, t, d, m.where, ChangedOnly(m))
           taken == {i \in DOMAIN rows : own[i].takes}
<1>1. ModifiesAlike(s, t, d)
  BY GeneratorIsFaithful
<1>2. /\ (\A i \in DOMAIN rows : own[i].errors = {}) => TakesAlike(m, rows, engine, own)
      /\ CountOn(s, t, d, m.where) = Cardinality(taken)
      /\ OneRowFor(m.where) => \A i, j \in DOMAIN rows : own[i].takes /\ own[j].takes => i = j
  BY <1>1 DEF ModifiesAlike
<1>3. IsFiniteSet(DOMAIN rows)
  BY RowsFinite
<1>4. m.cmd \in {"update", "delete"}
  BY StatementsAndTables
<1>5. /\ ByServer(s, t, d) = OutcomeOf(m, rows, own)
      /\ ByEngine(s, t, d, ModifyOf(s).where) = OutcomeOf(m, rows, engine)
  BY DEF ByServer, ByEngine
<1> HIDE DEF m, rows, own, engine
<1>6. ASSUME \A i \in DOMAIN rows : own[i].errors = {}
      PROVE  OutcomeOf(m, rows, engine).matched
               = IF ChangedOnly(m) THEN OutcomeOf(m, rows, own).changed
                 ELSE OutcomeOf(m, rows, own).matched
  <2>1. \A i \in DOMAIN rows :
          engine[i].takes <=> own[i].takes /\ (ChangedOnly(m) => own[i].row # rows[i])
    BY <1>2, <1>6 DEF TakesAlike
  <2>2. CASE ChangedOnly(m)
    <3>1. {i \in DOMAIN rows : engine[i].takes}
            = {i \in taken : m.cmd = "delete" \/ own[i].row # rows[i]}
      BY <2>1, <2>2 DEF ChangedOnly
    <3> QED BY <2>2, <3>1 DEF OutcomeOf
  <2>3. CASE ~ ChangedOnly(m)
    <3>1. {i \in DOMAIN rows : engine[i].takes} = taken
      BY <2>1, <2>3
    <3> QED BY <2>3, <3>1 DEF OutcomeOf
  <2> QED BY <2>2, <2>3
<1>7. /\ OutcomeOf(m, rows, own).matched = Cardinality(taken)
      /\ OutcomeOf(m, rows, own).errors = {} => \A i \in DOMAIN rows : own[i].errors = {}
  BY DEF OutcomeOf
<1>8. ASSUME OneRowFor(m.where) PROVE Cardinality(taken) <= 1
  <2>1. IsFiniteSet(taken)
    BY <1>3, FS_Subset
  <2>2. \A i, j \in taken : i = j
    BY <1>2, <1>8
  <2> HIDE DEF taken
  <2> QED BY <2>1, <2>2, AtMostOne
<1>9. /\ OutcomeOf(m, rows, own).matched \in Nat /\ OutcomeOf(m, rows, own).changed \in Nat
      /\ OutcomeOf(m, rows, own).changed <= OutcomeOf(m, rows, own).matched
      /\ m.cmd = "delete" =>
           OutcomeOf(m, rows, own).changed = OutcomeOf(m, rows, own).matched
      /\ OutcomeOf(m, rows, engine).matched \in Nat
  BY <1>3, OutcomeCounts
<1> HIDE DEF taken
<1> QED BY <1>2, <1>5, <1>6, <1>7, <1>8, <1>9 DEF m

(* An UPDATE of changed rows that changes none leaves the tables as they   *)
(* are, so that what is counted after it is what was found before.         *)
LEMMA NoneChanged ==
  ASSUME NEW s \in Statement, NEW t \in BOOLEAN, NEW d \in TablesFor(s),
         Pushable(s, t, ModifyOf(s).where), ChangedOnly(ModifyOf(s)),
         ByEngine(s, t, d, ModifyOf(s).where).matched = 0
  PROVE  [d EXCEPT !["t"] = ByEngine(s, t, d, ModifyOf(s).where).rows] = d
<1> DEFINE m == ModifyOf(s)
           rows == d["t"]
           engine == EngineOn(s, t, d, m.where, ChangedOnly(m))
           taken == {i \in DOMAIN rows : engine[i].takes}
<1>1. IsFiniteSet(DOMAIN rows) /\ m.cmd # "delete"
  BY RowsFinite DEF ChangedOnly
<1>2. "t" \in DOMAIN d /\ d = [x \in DOMAIN d |-> d[x]] /\ rows = [i \in DOMAIN rows |-> rows[i]]
  <2>1. d["t"] \in Seq({d["t"][i] : i \in DOMAIN d["t"]})
    BY StatementsAndTables
  <2>2. d["t"] = [i \in DOMAIN d["t"] |-> d["t"][i]]
    BY <2>1
  <2> QED BY <2>2, StatementsAndTables
<1>3. ByEngine(s, t, d, ModifyOf(s).where) = OutcomeOf(m, rows, engine)
  BY DEF ByEngine
<1> HIDE DEF m, rows, engine
<1>4. OutcomeOf(m, rows, engine).matched = Cardinality(taken)
  BY DEF OutcomeOf
<1>5. taken = {}
  <2>1. IsFiniteSet(taken)
    BY <1>1, FS_Subset
  <2> HIDE DEF taken
  <2> QED BY <1>3, <1>4, <2>1, FS_EmptySet
<1>6. OutcomeOf(m, rows, engine).rows = rows
  <2>1. OutcomeOf(m, rows, engine).rows = [i \in DOMAIN rows |-> rows[i]]
    BY <1>1, <1>5 DEF OutcomeOf
  <2> QED BY <1>2, <2>1
<1>7. [d EXCEPT !["t"] = rows] = d
  BY <1>2 DEF rows
<1> QED BY <1>3, <1>6, <1>7

-----------------------------------------------------------------------------
(* The invariant.                                                          *)

Running == {"count", "modify", "recount"}
Phases  == {"offered", "init", "stashed", "ended", "failed", "server"} \cup Running

(* The condition the statement runs with is the one the server dropped,    *)
(* and what runs was allowed.                                              *)
KeepsCondition ==
  /\ stmt \in Statement /\ trust \in BOOLEAN
  /\ cond = IF phase \in {"offered", "server"} THEN <<>> ELSE M.where
  /\ phase \in Running \/ (phase = "init" /\ M.where # <<>>) => Pushable(stmt, trust, M.where)
  /\ phase \in {"offered", "init"} \cup Running => data \in TablesFor(stmt)

(* What the condition takes now was taken in a state the client may be     *)
(* told of; what was counted before the statement is of such a state, of   *)
(* the only one there is when it runs in a transaction.                    *)
KnowsMatches ==
  /\ found \in Nat \cup {-1} /\ affected \in Nat /\ tx \in BOOLEAN
  /\ phase \in Running => ByServer(stmt, trust, data).matched \in matches
  /\ phase \in {"offered", "init", "count"} => found = -1
  /\ phase = "modify" /\ found # -1 =>
       found \in matches /\ (tx => found = ByServer(stmt, trust, data).matched)

(* What the statement returned is what the server would have counted in    *)
(* the state it ran in.                                                    *)
Answered ==
  /\ phase \in {"recount", "stashed", "ended"} =>
       affected = IF "foundrows" \in M.flags THEN server.matched ELSE server.changed
  /\ phase = "recount" /\ tx => server.matched = ByServer(stmt, trust, data).matched
  /\ phase \in {"stashed", "ended"} /\ found # -1 =>
       found \in matches /\ (tx => found = server.matched)
  /\ phase = "ended" => told = <<affected, IF found = -1 THEN affected ELSE found>>
  /\ phase # "ended" => told = <<>>

(* An error is raised when the statement fails, and one only.              *)
Raises ==
  /\ phase \in Phases
  /\ IF phase = "failed" THEN Len(raised) = 1 ELSE raised = <<>>

IInv == KeepsCondition /\ KnowsMatches /\ Answered /\ Raises

LEMMA InitSound == Init => IInv
<1> SUFFICES ASSUME Init PROVE IInv
  OBVIOUS
<1>1. KeepsCondition
  BY DEF Init, KeepsCondition, Running
<1>2. KnowsMatches
  BY DEF Init, KnowsMatches, Running
<1>3. Answered
  BY DEF Init, Answered
<1>4. Raises
  BY DEF Init, Raises, Phases
<1> QED BY <1>1, <1>2, <1>3, <1>4 DEF IInv

LEMMA CondPushSound == IInv /\ CondPush => IInv'
<1> SUFFICES ASSUME IInv, CondPush PROVE IInv'
  OBVIOUS
<1>1. /\ phase = "offered" /\ phase' \in {"init", "server"}
      /\ cond = <<>> /\ cond' = IF phase' = "server" THEN <<>> ELSE M.where
      /\ phase' = "init" /\ M.where # <<>> => Pushable(stmt, trust, M.where)
      /\ UNCHANGED <<trust, data, stmt, tx, found, affected, told, raised, matches, server>>
  BY DEF IInv, CondPush, KeepsCondition, TakesCondition
<1>2. KeepsCondition'
  BY <1>1 DEF IInv, KeepsCondition, Running, M
<1>3. KnowsMatches'
  BY <1>1 DEF IInv, KnowsMatches, Running
<1>4. Answered' /\ Raises'
  BY <1>1 DEF IInv, Answered, Raises, Phases, Running
<1> QED BY <1>2, <1>3, <1>4 DEF IInv

LEMMA DirectInitSound == IInv /\ DirectInit => IInv'
<1> SUFFICES ASSUME IInv, DirectInit PROVE IInv'
  OBVIOUS
<1>1. /\ phase = "init" /\ cond = M.where /\ cond' = cond
      /\ phase' = IF Pushable(stmt, trust, M.where) THEN "count" ELSE "server"
      /\ M.where # <<>> => Pushable(stmt, trust, M.where)
      /\ matches' = {ByServer(stmt, trust, data).matched}
      /\ UNCHANGED <<trust, data, stmt, tx, found, affected, told, raised, server>>
  BY DEF IInv, DirectInit, KeepsCondition, Running
<1>2. KeepsCondition'
  BY <1>1 DEF IInv, KeepsCondition, Running, M
<1>3. KnowsMatches'
  BY <1>1 DEF IInv, KnowsMatches, Running
<1>4. Answered' /\ Raises'
  BY <1>1 DEF IInv, Answered, Raises, Phases, Running
<1> QED BY <1>2, <1>3, <1>4 DEF IInv

(* What the running statement knows of its table.                          *)
LEMMA WhileRunning ==
  ASSUME IInv, phase \in Running
  PROVE  LET own    == ByServer(stmt, trust, data)
             engine == ByEngine(stmt, trust, data, cond)
         IN  /\ cond = M.where /\ own.matched \in matches
             /\ own.known
             /\ engine.errors = own.errors
             /\ own.errors = {} => engine.rows = own.rows
             /\ own.matched \in Nat /\ own.changed \in Nat /\ own.changed <= own.matched
             /\ engine.matched \in Nat
             /\ M.cmd = "delete" => own.changed = own.matched
             /\ own.errors = {} =>
                  engine.matched = IF ChangedOnly(M) THEN own.changed ELSE own.matched
             /\ CountOn(stmt, trust, data, cond) = own.matched
             /\ OneRowFor(cond) => own.matched <= 1
             /\ ChangedOnly(M) /\ engine.matched = 0 =>
                  [data EXCEPT !["t"] = engine.rows] = data
<1>1. /\ stmt \in Statement /\ trust \in BOOLEAN /\ data \in TablesFor(stmt)
      /\ cond = ModifyOf(stmt).where /\ Pushable(stmt, trust, ModifyOf(stmt).where)
      /\ ByServer(stmt, trust, data).matched \in matches
  BY DEF IInv, KeepsCondition, KnowsMatches, Running, M
<1>2. LET own    == ByServer(stmt, trust, data)
          engine == ByEngine(stmt, trust, data, ModifyOf(stmt).where)
      IN  /\ own.known
          /\ engine.errors = own.errors
          /\ own.errors = {} => engine.rows = own.rows
  BY <1>1, EngineLeavesWhatTheServerLeaves
<1>3. LET own    == ByServer(stmt, trust, data)
          engine == ByEngine(stmt, trust, data, ModifyOf(stmt).where)
          m      == ModifyOf(stmt)
      IN  /\ own.matched \in Nat /\ own.changed \in Nat /\ own.changed <= own.matched
          /\ engine.matched \in Nat
          /\ m.cmd = "delete" => own.changed = own.matched
          /\ own.errors = {} =>
               engine.matched = IF ChangedOnly(m) THEN own.changed ELSE own.matched
          /\ CountOn(stmt, trust, data, m.where) = own.matched
          /\ OneRowFor(m.where) => own.matched <= 1
  BY <1>1, EngineCountsWhatTheServerCounts
<1>4. ChangedOnly(ModifyOf(stmt)) /\ ByEngine(stmt, trust, data, ModifyOf(stmt).where).matched = 0
        => [data EXCEPT !["t"] = ByEngine(stmt, trust, data, ModifyOf(stmt).where).rows] = data
  BY <1>1, NoneChanged
<1> QED BY <1>1, <1>2, <1>3, <1>4 DEF M

LEMMA CountFirstSound == IInv /\ CountFirst => IInv'
<1> SUFFICES ASSUME IInv, CountFirst PROVE IInv'
  OBVIOUS
<1>1. /\ phase = "count" /\ phase' = "modify"
      /\ found' = found \/ found' = -1 \/ found' = CountOn(stmt, trust, data, cond)
      /\ UNCHANGED <<trust, data, stmt, tx, cond, affected, told, raised, matches, server>>
  BY DEF CountFirst
<1>2. /\ CountOn(stmt, trust, data, cond) = ByServer(stmt, trust, data).matched
      /\ ByServer(stmt, trust, data).matched \in matches
      /\ ByServer(stmt, trust, data).matched \in Nat
  BY <1>1, WhileRunning DEF Running
<1>3. KeepsCondition'
  BY <1>1 DEF IInv, KeepsCondition, Running, M
<1>4. KnowsMatches'
  <2>1. ByServer(stmt, trust, data)' = ByServer(stmt, trust, data)
    BY <1>1
  <2> QED BY <1>1, <1>2, <2>1 DEF IInv, KnowsMatches, Running
<1>5. Answered' /\ Raises'
  BY <1>1 DEF IInv, Answered, Raises, Phases, Running
<1> QED BY <1>3, <1>4, <1>5 DEF IInv

(* Whatever stoolap's error, one of report_stoolap_error and               *)
(* try_direct_modify raises it.                                            *)
LEMMA OneRaises ==
  ASSUME NEW class \in ErrorClasses
  PROVE  /\ Len(ReportError(class) \o DirectRaise(class)) = 1
         /\ ReportError(class) \o DirectRaise(class) # <<"strict">>
<1>1. CASE class \in HandlerErrors
  <2>1. ReportError(class) = <<>> /\ DirectRaise(class) = <<class>> /\ class # "strict"
    BY <1>1 DEF HandlerErrors, HaErrorOf, ReportError, DirectRaise
  <2>2. ReportError(class) \o DirectRaise(class) = <<class>>
    BY <2>1
  <2> QED BY <2>1, <2>2
<1>2. CASE class \notin HandlerErrors
  <2>1. ReportError(class) = <<"getErrmsg">> /\ DirectRaise(class) = <<>>
    BY <1>2 DEF ErrorClasses, HandlerErrors, HaErrorOf, ReportError, DirectRaise
  <2>2. ReportError(class) \o DirectRaise(class) = <<"getErrmsg">>
    BY <2>1
  <2> QED BY <2>2
<1> QED BY <1>1, <1>2

(* The ways a pushed statement goes.                                       *)
LEMMA ModifyCases ==
  ASSUME IInv, Modify
  PROVE  LET own    == ByServer(stmt, trust, data)
             engine == ByEngine(stmt, trust, data, cond)
         IN  \/ /\ phase' = "failed" /\ Len(raised') = 1
                /\ UNCHANGED <<data, found, affected>>
                /\ raised' = <<"strict">> => "strict" \in own.errors
             \/ /\ own.errors = {} /\ phase' \in {"stashed", "recount"}
                /\ data' = [data EXCEPT !["t"] = own.rows]
                /\ affected' = engine.matched /\ raised' = raised
                /\ phase' = "recount" =>
                     ChangedOnly(M) /\ engine.matched = 0 /\ found' = found
                /\ phase' = "stashed" =>
                     \/ found' = found
                     \/ /\ ChangedOnly(M) /\ OneRowFor(cond)
                        /\ engine.matched > 0 /\ found' = engine.matched
<1> DEFINE own    == ByServer(stmt, trust, data)
           engine == ByEngine(stmt, trust, data, cond)
<1>1. /\ engine.errors = own.errors
      /\ own.errors = {} => engine.rows = own.rows
      /\ engine.matched \in Nat
  BY WhileRunning DEF Modify, Running
<1>2. Modified(engine)
  BY DEF Modify
<1> HIDE DEF own, engine
<1>3. CASE GuardOverflow(engine) /\ StrictError
  <2>1. phase' = "failed" /\ raised' = <<"strict">> /\ UNCHANGED <<data, found, affected>>
    BY <1>3 DEF StrictError
  <2>2. Len(raised') = 1
    BY <2>1
  <2>3. "strict" \in own.errors
    BY <1>1, <1>3 DEF GuardOverflow
  <2> QED BY <2>1, <2>2, <2>3 DEF own, engine
<1>4. CASE \E class \in ErrorClasses : Refused(class)
  <2>1. PICK class \in ErrorClasses : Refused(class)
    BY <1>4
  <2>2. /\ phase' = "failed" /\ raised' = ReportError(class) \o DirectRaise(class)
        /\ UNCHANGED <<data, found, affected>>
    BY <2>1 DEF Refused
  <2> QED BY <2>2, OneRaises DEF own, engine
<1>5. CASE engine.errors = {} /\ Wrote(engine)
  <2>1. /\ data' = [data EXCEPT !["t"] = engine.rows]
        /\ affected' = engine.matched
        /\ IF ChangedOnly(M) /\ OneRowFor(cond)
             THEN IF engine.matched > 0 THEN found' = engine.matched /\ phase' = "stashed"
                  ELSE found' = found /\ phase' = "recount"
             ELSE found' = found /\ phase' = "stashed"
        /\ UNCHANGED raised
    BY <1>5 DEF Wrote
  <2>2. ~ (engine.matched > 0) => engine.matched = 0
    BY <1>1
  <2> QED BY <1>1, <1>5, <2>1, <2>2 DEF own, engine
<1> QED BY <1>2, <1>3, <1>4, <1>5 DEF Modified

LEMMA ModifySound == IInv /\ Modify => IInv'
<1> SUFFICES ASSUME IInv, Modify PROVE IInv'
  OBVIOUS
<1> DEFINE own    == ByServer(stmt, trust, data)
           engine == ByEngine(stmt, trust, data, cond)
<1>1. /\ phase = "modify" /\ server' = [matched |-> own.matched, changed |-> own.changed]
      /\ UNCHANGED <<trust, stmt, tx, cond, told, matches>>
  BY DEF Modify, Counts
<1>2. /\ cond = M.where /\ own.matched \in matches
      /\ own.matched \in Nat /\ own.changed \in Nat /\ own.changed <= own.matched
      /\ engine.matched \in Nat
      /\ M.cmd = "delete" => own.changed = own.matched
      /\ own.errors = {} => engine.matched = IF ChangedOnly(M) THEN own.changed ELSE own.matched
      /\ own.errors = {} => engine.rows = own.rows
      /\ OneRowFor(cond) => own.matched <= 1
      /\ ChangedOnly(M) /\ engine.matched = 0 => [data EXCEPT !["t"] = engine.rows] = data
  BY <1>1, WhileRunning DEF Running
<1>3. /\ found \in Nat \cup {-1} /\ tx \in BOOLEAN /\ affected \in Nat
      /\ found # -1 => found \in matches /\ (tx => found = own.matched)
      /\ told = <<>> /\ raised = <<>> /\ stmt \in Statement /\ trust \in BOOLEAN
      /\ Pushable(stmt, trust, M.where) /\ data \in TablesFor(stmt)
  BY <1>1 DEF IInv, KnowsMatches, Answered, Raises, KeepsCondition, Running
<1>4. M.cmd \in {"update", "delete"}
  BY <1>3, StatementsAndTables DEF M
<1>5. M' = M
  BY <1>1 DEF M
<1>6. CASE phase' = "failed" /\ Len(raised') = 1 /\ UNCHANGED <<data, found, affected>>
  <2> HIDE DEF own, engine
  <2>1. KeepsCondition'
    BY <1>1, <1>2, <1>3, <1>5, <1>6 DEF KeepsCondition, Running
  <2>2. KnowsMatches'
    BY <1>1, <1>3, <1>6 DEF KnowsMatches, Running
  <2>3. Answered' /\ Raises'
    BY <1>1, <1>3, <1>6 DEF Answered, Raises, Phases
  <2> QED BY <2>1, <2>2, <2>3 DEF IInv
<1>7. CASE /\ own.errors = {} /\ phase' \in {"stashed", "recount"}
           /\ data' = [data EXCEPT !["t"] = own.rows]
           /\ affected' = engine.matched /\ raised' = raised
           /\ phase' = "recount" => ChangedOnly(M) /\ engine.matched = 0 /\ found' = found
           /\ phase' = "stashed" =>
                \/ found' = found
                \/ /\ ChangedOnly(M) /\ OneRowFor(cond)
                   /\ engine.matched > 0 /\ found' = engine.matched
  <2>1. phase' = "recount" => data' = data
    BY <1>2, <1>7
  <2>2. phase' = "recount" => ByServer(stmt, trust, data)' = own
    BY <1>1, <2>1
  <2> HIDE DEF own, engine
  <2>3. phase' = "stashed" /\ found' # found => found' = own.matched
    BY <1>2, <1>7
  <2>4. affected' = IF "foundrows" \in M.flags THEN server'.matched ELSE server'.changed
    <3>1. engine.matched = IF ChangedOnly(M) THEN own.changed ELSE own.matched
      BY <1>2, <1>7
    <3> QED BY <1>1, <1>2, <1>4, <1>7, <3>1 DEF ChangedOnly
  <2>5. KeepsCondition'
    BY <1>1, <1>2, <1>3, <1>5, <1>7, <2>1 DEF KeepsCondition, Running
  <2>6. KnowsMatches'
    <3>1. found' \in Nat \cup {-1} /\ affected' \in Nat
      BY <1>2, <1>3, <1>7, <2>3
    <3>2. phase' = "recount" => own.matched \in matches'
      BY <1>1, <1>2
    <3> QED BY <1>1, <1>3, <1>7, <2>2, <3>1, <3>2 DEF KnowsMatches, Running
  <2>7. Answered'
    BY <1>1, <1>2, <1>3, <1>5, <1>7, <2>2, <2>3, <2>4 DEF Answered
  <2>8. Raises'
    BY <1>3, <1>7 DEF Raises, Phases, Running
  <2> QED BY <2>5, <2>6, <2>7, <2>8 DEF IInv
<1> QED BY <1>6, <1>7, ModifyCases

LEMMA RecountSound == IInv /\ Recount => IInv'
<1> SUFFICES ASSUME IInv, Recount PROVE IInv'
  OBVIOUS
<1>1. /\ phase = "recount" /\ phase' = "stashed"
      /\ found' = -1 \/ found' = CountOn(stmt, trust, data, cond)
      /\ UNCHANGED <<trust, data, stmt, tx, cond, affected, told, raised, matches, server>>
  BY DEF Recount
<1>2. /\ CountOn(stmt, trust, data, cond) = ByServer(stmt, trust, data).matched
      /\ ByServer(stmt, trust, data).matched \in matches
      /\ ByServer(stmt, trust, data).matched \in Nat
  BY <1>1, WhileRunning DEF Running
<1>3. KeepsCondition'
  BY <1>1 DEF IInv, KeepsCondition, Running, M
<1>4. KnowsMatches'
  BY <1>1, <1>2 DEF IInv, KnowsMatches, Running
<1>5. Answered'
  BY <1>1, <1>2 DEF IInv, Answered, M
<1>6. Raises'
  BY <1>1 DEF IInv, Raises, Phases
<1> QED BY <1>3, <1>4, <1>5, <1>6 DEF IInv

LEMMA ReturnSound == IInv /\ Return => IInv'
<1> SUFFICES ASSUME IInv, Return PROVE IInv'
  OBVIOUS
<1>1. /\ phase = "stashed" /\ phase' = "ended"
      /\ told' = <<affected, IF found = -1 THEN affected ELSE found>>
      /\ UNCHANGED <<trust, data, stmt, tx, cond, found, affected, raised, matches, server>>
  BY DEF Return
<1>2. KeepsCondition'
  BY <1>1 DEF IInv, KeepsCondition, Running, M
<1>3. KnowsMatches'
  BY <1>1 DEF IInv, KnowsMatches, Running
<1>4. Answered'
  BY <1>1 DEF IInv, Answered, M
<1>5. Raises'
  BY <1>1 DEF IInv, Raises, Phases
<1> QED BY <1>2, <1>3, <1>4, <1>5 DEF IInv

(* A commit of others adds a state the client may be told of, and takes    *)
(* none away; a transaction does not see it.                               *)
LEMMA OtherCommitsSound == IInv /\ OtherCommits => IInv'
<1> SUFFICES ASSUME IInv, OtherCommits PROVE IInv'
  OBVIOUS
<1>1. /\ phase \in Running /\ ~ tx /\ data' \in TablesFor(stmt)
      /\ matches' = matches \cup {ByServer(stmt, trust, data').matched}
      /\ UNCHANGED <<trust, stmt, tx, phase, cond, found, affected, told, raised, server>>
  BY DEF OtherCommits, Running
<1>2. KeepsCondition'
  BY <1>1 DEF IInv, KeepsCondition, Running, M
<1>3. KnowsMatches'
  <2>1. ByServer(stmt, trust, data)'.matched \in matches'
    BY <1>1
  <2> QED BY <1>1, <2>1 DEF IInv, KnowsMatches, Running
<1>4. Answered'
  BY <1>1 DEF IInv, Answered, M, Running
<1>5. Raises'
  BY <1>1 DEF IInv, Raises, Phases
<1> QED BY <1>2, <1>3, <1>4, <1>5 DEF IInv

LEMMA StutterSound == IInv /\ UNCHANGED vars => IInv'
<1> SUFFICES ASSUME IInv, UNCHANGED vars PROVE IInv'
  OBVIOUS
<1>1. UNCHANGED <<trust, data, stmt, tx, phase, cond, found, affected, told, raised, matches, server>>
  BY DEF vars
<1>2. KeepsCondition'
  BY <1>1 DEF IInv, KeepsCondition, Running, M
<1>3. KnowsMatches'
  BY <1>1 DEF IInv, KnowsMatches, Running
<1>4. Answered'
  BY <1>1 DEF IInv, Answered, M
<1>5. Raises'
  BY <1>1 DEF IInv, Raises, Phases
<1> QED BY <1>2, <1>3, <1>4, <1>5 DEF IInv

LEMMA NextSound == IInv /\ [Next]_vars => IInv'
<1> SUFFICES ASSUME IInv, [Next]_vars PROVE IInv'
  OBVIOUS
<1>1. CASE CondPush
  BY <1>1, CondPushSound
<1>2. CASE DirectInit
  BY <1>2, DirectInitSound
<1>3. CASE CountFirst
  BY <1>3, CountFirstSound
<1>4. CASE Modify
  BY <1>4, ModifySound
<1>5. CASE Recount
  BY <1>5, RecountSound
<1>6. CASE Return
  BY <1>6, ReturnSound
<1>7. CASE OtherCommits
  BY <1>7, OtherCommitsSound
<1>8. CASE UNCHANGED vars
  BY <1>8, StutterSound
<1> QED BY <1>1, <1>2, <1>3, <1>4, <1>5, <1>6, <1>7, <1>8 DEF Next

-----------------------------------------------------------------------------
(* The theorems.                                                           *)

(* try_direct_modify, cond_push and direct_*_rows keep the invariant.      *)
THEOREM DirectModifyInvariance == Spec => []IInv
<1>1. Init => IInv
  BY InitSound
<1>2. IInv /\ [Next]_vars => IInv'
  BY NextSound
<1> QED BY <1>1, <1>2, PTL DEF Spec

(* Types, and that counts are stashed and errors raised only where the     *)
(* calls do so.                                                            *)
THEOREM TypeCorrect == Spec => []TypeOK
<1>1. IInv => TypeOK
  <2> SUFFICES ASSUME IInv PROVE TypeOK
    OBVIOUS
  <2>1. tx \in BOOLEAN /\ found \in Nat \cup {-1} /\ affected \in Nat
    BY DEF IInv, KnowsMatches
  <2>2. phase \in Phases /\ (raised # <<>> => phase = "failed")
    BY DEF IInv, Raises
  <2>3. phase = "ended" <=> told # <<>>
    <3>1. /\ phase = "ended" => told = <<affected, IF found = -1 THEN affected ELSE found>>
          /\ phase # "ended" => told = <<>>
      BY DEF IInv, Answered
    <3>2. \A x, y : <<x, y>> # <<>>
      OBVIOUS
    <3> QED BY <3>1, <3>2
  <2> QED BY <2>1, <2>2, <2>3 DEF TypeOK, Phases, Running
<1> QED BY <1>1, DirectModifyInvariance, PTL

(* cond_push takes a condition only if direct_*_rows_init will accept it,  *)
(* so a condition the server no longer has is always run.                  *)
THEOREM TakenConditionAlwaysRuns == Spec => []TakenConditionRuns
<1>1. IInv => TakenConditionRuns
  BY DEF IInv, KeepsCondition, TakenConditionRuns
<1> QED BY <1>1, DirectModifyInvariance, PTL

(* The counts pre_direct_*_rows stashes and direct_*_rows returns.         *)
THEOREM CountsAlwaysHonest == Spec => []CountsAreHonest
<1>1. IInv => CountsAreHonest
  <2> SUFFICES ASSUME IInv, phase = "ended"
               PROVE  /\ told[1] = IF "foundrows" \in M.flags THEN server.matched
                                   ELSE server.changed
                      /\ tx /\ found # -1 => told[2] = server.matched
                      /\ M.cmd = "update" => \/ told[2] \in matches
                                             \/ found = -1 /\ told[2] = told[1]
    BY DEF CountsAreHonest
  <2>1. /\ told = <<affected, IF found = -1 THEN affected ELSE found>>
        /\ affected = IF "foundrows" \in M.flags THEN server.matched ELSE server.changed
        /\ found # -1 => found \in matches /\ (tx => found = server.matched)
    BY DEF IInv, Answered
  <2>2. told[1] = affected /\ told[2] = IF found = -1 THEN affected ELSE found
    BY <2>1
  <2> QED BY <2>1, <2>2
<1> QED BY <1>1, DirectModifyInvariance, PTL

(* A failed pushed statement raises one error, whatever its class.         *)
THEOREM OneErrorAlwaysRaised == Spec => []OneErrorRaised
<1>1. IInv => OneErrorRaised
  BY DEF IInv, Raises, OneErrorRaised
<1> QED BY <1>1, DirectModifyInvariance, PTL

(* The statement stoolap ran left the server's rows, or failed and left    *)
(* them as they were: always where the server's would fail, and with the   *)
(* strict-mode error only where that is the server's.  The condition it    *)
(* ran with is still the server's, and it ran on rows the generator is     *)
(* faithful for.                                                           *)
THEOREM AlwaysModifiesAsTheServer == Spec => ModifiesAsTheServer
<1>1. IInv /\ [Next]_vars =>
        [phase = "modify" /\ phase' # "modify" => LeavesWhat(ByServer(stmt, trust, data))]_vars
  <2> SUFFICES ASSUME IInv, Next, phase = "modify", phase' # "modify"
               PROVE  LeavesWhat(ByServer(stmt, trust, data))
    OBVIOUS
  <2>1. Modify
    BY DEF Next, CondPush, DirectInit, CountFirst, Recount, Return, OtherCommits
  <2>2. ByServer(stmt, trust, data).known
    BY WhileRunning DEF Running
  <2>3. "t" \in DOMAIN data
    BY StatementsAndTables DEF IInv, KeepsCondition, Running
  <2>4. raised = <<>>
    BY DEF IInv, Raises
  <2> QED BY <2>1, <2>2, <2>3, <2>4, ModifyCases DEF LeavesWhat
<1> QED BY <1>1, DirectModifyInvariance, PTL DEF Spec, ModifiesAsTheServer
===============================================================================
