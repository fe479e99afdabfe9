----------------------- MODULE OnConnectRefinesProofs -----------------------
(***************************************************************************)
(* What becomes of the cache entries, for any number of threads, keys and  *)
(* responses: an entry that was found is still there when it is read, a    *)
(* response is saved before it is sent, and the connection threads         *)
(* implement CachingProxy.  All of it up to the first text whose quotes    *)
(* make a different statement.                                             *)
(***************************************************************************)
EXTENDS OnConnectRefines, OnConnectProofs

\* A NULL in a result damages nothing but what may be relied on.
OnlyDamages ==
  intact' = FALSE /\ UNCHANGED <<rows, errCode, qpc, sql, stmtRc, cursor, results>>

\* Every step makes at most one call into sqlite3, or restarts the process, or
\* fails at a NULL.
LEMMA DbSteps ==
  ASSUME IInv, [Next]_vars
  PROVE  \/ UNCHANGED dbVars \/ Restart \/ \E t \in Threads : DbCall(t)
         \/ OnlyDamages
<1>1. TypeOK
  BY DEF IInv
<1>2. CASE UNCHANGED vars
  BY <1>2 DEF vars
<1>3. ASSUME NEW t \in Threads, NoSqlite(t) PROVE UNCHANGED dbVars
  BY <1>1, <1>3, NoSqliteFrame
<1>4. ASSUME NEW t \in Threads, Check(t) \/ Get(t) \/ Store(t) PROVE DbCall(t)
  <2>1. PICK s : Calls(t, s) /\ Prepare(t, s)
    <3>1. CASE Check(t)
      BY <3>1 DEF Check, containsHostPathCache, Calls
    <3>2. CASE Get(t)
      BY <3>2 DEF Get, getCache, Calls
    <3>3. CASE Store(t)
      BY <3>3 DEF Store, updateCache, insertCache, Calls
    <3> QED
      BY <1>4, <3>1, <3>2, <3>3
  <2>2. s \in Statements
    BY <2>1, CallsFacts
  <2> QED
    BY <2>1, <2>2 DEF DbCall
<1>5. ASSUME NEW t \in Threads, Sqlite(t) \/ QueryEnds(t) PROVE DbCall(t)
  BY <1>1, <1>5, QueryEndsFrame DEF Sqlite, DbCall
<1>6. Tick => UNCHANGED dbVars
  BY DEF Tick
<1>8. ASSUME NEW t \in Threads, NullColumn(t) PROVE OnlyDamages
  BY <1>8 DEF NullColumn, OnlyDamages
<1>7. CASE Next
  BY <1>3, <1>4, <1>5, <1>6, <1>7, <1>8, NextKinds
<1> QED
  BY <1>2, <1>7

\* Every reachable state satisfies StatementsOK.
LEMMA StatementsInvariance == Spec => []StatementsOK
<1>1. Init => StatementsOK
  BY DEF Init, DbOpened, StatementsOK, StatementFor
<1>2. IInv /\ StatementsOK /\ [Next]_vars => StatementsOK'
  <2> SUFFICES ASSUME IInv, StatementsOK, [Next]_vars PROVE StatementsOK'
    OBVIOUS
  <2>1. CASE UNCHANGED dbVars
    BY <2>1 DEF dbVars, StatementsOK, StatementFor, OwnFailure, WellFormed
  <2>2. CASE Restart
    BY <2>2 DEF Restart, StatementsOK, StatementFor
  <2>3. ASSUME NEW t \in Threads, DbCall(t) PROVE StatementsOK'
    BY <2>3, StatementsKept DEF IInv, TypeOK
  <2>4. CASE OnlyDamages
    BY <2>4 DEF OnlyDamages, StatementsOK, StatementFor, OwnFailure, WellFormed
  <2> QED
    BY <2>1, <2>2, <2>3, <2>4, DbSteps
<1> QED
  BY <1>1, <1>2, Invariance, PTL DEF Spec

----------------------------------------------------------------------------
(* Rows are never lost, as long as every statement is the one that was meant. *)

\* A write appends a row or rewrites rows in place.
LEMMA WriteKeeps ==
  ASSUME IInv, NEW t \in Threads, Step(t), StepWrite(t)
  PROVE  /\ rows' \in Seq(Rows)
         /\ Len(rows') >= Len(rows)
         /\ DOMAIN rows \subseteq DOMAIN rows'
         /\ \A i \in DOMAIN rows : rows'[i].key = rows[i].key /\ rows'[i].by = rows[i].by
<1>1. rows \in Seq(Rows) /\ sql[t] \in Statements
  BY CallsFacts DEF Step, IInv, StatementMatches, TypeOK, DbTypeOK
<1> DEFINE new == rows'
<1>2. CASE sql[t].op = "insert"
  <2>1. new = Inserted(t, sql[t])
    BY <1>2 DEF StepWrite, StepDone
  <2> HIDE DEF new
  <2>2. /\ new \in Seq(Rows) /\ Len(new) = Len(rows) + 1
        /\ \A i \in DOMAIN rows : new[i] = rows[i]
    <3> DEFINE ins == Inserted(t, sql[t])
    <3>1. /\ ins \in Seq(Rows) /\ Len(ins) = Len(rows) + 1
          /\ \A i \in DOMAIN rows : ins[i] = rows[i]
      BY <1>1, <1>2, InsertedFacts
    <3> HIDE DEF ins
    <3> QED
      BY <2>1, <3>1, Zenon DEF ins
  <2>3. Len(new) >= Len(rows) /\ DOMAIN rows \subseteq DOMAIN new
    BY <1>1, <2>2
  <2> QED
    BY <2>2, <2>3 DEF new
<1>3. CASE sql[t].op = "update"
  <2>1. new = Updated(sql[t])
    BY <1>3 DEF StepWrite, StepDone
  <2>2. /\ new \in Seq(Rows) /\ Len(new) = Len(rows) /\ DOMAIN new = DOMAIN rows
        /\ \A i \in DOMAIN rows : new[i].key = rows[i].key /\ new[i].by = rows[i].by
    BY <1>1, <1>3, <2>1, UpdatedFacts
  <2> HIDE DEF new
  <2>3. Len(new) >= Len(rows)
    BY <1>1, <2>2
  <2> QED
    BY <2>2, <2>3 DEF new
<1> QED
  BY <1>2, <1>3 DEF StepWrite

\* Only a write changes the table.
LEMMA RowsChange ==
  ASSUME IInv, [Next]_vars, intact'
  PROVE  rows' = rows \/ \E t \in Threads : Step(t) /\ StepWrite(t)
<1>1. CASE UNCHANGED dbVars \/ Restart
  BY <1>1 DEF dbVars, Restart
<1>2. ASSUME NEW t \in Threads, DbCall(t), ~(Step(t) /\ StepWrite(t)) PROVE rows' = rows
  BY <1>2, StepMeant
  DEF DbCall, Prepare, StepCount, StepSelect, StepRow, StepDone, StepFault, Finalize,
      QueryReturn, QueryThrow
<1> QED
  BY <1>1, <1>2, DbSteps DEF OnlyDamages

\* The table only grows, and a row keeps its key.
LEMMA RowsGrow ==
  ASSUME IInv, [Next]_vars, intact'
  PROVE  /\ Len(rows') >= Len(rows)
         /\ DOMAIN rows \subseteq DOMAIN rows'
         /\ \A i \in DOMAIN rows : rows'[i].key = rows[i].key /\ rows'[i].by = rows[i].by
<1>1. CASE rows' = rows
  BY <1>1 DEF IInv, TypeOK, DbTypeOK
<1> QED
  BY <1>1, RowsChange, WriteKeeps

\* So a key that is in the cache stays there.
LEMMA KeyStays ==
  ASSUME IInv, [Next]_vars, intact', NEW k, RowsOf(k) # {}
  PROVE  RowsOf(k)' # {}
  BY RowsGrow DEF RowsOf

----------------------------------------------------------------------------
(* What a request has found or saved is in the cache. *)

\* Thread t found a row of its host_path, or has written one.
Found(t) ==
  \/ pc[t] = "check" /\ results[t] # << >> /\ results[t][1].count > 0
  \/ pc[t] = "get"
  \/ pc[t] \in {"fetch", "store"} /\ update_cache[t]
  \/ pc[t] = "store" /\ Written(t)

FoundIsThere ==
  intact => \A t \in Threads : Found(t) => RowsOf(host_path[t]) # {}

\* As rows stay, only a step by which a thread finds something matters.
LEMMA FoundFrame ==
  ASSUME IInv, FoundIsThere, [Next]_vars, intact, intact',
         NEW u \in Threads, Found(u), host_path'[u] = host_path[u]
  PROVE  RowsOf(host_path[u])' # {}
<1>1. RowsOf(host_path[u]) # {}
  BY DEF FoundIsThere
<1>2. \A k : RowsOf(k) # {} => RowsOf(k)' # {}
  BY KeyStays
<1> QED
  BY <1>1, <1>2 DEF RowsOf

\* The result row of a count holds the number of rows of the host_path.
LEMMA CountRow ==
  ASSUME IInv, NEW t \in Threads, Step(t), StepCount(t), ~UNCHANGED results
  PROVE  \E v \in [count : Nat] :
           /\ v.count = 0 <=> RowsOf(host_path[t]) = {}
           /\ results'[t] # << >>
           /\ results[t] = << >> => results'[t][1] = v
           /\ results[t] # << >> => results'[t][1] = results[t][1]
<1>1. /\ Calls(t, sql[t]) /\ rows \in Seq(Rows) /\ results[t] \in Seq(Values)
      /\ results \in [Threads -> Seq(Values)]
  BY DEF Step, IInv, StatementMatches, TypeOK, DbTypeOK
<1>2. sql[t].key = host_path[t]
  BY <1>1, CallsFacts
<1> DEFINE v == [count |-> Cardinality(RowsOf(host_path[t]))]
<1>3. results'[t] = Append(results[t], v)
  BY <1>1, <1>2 DEF StepCount, StepRow, StepDone
<1>4. v \in [count : Nat] /\ (v.count = 0 <=> RowsOf(host_path[t]) = {})
  BY <1>1, RowsOfFinite
<1>5. v \in Values
  BY <1>4 DEF Values
<1> HIDE DEF v
<1>6. results'[t] # << >>
  BY <1>1, <1>3, AppendNotEmpty
<1> QED
  BY <1>1, <1>3, <1>4, <1>5, <1>6

\* A count finds what it counts, and an insert or update leaves a row.
LEMMA StepFinds ==
  ASSUME IInv, FoundIsThere, FlagsOK, [Next]_vars, intact', NEW t \in Threads,
         Step(t), SameLocals(t), Found(t)', ~Found(t)
  PROVE  RowsOf(host_path[t])' # {}
<1>1. /\ Calls(t, sql[t]) /\ rows \in Seq(Rows) /\ results[t] \in Seq(Values)
      /\ qpc[t] = "step" /\ sql' = sql /\ stmtRc' = stmtRc
  BY DEF Step, IInv, StatementMatches, TypeOK, DbTypeOK
<1>2. /\ sql[t] \in Statements /\ sql[t].key = host_path[t]
      /\ host_path'[t] = host_path[t] /\ pc'[t] = pc[t]
      /\ update_cache'[t] = update_cache[t]
  BY <1>1, CallsFacts DEF SameLocals
<1>3. CASE StepCount(t)
  <2>1. pc[t] = "check"
    BY <1>1, <1>3, CallsFacts DEF StepCount
  <2>2. ~UNCHANGED results
    BY <1>2, <2>1 DEF Found
  <2>3. PICK v \in [count : Nat] :
          /\ v.count = 0 <=> RowsOf(host_path[t]) = {}
          /\ results'[t] # << >>
          /\ results[t] = << >> => results'[t][1] = v
          /\ results[t] # << >> => results'[t][1] = results[t][1]
    BY <1>3, <2>2, CountRow
  <2>4. results'[t][1].count > 0 /\ ~(results[t] # << >> /\ results[t][1].count > 0)
    BY <1>2, <2>1 DEF Found
  <2>5. v.count > 0
    BY <2>3, <2>4
  <2>6. RowsOf(host_path[t]) # {} /\ rows' = rows
    BY <1>1, <1>3, <2>3, <2>5 DEF StepCount, StepRow, StepDone
  <2> QED
    BY <1>2, <2>6 DEF RowsOf
<1>4. CASE StepSelect(t)
  BY <1>1, <1>4, CallsFacts DEF StepSelect, Found
<1>5. CASE StepWrite(t) /\ sql[t].op = "insert"
  <2> DEFINE new == rows'
  <2>1. new = Inserted(t, sql[t])
    BY <1>5 DEF StepWrite, StepDone
  <2>2. /\ new \in Seq(Rows) /\ Len(new) = Len(rows) + 1
        /\ new[Len(rows) + 1] =
             [key |-> sql[t].key, expire |-> sql[t].expire,
              resp |-> Literal(sql[t].resp), by |-> t]
    BY <1>1, <1>2, <1>5, <2>1, InsertedFacts
  <2> HIDE DEF new
  <2>3. Len(rows) + 1 \in DOMAIN new /\ new[Len(rows) + 1].key = host_path[t]
    BY <1>1, <1>2, <2>2
  <2> QED
    BY <1>2, <2>3 DEF RowsOf, new
<1>6. CASE StepWrite(t) /\ sql[t].op = "update"
  BY <1>1, <1>6, CallsFacts DEF Calls, Found
<1> QED
  BY <1>3, <1>4, <1>5, <1>6, StepMeant DEF StepWrite

\* What a thread has found or saved stays in the cache, also when others update
\* it, when their queries fail, and when the process restarts.
LEMMA FoundInvariance == Spec => []FoundIsThere
<1>1. Init => FoundIsThere
  BY DEF Init, ThreadsInit, FoundIsThere, Found
<1>2. IInv /\ FlagsOK /\ FoundIsThere /\ [Next]_vars => FoundIsThere'
  <2> SUFFICES ASSUME IInv, FlagsOK, FoundIsThere, [Next]_vars, intact',
                      NEW u \in Threads, Found(u)'
               PROVE  RowsOf(host_path[u])' # {}
    BY DEF FoundIsThere
  <2>1. TypeOK
    BY DEF IInv
  <2>0. intact
    BY <2>1, NextIntact
  <2>2. CASE Found(u) /\ host_path'[u] = host_path[u]
    BY <2>0, <2>2, FoundFrame
  <2>3. CASE NoSqlite(u)
    <3>1. UNCHANGED dbVars /\ qpc[u] = "idle" /\ results[u] = << >>
      BY <2>1, <2>3, NoSqliteFrame
      DEF IInv, StatementMatches, Calls, ResultsMatch, ResultsFor
    <3>2. pc'[u] \in {"get", "fetch", "store"} /\ (pc'[u] # "get" => update_cache'[u])
      BY <3>1 DEF Found, Written, dbVars
    <3> USE DEF TypeOK, Goto, Die, CatchException, LeaveTryBlock, LoopEnd, localVars,
                flagVars, Found
    <3>3. CASE Client(u)
      BY <2>1, <2>2, <3>2, <3>3
      DEF Client, Connect, GotRequest, BadRequest, BadPort, ReadFails, ReadEof
    <3>4. CASE Remote(u)
      BY <2>1, <2>2, <3>2, <3>4
      DEF Remote, FetchOk, FetchFails, FetchTimeout, FetchEof, FetchSigpipe
    <3>5. CASE \/ Send(u) \/ SendFails(u) \/ SendError(u) \/ SendErrorFails(u)
               \/ SendSigpipe(u) \/ Close(u)
      BY <2>1, <2>2, <3>2, <3>5
      DEF Send, SendFails, SendError, SendErrorFails, SendSigpipe, Close
    <3> QED
      BY <2>3, <3>3, <3>4, <3>5 DEF NoSqlite
  <2>4. CASE QueryEnds(u)
    <3>1. host_path'[u] = host_path[u]
      BY <2>1, <2>4, QueryEndsFrame
    <3> USE DEF TypeOK, DbTypeOK, Goto, Die, QueryReturn, QueryThrow, localVars, flagVars
    <3>2. CASE Checked(u)
      BY <2>1, <2>2, <3>1, <3>2 DEF Checked, Found, FlagsOK, FlagsFor
    <3>3. CASE Got(u)
      BY <2>1, <2>2, <3>1, <3>3 DEF Got, Found
    <3>4. CASE Stored(u) \/ AtEmptyResult(u)
      BY <2>1, <2>2, <3>1, <3>4 DEF Stored, AtEmptyResult, Found
    <3>5. CASE Threw(u)
      BY <2>1, <2>2, <3>1, <3>5 DEF Threw, Found, Written
    <3> QED
      BY <2>4, <3>2, <3>3, <3>4, <3>5 DEF QueryEnds
  <2>5. CASE Restart
    BY <2>5 DEF Restart, Found
  <2>6. CASE SameLocals(u)
    <3>1. CASE UNCHANGED dbVars
      BY <2>2, <2>6, <3>1 DEF SameLocals, dbVars, Found, Written, WellFormed
    <3>2. ASSUME NEW t \in Threads, DbCall(t), t # u PROVE RowsOf(host_path[u])' # {}
      BY <2>1, <2>2, <2>6, <3>2, DbCallFrame
      DEF SameLocals, TypeOK, Found, Written, WellFormed
    <3>3. ASSUME NEW s \in Statements, Prepare(u, s) PROVE RowsOf(host_path[u])' # {}
      BY <2>1, <2>2, <2>6, <3>3
      DEF Prepare, SameLocals, TypeOK, DbTypeOK, Found, Written
    <3>4. CASE Step(u)
      BY <2>2, <2>6, <3>4, StepFinds DEF SameLocals
    <3>5. CASE StepFault(u) \/ Finalize(u) \/ QueryThrow(u) \/ QueryReturn(u)
      BY <2>1, <2>2, <2>6, <3>5
      DEF StepFault, Finalize, QueryThrow, QueryReturn, SameLocals, TypeOK, DbTypeOK,
          Found, Written, WellFormed
    <3> QED
      BY <2>5, <3>1, <3>2, <3>3, <3>4, <3>5, DbSteps DEF DbCall, OnlyDamages
  <2> QED
    BY <2>1, <2>3, <2>4, <2>5, <2>6, LocalSteps
<1> QED
  BY <1>1, <1>2, Invariance, FlagsInvariance, PTL DEF Spec

----------------------------------------------------------------------------
(* Failures that show. *)

\* A select that did not fail has collected a row: containsHostPathCache found
\* one, and it is still there.
Collected ==
  \A t \in Threads :
    intact /\ pc[t] = "get" /\ qpc[t] \in {"finalize", "errmsg"} /\ ~OwnFailure(t) =>
      results[t] # << >>

\* A scan from the start finds a row when there is one.
LEMMA SelectCollects ==
  ASSUME IInv, StatementsOK, FoundIsThere, intact', NEW t \in Threads, Step(t),
         pc[t] = "get", qpc'[t] # "step"
  PROVE  results'[t] # << >>
<1>1. /\ Calls(t, sql[t]) /\ rows \in Seq(Rows) /\ qpc[t] = "step"
      /\ qpc \in [Threads -> {"idle", "step", "finalize", "errmsg", "threw"}]
  BY DEF Step, IInv, StatementMatches, TypeOK, DbTypeOK
<1>2. sql[t].op = "select" /\ sql[t].key = host_path[t]
  BY <1>1 DEF Calls
<1>3. RowsOf(sql[t].key) # {}
  BY <1>2, StepMeant DEF FoundIsThere, Found
<1>4. results' = results /\ {i \in RowsOf(sql[t].key) : i > cursor[t]} = {}
  BY <1>1, <1>2, StepMeant DEF StepCount, StepSelect, StepWrite, StepRow, StepDone
<1>5. cursor[t] # 0
  BY <1>1, <1>3, <1>4 DEF RowsOf
<1> QED
  BY <1>1, <1>4, <1>5 DEF StatementsOK, StatementFor

\* Every reachable state satisfies Collected.
LEMMA CollectedInvariance == Spec => []Collected
<1>1. Init => Collected
  BY DEF Init, DbOpened, Collected
<1>2. IInv /\ StatementsOK /\ FoundIsThere /\ Collected /\ [Next]_vars => Collected'
  <2> SUFFICES ASSUME IInv, StatementsOK, FoundIsThere, Collected, [Next]_vars,
                      intact', NEW u \in Threads, pc'[u] = "get",
                      qpc'[u] \in {"finalize", "errmsg"}, ~OwnFailure(u)'
               PROVE  results'[u] # << >>
    BY DEF Collected
  <2>1. TypeOK
    BY DEF IInv
  <2>0. intact
    BY <2>1, NextIntact
  <2>2. ~NoSqlite(u)
    BY <2>1, NoSqliteFrame DEF IInv, StatementMatches, Calls, dbVars
  <2>3. ~QueryEnds(u) /\ ~Restart
    <3>1. ~QueryReturn(u) /\ ~QueryThrow(u)
      BY <2>1 DEF QueryReturn, QueryThrow, TypeOK, DbTypeOK
    <3>2. ~Restart
      BY DEF Restart
    <3> QED
      BY <2>1, <3>1, <3>2, QueryEndsFrame
  <2>4. pc[u] = "get"
    BY <2>1, <2>2, <2>3, LocalSteps DEF SameLocals
  <2>5. CASE UNCHANGED dbVars
    BY <2>0, <2>4, <2>5 DEF dbVars, Collected, OwnFailure, WellFormed
  <2>6. ASSUME NEW t \in Threads, DbCall(t), t # u PROVE results'[u] # << >>
    BY <2>0, <2>1, <2>4, <2>6, DbCallFrame
    DEF TypeOK, Collected, OwnFailure, WellFormed
  <2>7. ASSUME NEW s \in Statements PROVE ~Prepare(u, s)
    <3>1. s # NoStatement
      BY DEF Statements, NoStatement
    <3> QED
      BY <2>1, <3>1 DEF Prepare, TypeOK, DbTypeOK, OwnFailure, WellFormed
  <2>8. CASE Step(u)
    BY <2>4, <2>8, SelectCollects
  <2>9. ~StepFault(u)
    <3> SUFFICES ASSUME StepFault(u) PROVE FALSE
      OBVIOUS
    <3>1. sql[u] \in Statements /\ sql' = sql /\ stmtRc'[u] = "ERROR"
      BY <2>1 DEF StepFault, StatementsOK, StatementFor, TypeOK, DbTypeOK
    <3> QED
      BY <3>1 DEF OwnFailure, Statements, NoStatement
  <2>10. CASE Finalize(u)
    BY <2>0, <2>1, <2>4, <2>10
    DEF Finalize, TypeOK, DbTypeOK, Collected, OwnFailure, WellFormed
  <2>11. ~QueryReturn(u) /\ ~QueryThrow(u)
    BY <2>1 DEF QueryReturn, QueryThrow, TypeOK, DbTypeOK
  <2> QED
    BY <2>3, <2>5, <2>6, <2>7, <2>8, <2>9, <2>10, <2>11, DbSteps DEF DbCall, OnlyDamages
<1> QED
  BY <1>1, <1>2, Invariance, StatementsInvariance, FoundInvariance, PTL DEF Spec

\* No statement fails that is the one that was meant.
NoFailures == ~StepFaults /\ BadStatements = {}

\* No thread shares the connection with another.
Alone == \A t, u \in Threads : t = u

\* query() returns to its caller only when its own statement did not fail.
Honest ==
  \A t \in Threads : intact /\ qpc[t] = "errmsg" /\ errCode = "OK" => ~OwnFailure(t)

\* While no two queries overlap a thread learns of every failure of its own.
LEMMA SerializedCodes == Spec /\ []Serialized => []CodesTell
<1>1. Init => CodesTell
  BY DEF Init, DbOpened, CodesTell, CodesFor
<1>2. IInv /\ CodesTell /\ Serialized' /\ [Next]_vars => CodesTell'
  <2> SUFFICES ASSUME IInv, CodesTell, Serialized', [Next]_vars PROVE CodesTell'
    OBVIOUS
  <2>1. CASE UNCHANGED dbVars
    BY <2>1 DEF dbVars, CodesTell, CodesFor, OwnFailure, WellFormed
  <2>2. CASE Restart
    BY <2>2 DEF Restart, CodesTell, CodesFor
  <2>3. ASSUME NEW t \in Threads, DbCall(t) PROVE CodesTell'
    BY <2>3, CodesTellCall DEF IInv, TypeOK
  <2>4. CASE OnlyDamages
    BY <2>4 DEF OnlyDamages, CodesTell, CodesFor, OwnFailure, WellFormed
  <2> QED
    BY <2>1, <2>2, <2>3, <2>4, DbSteps
<1> QED
  BY <1>1, <1>2, Invariance, PTL DEF Spec

\* ... and query() returns to it only without one.
LEMMA SerializedHonest == Spec /\ []Serialized => []Honest
<1>1. CodesTell => Honest
  BY DEF CodesTell, CodesFor, Honest
<1> QED
  BY <1>1, SerializedCodes, PTL

\* Every reachable state satisfies Honest when no query can fail, and when there
\* is no other thread to overwrite the connection's error code.
LEMMA HonestInvariance ==
  ASSUME NoFailures \/ Alone
  PROVE  Spec => []Honest
<1>1. CASE NoFailures
  <2>1. StatementsOK => Honest
    BY <1>1 DEF NoFailures, StatementsOK, StatementFor, Honest, OwnFailure, WellFormed
  <2> QED
    BY <2>1, StatementsInvariance, PTL
<1>2. CASE Alone
  <2>1. Serialized
    BY <1>2 DEF Alone, Serialized
  <2> QED
    BY <2>1, SerializedHonest, PTL
<1> QED
  BY <1>1, <1>2

\* containsHostPathCache and getCache are two queries, and other threads insert
\* and update in between, but at(0) has an element as long as no failure passes
\* for an empty result: no row goes away.
LEMMA HonestInRange == Spec /\ []Honest => []NeverOutOfRange
<1>1. Init => NeverOutOfRange
  BY DEF Init, NeverOutOfRange
<1>2. IInv /\ StatementsOK /\ Collected /\ Honest /\ NeverOutOfRange /\ [Next]_vars =>
        NeverOutOfRange'
  <2> SUFFICES ASSUME IInv, StatementsOK, Collected, Honest, NeverOutOfRange,
                      [Next]_vars, intact'
               PROVE  NeverOutOfRange'
    BY DEF NeverOutOfRange
  <2>0. intact
    BY NextIntact DEF IInv
  <2> USE <2>0 DEF NeverOutOfRange, Goto, Die, CatchException
  <2>1. ASSUME NEW t \in Threads PROVE ~AtEmptyResult(t)
    <3> SUFFICES ASSUME results[t] = << >>, QueryReturn(t), pc[t] \in {"check", "get"}
                 PROVE  FALSE
      BY DEF AtEmptyResult
    <3>1. ~OwnFailure(t) /\ qpc[t] = "errmsg" /\ Calls(t, sql[t])
      BY DEF QueryReturn, Honest, IInv, StatementMatches
    <3>2. CASE pc[t] = "check"
      BY <3>1, <3>2 DEF Calls, StatementsOK, StatementFor
    <3>3. CASE pc[t] = "get"
      BY <3>1, <3>3 DEF Collected
    <3> QED
      BY <3>2, <3>3
  <2>2. ASSUME NEW t \in Threads, NoSqlite(t) PROVE NeverOutOfRange'
    BY <2>2
    DEF NoSqlite, Client, Connect, GotRequest, BadRequest, BadPort, ReadFails, ReadEof,
        Remote, FetchOk, FetchFails, FetchTimeout, FetchEof, FetchSigpipe, Send,
        SendFails, SendError, SendErrorFails, SendSigpipe, Close
  <2>3. ASSUME NEW t \in Threads, QueryEnds(t) PROVE NeverOutOfRange'
    BY <2>1, <2>3 DEF QueryEnds, Checked, Got, Stored, Threw
  <2>4. ASSUME NEW t \in Threads, Check(t) \/ Get(t) \/ Store(t) \/ Sqlite(t)
        PROVE  NeverOutOfRange'
    BY <2>4 DEF Check, Get, Store, Sqlite
  <2>5. CASE Tick \/ Restart \/ UNCHANGED vars
    BY <2>5 DEF Tick, Restart, vars
  <2> QED
    BY <2>2, <2>3, <2>4, <2>5, NextKinds DEF NullColumn
<1> QED
  BY <1>1, <1>2, Invariance, StatementsInvariance, CollectedInvariance, PTL DEF Spec

\* So at(0) never throws when no query can fail, whatever the threads interleave,
\* and in a process with one connection thread, whatever fails.
THEOREM AtNeverOutOfRange ==
  ASSUME NoFailures \/ Alone
  PROVE  Spec => []NeverOutOfRange
  BY HonestInvariance, HonestInRange, PTL

\* Queries may fail and threads may be many: at(0) never throws as long as no
\* two queries overlap.  The lookups of other threads may still fall between the
\* two queries of a request.
THEOREM SerializedInRange == Spec /\ []Serialized => []NeverOutOfRange
  BY SerializedHonest, HonestInRange, PTL

\* The insert or update whose query() returned has been carried out.
LEMMA StoredWritten ==
  ASSUME IInv, Honest, intact, NEW t \in Threads, Stored(t)
  PROVE  Written(t)
<1>1. /\ qpc[t] = "errmsg" /\ ~OwnFailure(t) /\ Calls(t, sql[t])
      /\ stmtRc[t] \in {"OK", "ERROR"}
  BY DEF Stored, QueryReturn, Goto, Honest, IInv, StatementMatches, TypeOK, DbTypeOK
<1>2. sql[t] # NoStatement
  BY <1>1, CallsFacts DEF IInv, Statements, NoStatement
<1> QED
  BY <1>1, <1>2 DEF OwnFailure, Written

\* A response that came from the origin has an entry in the cache by the time it
\* is sent: its insert or update was carried out, or the query would have thrown.
LEMMA HonestSaves == Spec /\ []Honest => []SavedBeforeReturned
<1>1. Init => SavedBeforeReturned
  BY DEF Init, ThreadsInit, SavedBeforeReturned
<1>2. IInv /\ FoundIsThere /\ Honest /\ SavedBeforeReturned /\ [Next]_vars =>
        SavedBeforeReturned'
  <2> SUFFICES ASSUME IInv, FoundIsThere, Honest, SavedBeforeReturned, [Next]_vars,
                      intact', NEW u \in Threads, pc'[u] = "send", request_remote_server'[u]
               PROVE  RowsOf(host_path[u])' # {}
    BY DEF SavedBeforeReturned
  <2>1. TypeOK
    BY DEF IInv
  <2>0. intact
    BY <2>1, NextIntact
  <2>2. ASSUME RowsOf(host_path[u]) # {}, host_path'[u] = host_path[u]
        PROVE  RowsOf(host_path[u])' # {}
    <3>1. \A k : RowsOf(k) # {} => RowsOf(k)' # {}
      BY KeyStays
    <3> QED
      BY <2>2, <3>1 DEF RowsOf
  <2>3. CASE SameLocals(u)
    BY <2>0, <2>2, <2>3 DEF SameLocals, SavedBeforeReturned
  <2>4. CASE Stored(u)
    <3>1. Written(u) /\ pc[u] = "store"
      BY <2>0, <2>4, StoredWritten DEF Stored, Goto
    <3> QED
      BY <2>0, <2>2, <2>4, <3>1 DEF FoundIsThere, Found, Stored, localVars
  <2>5. CASE QueryEnds(u) /\ ~Stored(u) /\ ~SameLocals(u)
    <3> USE DEF Goto, Die, localVars, flagVars, SameLocals, IInv, TypeOK
    <3>1. ~Checked(u)
      BY DEF Checked
    <3>2. ~Got(u)
      BY DEF Got
    <3>3. ~AtEmptyResult(u) /\ ~Threw(u)
      BY <2>5 DEF AtEmptyResult, Threw
    <3> QED
      BY <2>5, <3>1, <3>2, <3>3 DEF QueryEnds
  <2>6. CASE NoSqlite(u) /\ ~SameLocals(u)
    <3> USE DEF TypeOK, Goto, Die, CatchException, LeaveTryBlock, LoopEnd,
                localVars, flagVars, SameLocals, IInv
    <3>1. ~Client(u)
      BY <2>6 DEF Client, Connect, GotRequest, BadRequest, BadPort, ReadFails, ReadEof
    <3>2. ~Remote(u)
      BY <2>6 DEF Remote, FetchOk, FetchFails, FetchTimeout, FetchEof, FetchSigpipe
    <3>3. ~(\/ Send(u) \/ SendFails(u) \/ SendError(u) \/ SendErrorFails(u)
            \/ SendSigpipe(u) \/ Close(u))
      BY <2>6 DEF Send, SendFails, SendError, SendErrorFails, SendSigpipe, Close
    <3> QED
      BY <2>6, <3>1, <3>2, <3>3 DEF NoSqlite
  <2>7. CASE Restart
    BY <2>7 DEF Restart
  <2> QED
    BY <2>1, <2>3, <2>4, <2>5, <2>6, <2>7, LocalSteps
<1> QED
  BY <1>1, <1>2, Invariance, FoundInvariance, PTL DEF Spec

\* So it is when no query can fail, and for one thread alone.
THEOREM SavedFirst ==
  ASSUME NoFailures \/ Alone
  PROVE  Spec => []SavedBeforeReturned
  BY HonestInvariance, HonestSaves, PTL

\* Also for many threads whose queries may fail, as long as no two overlap: what
\* was fetched is in the cache before it is sent.
THEOREM SerializedSaves == Spec /\ []Serialized => []SavedBeforeReturned
  BY SerializedHonest, HonestSaves, PTL

\* While no two queries overlap, query() throws only for its own statement, and
\* the process does not end over another thread's failure.
THEOREM SerializedThrowsOwn == Spec /\ []Serialized => []ThrowIsOwn
<1>1. CodesTell => ThrowIsOwn
  BY DEF CodesTell, CodesFor, ThrowIsOwn
<1> QED
  BY <1>1, SerializedCodes, PTL

\* ... and it does throw when that statement failed.
THEOREM SerializedFailuresThrown == Spec /\ []Serialized => FailureIsThrown
<1>1. CodesTell =>
        [\A t \in Threads : QueryReturn(t) => ~OwnFailure(t)]_dbVars
  BY DEF CodesTell, CodesFor, QueryReturn
<1> QED
  BY <1>1, SerializedCodes, PTL DEF FailureIsThrown

\* No exception and no signal has ended the process, before a text made a
\* different statement.
StaysUp == intact => proc = "up"

\* Without failures of the database and of the sockets (no recv or send on a client
\* connection fails, neither a client nor an origin server resets one) and with
\* ports that are numbers it takes overlapping queries to end the process: as long
\* as no two overlap no exception leaves a thread, whether the origin servers can be
\* reached or not and whatever they answer.
THEOREM SerializedStaysUp ==
  ASSUME NoFailures, Faults \cap {"recv", "port", "send", "sigpipe"} = {}
  PROVE  Spec /\ []Serialized => []StaysUp
<1>1. Init => StaysUp
  BY DEF Init, StaysUp
<1>2. IInv /\ StatementsOK /\ CodesTell /\ NeverOutOfRange' /\ StaysUp /\ [Next]_vars =>
        StaysUp'
  <2> SUFFICES ASSUME IInv, StatementsOK, CodesTell, NeverOutOfRange', StaysUp,
                      [Next]_vars, intact'
               PROVE  proc' = "up"
    BY DEF StaysUp
  <2>0. intact /\ proc = "up"
    BY NextIntact DEF IInv, StaysUp
  <2> USE <2>0
  <2> USE DEF Goto, Die, CatchException
  <2>1. ASSUME NEW t \in Threads PROVE ~Threw(t)
    <3> SUFFICES ASSUME QueryThrow(t) PROVE FALSE
      BY DEF Threw
    <3>1. OwnFailure(t)
      BY DEF QueryThrow, CodesTell, CodesFor
    <3> QED
      BY <3>1 DEF NoFailures, StatementsOK, StatementFor, OwnFailure, WellFormed
  <2>2. ASSUME NEW t \in Threads PROVE ~AtEmptyResult(t)
    BY DEF AtEmptyResult, NeverOutOfRange
  <2>3. ASSUME NEW t \in Threads, NoSqlite(t) PROVE proc' = "up"
    <3>1. CASE Client(t)
      BY <3>1 DEF Client, Connect, GotRequest, BadRequest, BadPort, ReadFails, ReadEof
    <3>2. CASE Remote(t)
      BY <3>2
      DEF Remote, FetchOk, FetchFails, FetchTimeout, FetchEof, FetchSigpipe
    <3>3. CASE \/ Send(t) \/ SendFails(t) \/ SendError(t) \/ SendErrorFails(t)
               \/ SendSigpipe(t) \/ Close(t)
      BY <3>3 DEF Send, SendFails, SendError, SendErrorFails, SendSigpipe, Close
    <3> QED
      BY <2>3, <3>1, <3>2, <3>3 DEF NoSqlite
  <2>4. ASSUME NEW t \in Threads, QueryEnds(t) PROVE proc' = "up"
    BY <2>1, <2>2, <2>4 DEF QueryEnds, Checked, Got, Stored
  <2>5. ASSUME NEW t \in Threads, Check(t) \/ Get(t) \/ Store(t) \/ Sqlite(t)
        PROVE  proc' = "up"
    BY <2>5 DEF Check, Get, Store, Sqlite
  <2>6. CASE Tick \/ Restart \/ UNCHANGED vars
    BY <2>6 DEF Tick, Restart, vars
  <2> QED
    BY <2>3, <2>4, <2>5, <2>6, NextKinds DEF NullColumn
<1> QED
  BY <1>1, <1>2, Invariance, StatementsInvariance, SerializedCodes, SerializedInRange,
     PTL DEF Spec

\* In a process with one connection thread, query() throws only for its own
\* statement.
THEOREM AloneThrowsOwn ==
  ASSUME Alone
  PROVE  Spec => []ThrowIsOwn
<1>1. Serialized
  BY DEF Alone, Serialized
<1> QED
  BY <1>1, SerializedThrowsOwn, PTL

\* ... and it does throw when that statement failed.
THEOREM AloneFailuresThrown ==
  ASSUME Alone
  PROVE  Spec => FailureIsThrown
<1>1. Serialized
  BY DEF Alone, Serialized
<1> QED
  BY <1>1, SerializedFailuresThrown, PTL

----------------------------------------------------------------------------
(* The refinement: what the abstract request of a thread depends on. *)

\* Outside saving and sending there is no response.
RespUnset == \A t \in Threads : pc[t] \notin {"store", "send"} => resp[t] = NoResp

\* Every reachable state satisfies RespUnset.
LEMMA RespUnsetInvariance == Spec => []RespUnset
<1>1. Init => RespUnset
  BY DEF Init, ThreadsInit, RespUnset
<1>2. TypeOK /\ RespUnset /\ [Next]_vars => RespUnset'
  <2> SUFFICES ASSUME TypeOK, RespUnset, [Next]_vars, NEW u \in Threads,
                      pc'[u] \notin {"store", "send"}
               PROVE  resp'[u] = NoResp
    BY DEF RespUnset
  <2>1. CASE SameLocals(u)
    BY <2>1 DEF SameLocals, RespUnset
  <2>2. CASE NoSqlite(u)
    <3> USE DEF TypeOK, Goto, Die, CatchException, LeaveTryBlock, LoopEnd, localVars,
                flagVars, RespUnset
    <3>1. CASE Client(u)
      BY <3>1 DEF Client, Connect, GotRequest, BadRequest, BadPort, ReadFails, ReadEof
    <3>2. CASE Remote(u)
      BY <3>2 DEF Remote, FetchOk, FetchFails, FetchTimeout, FetchEof, FetchSigpipe
    <3>3. CASE \/ Send(u) \/ SendFails(u) \/ SendError(u) \/ SendErrorFails(u)
               \/ SendSigpipe(u) \/ Close(u)
      BY <3>3 DEF Send, SendFails, SendError, SendErrorFails, SendSigpipe, Close
    <3> QED
      BY <2>2, <3>1, <3>2, <3>3 DEF NoSqlite
  <2>3. CASE QueryEnds(u)
    <3> USE DEF TypeOK, Goto, Die, localVars, flagVars, RespUnset
    <3>1. CASE Checked(u)
      BY <3>1 DEF Checked
    <3>2. CASE Got(u)
      BY <3>2 DEF Got
    <3>3. CASE Stored(u) \/ AtEmptyResult(u) \/ Threw(u)
      BY <3>3 DEF Stored, AtEmptyResult, Threw
    <3> QED
      BY <2>3, <3>1, <3>2, <3>3 DEF QueryEnds
  <2>4. CASE Restart
    BY <2>4 DEF Restart
  <2> QED
    BY <2>1, <2>2, <2>3, <2>4, LocalSteps
<1> QED
  BY <1>1, <1>2, TypeCorrect, PTL DEF Spec

\* The state of a thread that takes no part in a step, in query() too.
SameThread(u) ==
  /\ SameLocals(u)
  /\ qpc'[u] = qpc[u] /\ sql'[u] = sql[u] /\ stmtRc'[u] = stmtRc[u]
  /\ results'[u] = results[u]

\* The abstract request of such a thread.
SameRequest(u) ==
  /\ AbsPhase(u)' = AbsPhase(u)
  /\ AbsWant(u)' = AbsWant(u)
  /\ AbsShown(u)' = AbsShown(u)

\* The abstract request is made of the thread's own state.
LEMMA RequestFrame ==
  ASSUME NEW u \in Threads, SameThread(u)
  PROVE  SameRequest(u)
<1>1. Written(u)' = Written(u)
  BY DEF SameThread, Written, WellFormed
<1>2. AbsPhase(u)' = AbsPhase(u)
  BY <1>1 DEF SameThread, SameLocals, AbsPhase
<1> QED
  BY <1>2 DEF SameThread, SameLocals, SameRequest, AbsWant, AbsShown

\* A step of one thread leaves the requests of the others alone.
LEMMA OthersSame ==
  ASSUME IInv, NEW t \in Threads,
         \/ NoSqlite(t) \/ QueryEnds(t)
         \/ (DbCall(t) /\ UNCHANGED <<pc, localVars>>),
         NEW u \in Threads, u # t
  PROVE  SameRequest(u)
<1>1. TypeOK
  BY DEF IInv
<1>2. CASE NoSqlite(t)
  BY <1>1, <1>2, NoSqliteFrame, RequestFrame DEF SameThread, SameLocals, dbVars
<1>3. CASE QueryEnds(t)
  <2>1. DbCall(t)
    BY <1>1, <1>3, QueryEndsFrame DEF DbCall
  <2> QED
    BY <1>1, <1>3, <2>1, QueryEndsFrame, DbCallFrame, RequestFrame
    DEF SameThread, SameLocals, TypeOK
<1>4. CASE DbCall(t) /\ UNCHANGED <<pc, localVars>>
  BY <1>1, <1>4, DbCallFrame, RequestFrame
  DEF SameThread, SameLocals, TypeOK, localVars, flagVars
<1> QED
  BY <1>2, <1>3, <1>4

\* So the abstract variables change at most at the thread that takes the step.
LEMMA AbsMove ==
  ASSUME NEW t \in Threads, \A u \in Threads \ {t} : SameRequest(u)
  PROVE  /\ AbsPhases' = [AbsPhases EXCEPT ![t] = AbsPhase(t)']
         /\ AbsWants' = [AbsWants EXCEPT ![t] = AbsWant(t)']
         /\ AbsShowns' = [AbsShowns EXCEPT ![t] = AbsShown(t)']
         /\ AbsPhases[t] = AbsPhase(t) /\ AbsWants[t] = AbsWant(t)
         /\ AbsShowns[t] = AbsShown(t)
  BY DEF AbsPhases, AbsWants, AbsShowns, SameRequest

\* ... and not at all when its request stays the same.
LEMMA AbsStutter ==
  ASSUME \A u \in Threads : SameRequest(u), UNCHANGED <<rows, now, resp, intact>>
  PROVE  UNCHANGED Cache!vars
<1>1. AbsCache' = AbsCache
  BY DEF AbsCache, RowsOf, EntryAt
<1>2. AbsPhases' = AbsPhases /\ AbsWants' = AbsWants /\ AbsShowns' = AbsShowns
  BY DEF AbsPhases, AbsWants, AbsShowns, SameRequest
<1> QED
  BY <1>1, <1>2 DEF Cache!vars

----------------------------------------------------------------------------
(* The refinement, kind of step by kind of step. *)

\* Before and after the step every statement was the one that was meant.
Undamaged == intact = TRUE /\ intact' = TRUE

\* What the steps of the refinement rest on.
RefineInv == IInv /\ FlagsOK /\ StatementsOK /\ FoundIsThere /\ RespUnset

\* Outside a query a thread's request is told by its place and its flags.
LEMMA IdleRequest ==
  ASSUME RefineInv, NEW t \in Threads, pc[t] \notin {"check", "get", "store"}
  PROVE  /\ pc[t] \in {"none", "read", "error", "close", "spin"} =>
              AbsPhase(t) = "idle" /\ AbsWant(t) = "none"
         /\ pc[t] = "fetch" =>
              /\ AbsPhase(t) = IF update_cache[t] THEN "refresh" ELSE "fill"
              /\ AbsWant(t) = host_path[t]
         /\ pc[t] = "send" => AbsPhase(t) = "reply" /\ AbsWant(t) = host_path[t]
         /\ AbsShown(t) = [expire |-> "none"]
         /\ qpc[t] = "idle" /\ results[t] = << >>
<1>1. qpc[t] = "idle" /\ results[t] = << >>
  BY DEF RefineInv, IInv, StatementMatches, Calls, ResultsMatch, ResultsFor
<1> QED
  BY <1>1 DEF AbsPhase, AbsWant, AbsShown

\* A thread that gets to a place outside queries, or to the start of one.
LEMMA NextRequest ==
  ASSUME NEW t \in Threads, qpc'[t] = "idle", results'[t] = << >>
  PROVE  /\ pc'[t] \in {"none", "read", "error", "close", "spin"} =>
              AbsPhase(t)' = "idle" /\ AbsWant(t)' = "none"
         /\ pc'[t] \in {"check", "get"} =>
              AbsPhase(t)' = "asked" /\ AbsWant(t)' = host_path'[t]
         /\ pc'[t] = "fetch" =>
              /\ AbsPhase(t)' = IF update_cache'[t] THEN "refresh" ELSE "fill"
              /\ AbsWant(t)' = host_path'[t]
         /\ pc'[t] = "store" =>
              /\ AbsPhase(t)' = IF update_cache'[t] THEN "refetched" ELSE "fetched"
              /\ AbsWant(t)' = host_path'[t]
         /\ pc'[t] = "send" => AbsPhase(t)' = "reply" /\ AbsWant(t)' = host_path'[t]
         /\ AbsShown(t)' = [expire |-> "none"]
  BY DEF AbsPhase, AbsWant, AbsShown, Written

\* Reading a request asks; whatever else happens on the client's socket is
\* not seen by the cache.
LEMMA ClientRefines ==
  ASSUME RefineInv, NEW t \in Threads, Client(t)
  PROVE  [Cache!Steps]_(Cache!vars)
<1>1. IInv /\ TypeOK /\ NoSqlite(t)
  BY DEF RefineInv, IInv, NoSqlite
<1>2. UNCHANGED <<dbVars, now, intact>> /\ pc[t] \notin {"check", "get", "store"}
  BY <1>1, NoSqliteFrame DEF dbVars
<1>3. \A u \in Threads \ {t} : SameRequest(u)
  BY <1>1, OthersSame
<1>4. AbsCache' = AbsCache
  BY <1>2 DEF dbVars, AbsCache, RowsOf, EntryAt
<1>5. pc[t] \in {"none", "read"}
  BY DEF Client, Connect, GotRequest, BadRequest, BadPort, ReadFails, ReadEof, Goto,
         Die, CatchException
<1>6. /\ AbsPhase(t) = "idle" /\ AbsWant(t) = "none"
      /\ AbsShown(t) = [expire |-> "none"]
      /\ qpc'[t] = "idle" /\ results'[t] = << >>
  BY <1>2, <1>5, IdleRequest DEF dbVars
<1>7. ASSUME NEW k \in Keys, NEW close \in Closing, GotRequest(t, k, close)
      PROVE  Cache!Steps
  <2>1. pc'[t] = "check" /\ host_path'[t] = k /\ resp' = resp
    BY <1>1, <1>7 DEF GotRequest, Goto, TypeOK
  <2>2. /\ AbsPhase(t)' = "asked" /\ AbsWant(t)' = k
        /\ AbsShown(t)' = [expire |-> "none"]
    BY <1>6, <2>1, NextRequest
  <2>3. AbsShowns' = AbsShowns
    BY <1>3, <1>6, <2>2 DEF AbsShowns, SameRequest
  <2>4. Cache!Ask(t, k)
    BY <1>2, <1>3, <1>4, <1>6, <2>1, <2>2, <2>3, AbsMove DEF Cache!Ask, Cache!Move
  <2> QED
    BY <2>4 DEF Cache!Steps
<1>8. ASSUME \A k \in Keys, close \in Closing : ~GotRequest(t, k, close)
      PROVE  UNCHANGED Cache!vars
  <2>1. pc'[t] \in {"none", "read", "error", "close", "spin"}
    BY <1>1, <1>5, <1>8
    DEF Client, Connect, BadRequest, BadPort, ReadFails, ReadEof, Goto, Die,
        CatchException, TypeOK
  <2>2. resp[t] = NoResp
    BY <1>5 DEF RefineInv, RespUnset
  <2>3. resp' = resp
    BY <1>1, <1>8, <2>2
    DEF Client, Connect, BadRequest, BadPort, ReadFails, ReadEof, Goto, Die,
        CatchException, LeaveTryBlock, localVars, TypeOK
  <2>4. SameRequest(t)
    BY <1>6, <2>1, NextRequest DEF SameRequest
  <2> QED
    BY <1>2, <1>3, <2>3, <2>4, AbsStutter DEF dbVars
<1> QED
  BY <1>7, <1>8

\* The origin's response is the fetch; when there is none the request is given
\* up, and a thread that spins on a closed connection has given it up too.
LEMMA RemoteRefines ==
  ASSUME RefineInv, NEW t \in Threads, Remote(t)
  PROVE  [Cache!Steps]_(Cache!vars)
<1>1. IInv /\ TypeOK /\ NoSqlite(t)
  BY DEF RefineInv, IInv, NoSqlite
<1>2. UNCHANGED <<dbVars, now, intact>> /\ pc[t] \notin {"check", "get", "store"}
  BY <1>1, NoSqliteFrame DEF dbVars
<1>3. \A u \in Threads \ {t} : SameRequest(u)
  BY <1>1, OthersSame
<1>4. AbsCache' = AbsCache
  BY <1>2 DEF dbVars, AbsCache, RowsOf, EntryAt
<1>5. pc[t] = "fetch"
  BY DEF Remote, FetchOk, FetchFails, FetchTimeout, FetchEof, FetchSigpipe, Goto, Die,
         CatchException
<1>6. /\ AbsPhase(t) = IF update_cache[t] THEN "refresh" ELSE "fill"
      /\ AbsWant(t) = host_path[t]
      /\ AbsShown(t) = [expire |-> "none"]
      /\ qpc'[t] = "idle" /\ results'[t] = << >>
  BY <1>2, <1>5, IdleRequest DEF dbVars
<1>7. resp[t] = NoResp /\ update_cache[t] \in BOOLEAN
  BY <1>1, <1>5 DEF RefineInv, RespUnset, TypeOK
<1>8. ASSUME NEW r \in Resps, FetchOk(t, r) PROVE Cache!Steps
  <2>1. /\ pc'[t] = "store" /\ host_path'[t] = host_path[t]
        /\ update_cache'[t] = update_cache[t]
        /\ r.key \in {host_path[t], Foreign} /\ resp' = [resp EXCEPT ![t] = r]
    BY <1>1, <1>8 DEF FetchOk, Goto, flagVars, TypeOK
  <2>2. /\ AbsPhase(t)' = IF update_cache[t] THEN "refetched" ELSE "fetched"
        /\ AbsWant(t)' = host_path[t]
        /\ AbsShown(t)' = [expire |-> "none"]
    BY <1>6, <2>1, NextRequest
  <2>3. AbsShowns' = AbsShowns /\ AbsWants' = AbsWants
    BY <1>3, <1>6, <2>2 DEF AbsShowns, AbsWants, SameRequest
  <2>4. Cache!Fetch(t, r)
    BY <1>2, <1>3, <1>4, <1>6, <1>7, <2>1, <2>2, <2>3, AbsMove
    DEF Cache!Fetch, Cache!Move
  <2>5. r \in Cache!Resps
    BY DEF Resps, Cache!Resps
  <2> QED
    BY <2>4, <2>5 DEF Cache!Steps
<1>9. ASSUME Die(t, "fetch", "SIGPIPE") PROVE UNCHANGED Cache!vars
  <2>1. SameThread(t)
    BY <1>2, <1>9 DEF Die, SameThread, SameLocals, dbVars, localVars, flagVars
  <2> QED
    BY <1>2, <1>3, <1>9, <2>1, RequestFrame, AbsStutter DEF Die, dbVars, localVars
<1>10. ASSUME FetchFails(t) \/ FetchTimeout(t) \/ FetchEof(t) PROVE Cache!Steps
  <2>1. pc'[t] \in {"close", "error", "spin"}
    BY <1>1, <1>10 DEF FetchFails, FetchTimeout, FetchEof, CatchException, Goto, TypeOK
  <2>2. resp' = [resp EXCEPT ![t] = Cache!NoResp]
    BY <1>1, <1>7, <1>10
    DEF FetchFails, FetchTimeout, FetchEof, CatchException, LeaveTryBlock, TypeOK,
        NoResp, Cache!NoResp
  <2>3. /\ AbsPhase(t)' = "idle" /\ AbsWant(t)' = "none"
        /\ AbsShown(t)' = Cache!NoEntry
    BY <1>6, <2>1, NextRequest DEF Cache!NoEntry
  <2>4. Cache!GiveUp(t)
    BY <1>2, <1>3, <1>4, <1>6, <1>7, <2>2, <2>3, AbsMove
    DEF Cache!GiveUp, Cache!Move, Cache!Forget
  <2> QED
    BY <2>4 DEF Cache!Steps
<1> QED
  BY <1>8, <1>9, <1>10 DEF Remote, FetchSigpipe

\* Sending the response, or failing to, replies; the other steps at the end of a
\* request are not seen by the cache.
LEMMA ReplyRefines ==
  ASSUME RefineInv, NEW t \in Threads,
         \/ Send(t) \/ SendFails(t) \/ SendError(t) \/ SendErrorFails(t)
         \/ SendSigpipe(t) \/ Close(t)
  PROVE  [Cache!Steps]_(Cache!vars)
<1>1. IInv /\ TypeOK /\ NoSqlite(t)
  BY DEF RefineInv, IInv, NoSqlite
<1>2. UNCHANGED <<dbVars, now, intact>> /\ pc[t] \notin {"check", "get", "store"}
  BY <1>1, NoSqliteFrame DEF dbVars
<1>3. \A u \in Threads \ {t} : SameRequest(u)
  BY <1>1, OthersSame
<1>4. AbsCache' = AbsCache
  BY <1>2 DEF dbVars, AbsCache, RowsOf, EntryAt
<1>5. qpc'[t] = "idle" /\ results'[t] = << >>
  BY <1>2, IdleRequest DEF dbVars
<1>6. ASSUME NEW from, NEW cause, Die(t, from, cause) PROVE UNCHANGED Cache!vars
  <2>1. SameThread(t)
    BY <1>2, <1>6 DEF Die, SameThread, SameLocals, dbVars, localVars, flagVars
  <2> QED
    BY <1>2, <1>3, <1>6, <2>1, RequestFrame, AbsStutter DEF Die, dbVars, localVars
<1>7. ASSUME NEW to \in {"read", "close"}, Goto(t, "send", to), LeaveTryBlock(t)
      PROVE  Cache!Steps
  <2>1. AbsPhase(t) = "reply" /\ pc'[t] = to
    BY <1>1, <1>2, <1>7, IdleRequest DEF Goto, TypeOK
  <2>2. resp' = [resp EXCEPT ![t] = Cache!NoResp]
    BY <1>7 DEF LeaveTryBlock, NoResp, Cache!NoResp
  <2>3. /\ AbsPhase(t)' = "idle" /\ AbsWant(t)' = "none"
        /\ AbsShown(t)' = Cache!NoEntry
    BY <1>5, <2>1, NextRequest DEF Cache!NoEntry
  <2>4. Cache!Reply(t)
    BY <1>2, <1>3, <1>4, <2>1, <2>2, <2>3, AbsMove
    DEF Cache!Reply, Cache!Move, Cache!Forget
  <2> QED
    BY <2>4 DEF Cache!Steps
<1>8. ASSUME SendError(t) \/ Close(t) PROVE UNCHANGED Cache!vars
  <2>1. /\ pc[t] \in {"error", "close"} /\ pc'[t] \in {"none", "read", "close"}
        /\ resp' = resp
    BY <1>1, <1>8 DEF SendError, Close, Goto, LoopEnd, localVars, TypeOK
  <2>2. SameRequest(t)
    BY <1>2, <1>5, <2>1, IdleRequest, NextRequest DEF SameRequest
  <2> QED
    BY <1>2, <1>3, <2>1, <2>2, AbsStutter DEF dbVars
<1>9. CASE Send(t)
  BY <1>7, <1>9 DEF Send, LoopEnd
<1>10. CASE SendFails(t)
  BY <1>6, <1>7, <1>10 DEF SendFails, CatchException
<1>11. CASE SendErrorFails(t) \/ SendSigpipe(t)
  BY <1>6, <1>11 DEF SendErrorFails, SendSigpipe
<1> QED
  BY <1>8, <1>9, <1>10, <1>11

\* Building a statement, and compiling it, is not seen by the cache.
LEMMA CallRefines ==
  ASSUME RefineInv, NEW t \in Threads, Check(t) \/ Get(t) \/ Store(t)
  PROVE  UNCHANGED Cache!vars
<1>1. IInv /\ TypeOK
  BY DEF RefineInv, IInv
<1>2. PICK s : Calls(t, s) /\ Prepare(t, s)
  <2>1. CASE Check(t)
    BY <2>1 DEF Check, containsHostPathCache, Calls
  <2>2. CASE Get(t)
    BY <2>2 DEF Get, getCache, Calls
  <2>3. CASE Store(t)
    BY <2>3 DEF Store, updateCache, insertCache, Calls
  <2> QED
    BY <2>1, <2>2, <2>3
<1>3. s \in Statements
  BY <1>1, <1>2, CallsFacts
<1>4. UNCHANGED <<now, pc, localVars>>
  BY DEF Check, Get, Store
<1>5. \A u \in Threads \ {t} : SameRequest(u)
  BY <1>1, <1>2, <1>3, <1>4, OthersSame DEF DbCall
<1>6. results[t] = << >> /\ results'[t] = << >> /\ UNCHANGED <<rows, intact>>
  BY <1>1, <1>2 DEF Prepare, IInv, ResultsMatch, ResultsFor, TypeOK, DbTypeOK
<1>7. ~Written(t) /\ ~Written(t)'
  BY <1>1, <1>2 DEF Prepare, Written, WellFormed, TypeOK, DbTypeOK
<1>8. AbsPhase(t)' = AbsPhase(t)
  BY <1>4, <1>6, <1>7 DEF AbsPhase, localVars, flagVars
<1>9. SameRequest(t)
  BY <1>4, <1>6, <1>8 DEF SameRequest, AbsWant, AbsShown, AbsPhase, localVars
<1> QED
  BY <1>4, <1>5, <1>6, <1>9, AbsStutter DEF localVars

\* The return of the count changes nothing that the step did not decide.
LEMMA CheckedRefines ==
  ASSUME RefineInv, NEW t \in Threads, Checked(t)
  PROVE  UNCHANGED Cache!vars
<1>1. IInv /\ TypeOK /\ QueryEnds(t)
  BY DEF RefineInv, IInv, QueryEnds
<1>2. /\ qpc'[t] = "idle" /\ results'[t] = << >> /\ pc[t] = "check"
      /\ UNCHANGED <<rows, now, intact, resp, host_path, update_cache>>
  BY <1>1, QueryEndsFrame DEF Checked, QueryReturn, TypeOK, DbTypeOK
<1>3. \A u \in Threads \ {t} : SameRequest(u)
  BY <1>1, OthersSame
<1>4. results[t] # << >> /\ ~update_cache[t]
  BY <1>2 DEF Checked, RefineInv, FlagsOK, FlagsFor
<1>5. CASE results[t][1].count = 0 /\ Goto(t, "check", "fetch")
  <2>1. pc'[t] = "fetch"
    BY <1>1, <1>5 DEF Goto, TypeOK
  <2>2. /\ AbsPhase(t) = "fill" /\ AbsWant(t) = host_path[t]
        /\ AbsShown(t) = [expire |-> "none"]
    BY <1>2, <1>4, <1>5 DEF AbsPhase, AbsWant, AbsShown
  <2>3. SameRequest(t)
    BY <1>2, <1>4, <2>1, <2>2, NextRequest DEF SameRequest
  <2> QED
    BY <1>2, <1>3, <2>3, AbsStutter
<1>6. CASE results[t][1].count > 0 /\ Goto(t, "check", "get")
  <2>1. pc'[t] = "get"
    BY <1>1, <1>6 DEF Goto, TypeOK
  <2>2. results[t][1].count # 0
    BY <1>1, <1>2, <1>4, <1>6
    DEF IInv, ResultsMatch, ResultsFor, TypeOK, DbTypeOK
  <2>3. /\ AbsPhase(t) = "asked" /\ AbsWant(t) = host_path[t]
        /\ AbsShown(t) = [expire |-> "none"]
    BY <1>2, <1>4, <2>2 DEF AbsPhase, AbsWant, AbsShown
  <2>4. SameRequest(t)
    BY <1>2, <1>4, <2>1, <2>3, NextRequest DEF SameRequest
  <2> QED
    BY <1>2, <1>3, <2>4, AbsStutter
<1> QED
  BY <1>5, <1>6 DEF Checked

\* The return of the select decides between hit and expired, by the entry the
\* first step of the select showed.
LEMMA GotRefines ==
  ASSUME RefineInv, NEW t \in Threads, Got(t)
  PROVE  Cache!Steps
<1>1. IInv /\ TypeOK /\ QueryEnds(t)
  BY DEF RefineInv, IInv, QueryEnds
<1>2. /\ qpc'[t] = "idle" /\ results'[t] = << >> /\ pc[t] = "get"
      /\ results[t] # << >> /\ UNCHANGED <<rows, now, intact, host_path>>
  BY <1>1, QueryEndsFrame DEF Got, QueryReturn, TypeOK, DbTypeOK
<1>3. \A u \in Threads \ {t} : SameRequest(u)
  BY <1>1, OthersSame
<1>4. AbsCache' = AbsCache
  BY <1>2 DEF AbsCache, RowsOf, EntryAt
<1> DEFINE entry == results[t][1]
<1>5. /\ AbsPhase(t) = "shown" /\ AbsWant(t) = host_path[t]
      /\ AbsShown(t) = [expire |-> entry.expire, resp |-> entry.resp]
  BY <1>2 DEF AbsPhase, AbsWant, AbsShown
<1>6. AbsShown(t).expire = entry.expire /\ AbsShown(t).resp = entry.resp
  BY <1>5
<1> HIDE DEF entry
<1>7. AbsWant(t)' = host_path[t] => AbsWants' = AbsWants
  BY <1>3, <1>5 DEF AbsWants, SameRequest
<1>8. CASE /\ MayBeExpired(entry.expire, now)
           /\ Goto(t, "get", "fetch")
           /\ update_cache' = [update_cache EXCEPT ![t] = TRUE]
           /\ UNCHANGED resp
  <2>1. pc'[t] = "fetch" /\ update_cache'[t]
    BY <1>1, <1>8 DEF Goto, TypeOK
  <2>2. /\ AbsPhase(t)' = "refresh" /\ AbsWant(t)' = host_path[t]
        /\ AbsShown(t)' = Cache!NoEntry
    BY <1>2, <2>1, NextRequest DEF Cache!NoEntry
  <2>3. Cache!Expired(t)
    BY <1>2, <1>3, <1>4, <1>5, <1>6, <1>7, <1>8, <2>2, AbsMove
    DEF Cache!Expired, Cache!Move, MayBeExpired
  <2> QED
    BY <2>3 DEF Cache!Steps
<1>9. CASE /\ MayBeFresh(entry.expire, now)
           /\ Goto(t, "get", "send")
           /\ resp' = [resp EXCEPT ![t] = entry.resp]
  <2>1. pc'[t] = "send"
    BY <1>1, <1>9 DEF Goto, TypeOK
  <2>2. /\ AbsPhase(t)' = "reply" /\ AbsWant(t)' = host_path[t]
        /\ AbsShown(t)' = Cache!NoEntry
    BY <1>2, <2>1, NextRequest DEF Cache!NoEntry
  <2>3. Cache!Hit(t)
    BY <1>2, <1>3, <1>4, <1>5, <1>6, <1>7, <1>9, <2>2, AbsMove
    DEF Cache!Hit, Cache!Move, MayBeFresh
  <2> QED
    BY <2>3 DEF Cache!Steps
<1> QED
  BY <1>8, <1>9 DEF Got, entry

\* The return of the insert or update: its step has saved the response.
LEMMA StoredSure ==
  ASSUME RefineInv, NEW t \in Threads, Stored(t), Written(t)
  PROVE  UNCHANGED Cache!vars
<1>1. IInv /\ TypeOK /\ QueryEnds(t)
  BY DEF RefineInv, IInv, QueryEnds
<1>2. /\ qpc'[t] = "idle" /\ results'[t] = << >> /\ pc[t] = "store" /\ pc'[t] = "send"
      /\ UNCHANGED <<rows, now, intact, host_path, resp>>
  BY <1>1, QueryEndsFrame
  DEF Stored, Goto, QueryReturn, TypeOK, DbTypeOK, localVars
<1>3. \A u \in Threads \ {t} : SameRequest(u)
  BY <1>1, OthersSame
<1>4. /\ AbsPhase(t)' = "reply" /\ AbsWant(t)' = host_path[t]
      /\ AbsShown(t)' = [expire |-> "none"]
  BY <1>2, NextRequest
<1>5. /\ AbsPhase(t) = "reply" /\ AbsWant(t) = host_path[t]
      /\ AbsShown(t) = [expire |-> "none"]
  BY <1>2 DEF AbsPhase, AbsWant, AbsShown
<1>6. SameRequest(t)
  BY <1>4, <1>5 DEF SameRequest
<1> QED
  BY <1>2, <1>3, <1>6, AbsStutter

\* Or the response was lost, which takes a statement that can fail and another
\* thread that hides it.
LEMMA StoredLost ==
  ASSUME RefineInv, Alone => Honest, intact, NEW t \in Threads, Stored(t),
         ~Written(t)
  PROVE  Cache!LoseSave(t)
<1>1. IInv /\ TypeOK /\ QueryEnds(t)
  BY DEF RefineInv, IInv, QueryEnds
<1>2. /\ qpc'[t] = "idle" /\ results'[t] = << >> /\ pc[t] = "store" /\ pc'[t] = "send"
      /\ qpc[t] = "errmsg" /\ UNCHANGED <<rows, now, intact, host_path, resp>>
  BY <1>1, QueryEndsFrame
  DEF Stored, Goto, QueryReturn, TypeOK, DbTypeOK, localVars
<1>3. \A u \in Threads \ {t} : SameRequest(u)
  BY <1>1, OthersSame
<1>4. AbsCache' = AbsCache
  BY <1>2 DEF AbsCache, RowsOf, EntryAt
<1>5. /\ AbsPhase(t)' = "reply" /\ AbsWant(t)' = host_path[t]
      /\ AbsShown(t)' = [expire |-> "none"]
  BY <1>2, NextRequest
<1>6. AbsWant(t) = host_path[t] /\ AbsShown(t) = [expire |-> "none"]
  BY <1>2 DEF AbsPhase, AbsWant, AbsShown
<1>7. AbsPhase(t) \in {"fetched", "refetched"}
  BY <1>1, <1>2 DEF AbsPhase, TypeOK
<1>8. MayLoseSave
  <2>1. StepFaults \/ BadStatements # {}
    BY <1>1, <1>2
    DEF Written, WellFormed, RefineInv, StatementsOK, StatementFor, TypeOK, DbTypeOK
  <2>2. ~Alone
    BY <1>1, StoredWritten
  <2> QED
    BY <2>1, <2>2 DEF MayLoseSave, Alone
<1>9. AbsWants' = AbsWants /\ AbsShowns' = AbsShowns
  BY <1>3, <1>5, <1>6 DEF AbsWants, AbsShowns, SameRequest
<1> QED
  BY <1>2, <1>3, <1>4, <1>5, <1>7, <1>8, <1>9, AbsMove
  DEF Cache!LoseSave, Cache!Move

\* An exception that leaves the thread ends the process; the cache sees a crash
\* when the process is started again.
LEMMA DeathRefines ==
  ASSUME RefineInv, NEW t \in Threads, AtEmptyResult(t) \/ Threw(t)
  PROVE  UNCHANGED Cache!vars
<1>1. IInv /\ TypeOK /\ QueryEnds(t)
  BY DEF RefineInv, IInv, QueryEnds
<1>2. UNCHANGED <<rows, now, intact, pc, localVars>>
  BY <1>1, QueryEndsFrame DEF AtEmptyResult, Threw, Die, QueryReturn, QueryThrow
<1>3. \A u \in Threads \ {t} : SameRequest(u)
  BY <1>1, OthersSame
<1>4. CASE AtEmptyResult(t)
  <2>1. pc[t] \in {"check", "get"} /\ results[t] = << >> /\ results'[t] = << >>
    BY <1>1, <1>4 DEF AtEmptyResult, Die, QueryReturn, TypeOK, DbTypeOK
  <2>2. SameRequest(t)
    BY <1>2, <2>1 DEF SameRequest, AbsPhase, AbsWant, AbsShown, localVars
  <2> QED
    BY <1>2, <1>3, <2>2, AbsStutter DEF localVars
<1>5. CASE Threw(t)
  <2>1. results' = results /\ Written(t)' = Written(t)
    BY <1>1, <1>5 DEF Threw, QueryThrow, Written, WellFormed, TypeOK, DbTypeOK
  <2>2. AbsPhase(t)' = AbsPhase(t)
    BY <1>2, <2>1 DEF AbsPhase, localVars, flagVars
  <2>3. SameRequest(t)
    BY <1>2, <2>1, <2>2 DEF SameRequest, AbsWant, AbsShown, localVars
  <2> QED
    BY <1>2, <1>3, <2>3, AbsStutter DEF localVars
<1> QED
  BY <1>4, <1>5

\* The first step of the count decides: no row is the miss.
LEMMA CountRefines ==
  ASSUME RefineInv, Undamaged, NEW t \in Threads, Sqlite(t), Step(t), StepCount(t)
  PROVE  [Cache!Steps]_(Cache!vars)
<1>1. IInv /\ TypeOK
  BY DEF RefineInv, IInv
<1>2. UNCHANGED <<now, pc, localVars, rows, intact>>
  BY DEF Undamaged, Sqlite, StepCount, StepRow, StepDone
<1>3. \A u \in Threads \ {t} : SameRequest(u)
  BY <1>1, <1>2, OthersSame DEF DbCall
<1>4. /\ pc[t] = "check" /\ sql[t].key = host_path[t] /\ host_path[t] \in Keys
      /\ rows \in Seq(Rows) /\ results[t] \in Seq(Values)
  BY <1>1, CallsFacts
  DEF Step, StepCount, IInv, StatementMatches, TypeOK, DbTypeOK
<1>5. AbsCache' = AbsCache
  BY <1>2 DEF AbsCache, RowsOf, EntryAt
<1>6. /\ AbsWant(t) = host_path[t] /\ AbsWant(t)' = host_path[t]
      /\ AbsShown(t) = [expire |-> "none"] /\ AbsShown(t)' = [expire |-> "none"]
  BY <1>2, <1>4 DEF AbsWant, AbsShown, AbsPhase, localVars
<1>7. CASE AbsPhase(t)' = AbsPhase(t)
  BY <1>2, <1>3, <1>6, <1>7, AbsStutter DEF SameRequest, localVars
<1>8. CASE AbsPhase(t)' # AbsPhase(t)
  <2>1. ~UNCHANGED results
    BY <1>2, <1>4, <1>8 DEF AbsPhase
  <2>2. PICK v \in [count : Nat] :
          /\ v.count = 0 <=> RowsOf(host_path[t]) = {}
          /\ results'[t] # << >>
          /\ results[t] = << >> => results'[t][1] = v
          /\ results[t] # << >> => results'[t][1] = results[t][1]
    BY <1>1, <2>1, CountRow
  <2>3. results[t] = << >>
    BY <1>2, <1>4, <1>8, <2>2 DEF AbsPhase
  <2>4. AbsPhase(t) = "asked" /\ AbsPhase(t)' = "fill" /\ v.count = 0
    BY <1>2, <1>4, <1>8, <2>2, <2>3 DEF AbsPhase
  <2>5. AbsCache[host_path[t]] = {}
    BY <1>4, <2>2, <2>4 DEF AbsCache
  <2>6. AbsWants' = AbsWants /\ AbsShowns' = AbsShowns
    BY <1>3, <1>6 DEF AbsWants, AbsShowns, SameRequest
  <2>7. Cache!Miss(t)
    BY <1>2, <1>3, <1>5, <1>6, <2>4, <2>5, <2>6, AbsMove
    DEF Cache!Miss, Cache!Move, localVars
  <2> QED
    BY <2>7 DEF Cache!Steps
<1> QED
  BY <1>7, <1>8

\* The first step of the select is the look: it shows an entry the key has then.
LEMMA SelectRefines ==
  ASSUME RefineInv, Undamaged, NEW t \in Threads, Sqlite(t), Step(t), StepSelect(t)
  PROVE  [Cache!Steps]_(Cache!vars)
<1>1. IInv /\ TypeOK
  BY DEF RefineInv, IInv
<1>2. UNCHANGED <<now, pc, localVars, rows, intact>>
  BY DEF Undamaged, Sqlite, StepSelect, StepRow, StepDone
<1>3. \A u \in Threads \ {t} : SameRequest(u)
  BY <1>1, <1>2, OthersSame DEF DbCall
<1>4. /\ pc[t] = "get" /\ sql[t].key = host_path[t] /\ host_path[t] \in Keys
      /\ rows \in Seq(Rows) /\ results[t] \in Seq(Values)
  BY <1>1, CallsFacts
  DEF Step, StepSelect, IInv, StatementMatches, TypeOK, DbTypeOK
<1>5. AbsCache' = AbsCache
  BY <1>2 DEF AbsCache, RowsOf, EntryAt
<1>6. AbsWant(t) = host_path[t] /\ AbsWant(t)' = host_path[t]
  BY <1>2, <1>4 DEF AbsWant, AbsPhase, localVars
<1>7. CASE UNCHANGED results
  <2>1. SameRequest(t)
    BY <1>2, <1>4, <1>7 DEF SameRequest, AbsPhase, AbsWant, AbsShown, localVars
  <2> QED
    BY <1>2, <1>3, <2>1, AbsStutter DEF localVars
<1>8. CASE ~UNCHANGED results
  <2>1. PICK i \in RowsOf(host_path[t]) : results'[t] = Append(results[t], rows[i])
    BY <1>1, <1>4, <1>8 DEF StepSelect, StepRow, StepDone, TypeOK, DbTypeOK
  <2>2. rows[i] \in Values
    BY <1>4, <2>1 DEF RowsOf, Values
  <2>3. results'[t] # << >>
    BY <1>4, <2>1, AppendNotEmpty
  <2>4. CASE results[t] # << >>
    <3>1. results'[t][1] = results[t][1]
      BY <1>4, <2>1, <2>2, <2>4
    <3>2. AbsPhase(t) = "shown" /\ AbsPhase(t)' = "shown"
      BY <1>2, <1>4, <2>3, <2>4 DEF AbsPhase
    <3>3. SameRequest(t)
      BY <1>6, <3>1, <3>2 DEF SameRequest, AbsShown
    <3> QED
      BY <1>2, <1>3, <3>3, AbsStutter DEF localVars
  <2>5. CASE results[t] = << >>
    <3>1. results'[t][1] = rows[i]
      BY <2>1, <2>5
    <3>2. AbsPhase(t) = "asked" /\ AbsPhase(t)' = "shown"
      BY <1>2, <1>4, <2>3, <2>5 DEF AbsPhase
    <3>3. AbsShown(t)' = EntryAt(i)
      BY <3>1, <3>2 DEF AbsShown, EntryAt
    <3>4. EntryAt(i) \in AbsCache[host_path[t]]
      BY <1>4, <2>1 DEF AbsCache
    <3>5. AbsWants' = AbsWants
      BY <1>3, <1>6 DEF AbsWants, SameRequest
    <3>6. Cache!Look(t)
      BY <1>2, <1>3, <1>5, <1>6, <3>2, <3>3, <3>4, <3>5, AbsMove
      DEF Cache!Look, Cache!Move, localVars
    <3> QED
      BY <3>6 DEF Cache!Steps
  <2> QED
    BY <2>4, <2>5
<1> QED
  BY <1>7, <1>8

\* What a write leaves as the entries of each key.
LEMMA WriteEntries ==
  ASSUME RefineInv, intact, NEW t \in Threads, Step(t), StepWrite(t)
  PROVE  /\ sql[t].op = "insert" =>
              AbsCache' = [AbsCache EXCEPT ![host_path[t]] =
                             @ \cup {Cache!EntryOf(resp[t])}]
         /\ sql[t].op = "update" =>
              AbsCache' = [AbsCache EXCEPT ![host_path[t]] = {Cache!EntryOf(resp[t])}]
<1>1. IInv /\ rows \in Seq(Rows) /\ Calls(t, sql[t])
  BY DEF RefineInv, IInv, TypeOK, DbTypeOK, Step, StatementMatches
<1>2. /\ sql[t] \in Statements /\ sql[t].key = host_path[t] /\ host_path[t] \in Keys
      /\ pc[t] = "store"
  BY <1>1, CallsFacts DEF StepWrite
<1>3. /\ sql[t].expire = resp[t].expires /\ sql[t].resp = resp[t]
      /\ sql[t].op = "update" => update_cache[t]
  BY <1>1, <1>2 DEF Calls
<1> DEFINE e == [expire |-> sql[t].expire, resp |-> Literal(sql[t].resp)]
<1>4. Cache!EntryOf(resp[t]) = e
  BY <1>3 DEF Cache!EntryOf, Literal
<1> HIDE DEF e
<1> DEFINE new == rows'
           At(i) == [expire |-> new[i].expire, resp |-> new[i].resp]
           Of(k) == {i \in DOMAIN new : new[i].key = k}
<1>5. AbsCache' = [k \in Keys |-> {At(i) : i \in Of(k)}]
  BY DEF AbsCache, RowsOf, EntryAt
<1>6. CASE sql[t].op = "insert"
  <2> DEFINE n == Len(rows) + 1
  <2>1. new = Inserted(t, sql[t])
    BY <1>6 DEF StepWrite, StepDone
  <2>2. /\ new \in Seq(Rows) /\ Len(new) = n
        /\ \A i \in DOMAIN rows : new[i] = rows[i]
        /\ new[n] = [key |-> sql[t].key, expire |-> sql[t].expire,
                     resp |-> Literal(sql[t].resp), by |-> t]
    BY <1>1, <1>2, <1>6, <2>1, InsertedFacts
  <2> HIDE DEF new
  <2>3. /\ DOMAIN new = DOMAIN rows \cup {n} /\ n \notin DOMAIN rows
        /\ new[n].key = host_path[t] /\ At(n) = e
    BY <1>1, <1>2, <2>2 DEF e
  <2> HIDE DEF n
  <2>4. ASSUME NEW k \in Keys, k # host_path[t]
        PROVE  {At(i) : i \in Of(k)} = {EntryAt(i) : i \in RowsOf(k)}
    <3>1. Of(k) = RowsOf(k)
      BY <2>2, <2>3, <2>4 DEF RowsOf
    <3>2. \A i \in RowsOf(k) : At(i) = EntryAt(i)
      BY <2>2 DEF RowsOf, EntryAt
    <3> QED
      BY <3>1, <3>2
  <2>5. {At(i) : i \in Of(host_path[t])} =
          {EntryAt(i) : i \in RowsOf(host_path[t])} \cup {e}
    <3>1. Of(host_path[t]) = RowsOf(host_path[t]) \cup {n}
      BY <2>2, <2>3 DEF RowsOf
    <3>2. \A i \in RowsOf(host_path[t]) : At(i) = EntryAt(i)
      BY <2>2 DEF RowsOf, EntryAt
    <3> HIDE DEF At, Of
    <3> QED
      BY <2>3, <3>1, <3>2
  <2> HIDE DEF At, Of
  <2> QED
    BY <1>2, <1>4, <1>5, <1>6, <2>4, <2>5 DEF AbsCache
<1>7. CASE sql[t].op = "update"
  <2>1. new = Updated(sql[t])
    BY <1>7 DEF StepWrite, StepDone
  <2>2. /\ DOMAIN new = DOMAIN rows
        /\ \A i \in DOMAIN rows : new[i].key = rows[i].key
    BY <1>1, <1>2, <1>7, <2>1, UpdatedFacts
  <2>3. /\ \A i \in DOMAIN rows : rows[i].key # host_path[t] => new[i] = rows[i]
        /\ \A i \in DOMAIN rows : rows[i].key = host_path[t] =>
             new[i] = [rows[i] EXCEPT !.expire = sql[t].expire,
                                      !.resp = Literal(sql[t].resp)]
    BY <1>2, <2>1 DEF Updated
  <2> HIDE DEF new
  <2>4. ASSUME NEW i \in DOMAIN rows, rows[i].key = host_path[t] PROVE At(i) = e
    <3>1. rows[i] \in Rows
      BY <1>1
    <3>2. new[i].expire = sql[t].expire /\ new[i].resp = Literal(sql[t].resp)
      BY <2>3, <2>4, <3>1 DEF Rows
    <3> QED
      BY <3>2 DEF e
  <2>5. \A k : Of(k) = RowsOf(k)
    BY <2>2 DEF RowsOf
  <2>6. ASSUME NEW k \in Keys, k # host_path[t]
        PROVE  {At(i) : i \in Of(k)} = {EntryAt(i) : i \in RowsOf(k)}
    <3>1. \A i \in RowsOf(k) : At(i) = EntryAt(i)
      BY <2>3, <2>6 DEF RowsOf, EntryAt
    <3> HIDE DEF At, Of
    <3> QED
      BY <2>5, <3>1
  <2>7. {At(i) : i \in Of(host_path[t])} = {e}
    <3>1. RowsOf(host_path[t]) # {}
      BY <1>2, <1>3, <1>7 DEF RefineInv, FoundIsThere, Found
    <3>2. \A i \in RowsOf(host_path[t]) : At(i) = e
      BY <2>4 DEF RowsOf
    <3> HIDE DEF At, Of
    <3> QED
      BY <2>5, <3>1, <3>2
  <2> HIDE DEF At, Of
  <2> QED
    BY <1>2, <1>4, <1>5, <1>7, <2>6, <2>7 DEF AbsCache
<1> QED
  BY <1>6, <1>7 DEF StepWrite

\* The step of the insert or update is the save.
LEMMA WriteRefines ==
  ASSUME RefineInv, Undamaged, NEW t \in Threads, Sqlite(t), Step(t), StepWrite(t)
  PROVE  Cache!Steps
<1>1. IInv /\ TypeOK
  BY DEF RefineInv, IInv
<1>2. UNCHANGED <<now, pc, localVars, intact>>
  BY DEF Undamaged, Sqlite
<1>3. \A u \in Threads \ {t} : SameRequest(u)
  BY <1>1, <1>2, OthersSame DEF DbCall
<1>4. /\ Calls(t, sql[t]) /\ pc[t] = "store" /\ qpc[t] = "step"
      /\ qpc'[t] = "finalize" /\ sql' = sql /\ stmtRc' = stmtRc
  BY <1>1, CallsFacts
  DEF Step, StepWrite, StepDone, IInv, StatementMatches, TypeOK, DbTypeOK
<1>5. sql[t].op = IF update_cache[t] THEN "update" ELSE "insert"
  BY <1>1, <1>4 DEF Calls, RefineInv, FlagsOK, FlagsFor, TypeOK
<1>6. WellFormed(sql[t]) /\ stmtRc[t] = "OK"
  BY <1>4 DEF RefineInv, StatementsOK, StatementFor
<1>7. ~Written(t) /\ Written(t)'
  BY <1>4, <1>6 DEF Written, WellFormed
<1>8. /\ AbsPhase(t) = IF update_cache[t] THEN "refetched" ELSE "fetched"
      /\ AbsPhase(t)' = "reply"
      /\ AbsWant(t) = host_path[t] /\ AbsWant(t)' = host_path[t]
      /\ AbsShown(t) = [expire |-> "none"] /\ AbsShown(t)' = [expire |-> "none"]
  BY <1>2, <1>4, <1>7 DEF AbsPhase, AbsWant, AbsShown, localVars, flagVars
<1>9. AbsWants' = AbsWants /\ AbsShowns' = AbsShowns
  BY <1>3, <1>8 DEF AbsWants, AbsShowns, SameRequest
<1>10. Cache!Save(t)
  BY <1>2, <1>3, <1>5, <1>8, <1>9, AbsMove, WriteEntries
  DEF Undamaged, Cache!Save, Cache!Move, localVars
<1> QED
  BY <1>10 DEF Cache!Steps

\* A step that fails, and sqlite3_finalize, are not seen by the cache.
LEMMA FinalizeRefines ==
  ASSUME RefineInv, Undamaged, NEW t \in Threads, Sqlite(t),
         StepFault(t) \/ Finalize(t)
  PROVE  UNCHANGED Cache!vars
<1>1. IInv /\ TypeOK
  BY DEF RefineInv, IInv
<1>2. UNCHANGED <<now, pc, localVars, rows, results, intact>>
  BY DEF Undamaged, Sqlite, StepFault, Finalize
<1>3. \A u \in Threads \ {t} : SameRequest(u)
  BY <1>1, <1>2, OthersSame DEF DbCall
<1>4. Written(t)' = Written(t)
  BY <1>1 DEF StepFault, Finalize, Written, WellFormed, TypeOK, DbTypeOK
<1>5. AbsPhase(t)' = AbsPhase(t)
  BY <1>2, <1>4 DEF AbsPhase, localVars, flagVars
<1>6. SameRequest(t)
  BY <1>2, <1>5 DEF SameRequest, AbsWant, AbsShown, localVars
<1> QED
  BY <1>2, <1>3, <1>6, AbsStutter DEF localVars

\* A restart is a crash of the abstract cache, and its clock is the wall clock.
LEMMA WorldRefines ==
  ASSUME RefineInv, Tick \/ Restart
  PROVE  Cache!Steps
<1>1. CASE Tick
  <2>1. UNCHANGED <<dbVars, pc, localVars, intact>>
    BY <1>1 DEF Tick, dbVars
  <2>2. \A u \in Threads : SameRequest(u)
    BY <2>1, RequestFrame DEF SameThread, SameLocals, dbVars, localVars, flagVars
  <2>3. AbsCache' = AbsCache
    BY <2>1 DEF dbVars, AbsCache, RowsOf, EntryAt
  <2>4. AbsPhases' = AbsPhases /\ AbsWants' = AbsWants /\ AbsShowns' = AbsShowns
    BY <2>2 DEF AbsPhases, AbsWants, AbsShowns, SameRequest
  <2>5. Cache!Tick
    BY <1>1, <2>1, <2>3, <2>4 DEF Tick, Cache!Tick, localVars
  <2> QED
    BY <2>5 DEF Cache!Steps
<1>2. CASE Restart
  <2>1. \A t \in Threads :
          qpc'[t] = "idle" /\ results'[t] = << >> /\ pc'[t] = "none"
    BY <1>2 DEF Restart
  <2>2. \A t \in Threads :
          /\ AbsPhase(t)' = "idle" /\ AbsWant(t)' = "none"
          /\ AbsShown(t)' = Cache!NoEntry
    BY <2>1, NextRequest DEF Cache!NoEntry
  <2>3. AbsCache' = AbsCache
    BY <1>2 DEF Restart, AbsCache, RowsOf, EntryAt
  <2>4. resp' = [t \in Threads |-> Cache!NoResp] /\ UNCHANGED <<now, intact>>
    BY <1>2 DEF Restart, NoResp, Cache!NoResp
  <2>5. Cache!Crash
    BY <2>2, <2>3, <2>4 DEF Cache!Crash, AbsPhases, AbsWants, AbsShowns
  <2> QED
    BY <2>5 DEF Cache!Steps
<1> QED
  BY <1>1, <1>2

\* The program starts where the abstract cache does.
LEMMA InitRefines == Init => Cache!Init
<1> SUFFICES ASSUME Init PROVE Cache!Init
  OBVIOUS
<1>1. AbsCache = [k \in Keys |-> {}]
  BY DEF Init, AbsCache, RowsOf
<1>2. \A t \in Threads : /\ AbsPhase(t) = "idle" /\ AbsWant(t) = "none"
                          /\ AbsShown(t) = Cache!NoEntry
  BY DEF Init, ThreadsInit, AbsPhase, AbsWant, AbsShown, Cache!NoEntry
<1>3. resp = [t \in Threads |-> Cache!NoResp] /\ now = 0 /\ intact = TRUE
  BY DEF Init, ThreadsInit, NoResp, Cache!NoResp
<1> QED
  BY <1>1, <1>2, <1>3 DEF Cache!Init, AbsPhases, AbsWants, AbsShowns

\* A step damages nothing, or nothing is promised after it.
LEMMA DamageOrNot ==
  ASSUME IInv, [Next]_vars
  PROVE  Undamaged \/ Cache!Damage
<1>1. intact \in BOOLEAN /\ intact' \in BOOLEAN
  BY NextIInv DEF IInv, TypeOK, DbTypeOK
<1>2. intact' => intact
  BY NextIntact DEF IInv
<1> QED
  BY <1>1, <1>2 DEF Undamaged, Cache!Damage

\* Every step that damages nothing, but the return of an insert or update that was
\* not carried out, is a step of the abstract cache that loses nothing.
LEMMA StepRefines ==
  ASSUME RefineInv, [Next]_vars, Undamaged
  PROVE  \/ [Cache!Steps]_(Cache!vars)
         \/ \E t \in Threads : Stored(t) /\ ~Written(t)
<1>1. CASE UNCHANGED vars
  <2>1. \A u \in Threads : SameRequest(u)
    BY <1>1, RequestFrame
    DEF vars, SameThread, SameLocals, dbVars, localVars, flagVars
  <2> QED
    BY <1>1, <2>1, AbsStutter DEF vars, dbVars, localVars
<1>2. ASSUME NEW t \in Threads, NoSqlite(t) PROVE [Cache!Steps]_(Cache!vars)
  BY <1>2, ClientRefines, RemoteRefines, ReplyRefines DEF NoSqlite
<1>3. ASSUME NEW t \in Threads, QueryEnds(t), ~(Stored(t) /\ ~Written(t))
      PROVE  [Cache!Steps]_(Cache!vars)
  BY <1>3, CheckedRefines, GotRefines, StoredSure, DeathRefines DEF QueryEnds
<1>4. ASSUME NEW t \in Threads, Sqlite(t) PROVE [Cache!Steps]_(Cache!vars)
  <2>1. intact'
    BY DEF Undamaged
  <2> QED
    BY <1>4, <2>1, StepMeant, CountRefines, SelectRefines, WriteRefines,
       FinalizeRefines DEF Sqlite
<1>5. ASSUME NEW t \in Threads PROVE ~NullColumn(t)
  BY DEF NullColumn, Undamaged
<1> QED
  BY <1>1, <1>2, <1>3, <1>4, <1>5, CallRefines, WorldRefines, NextKinds

\* Every reachable state satisfies RefineInv.
LEMMA RefineInvariance == Spec => []RefineInv
  BY Invariance, FlagsInvariance, StatementsInvariance, FoundInvariance,
     RespUnsetInvariance, PTL DEF RefineInv

\* The connection threads, with their queries cut into sqlite3 calls, with any
\* faults and any restarts, implement the abstract caching proxy, until a quote in
\* a text makes a different statement.  When no query can fail, and in a process
\* with one connection thread whatever fails, the constant MayLose is false: no
\* save is lost.
THEOREM Refinement == Spec => RefinesCachingProxy
<1>1. RefineInv /\ (Alone => Honest) /\ [Next]_vars => [Cache!Next]_(Cache!vars)
  <2> SUFFICES ASSUME RefineInv, Alone => Honest, [Next]_vars
               PROVE  [Cache!Next]_(Cache!vars)
    OBVIOUS
  <2>1. CASE Undamaged
    <3>1. intact
      BY <2>1 DEF Undamaged
    <3> QED
      BY <2>1, <3>1, StepRefines, StoredLost DEF Cache!Next
  <2> QED
    BY <2>1, DamageOrNot DEF RefineInv, Cache!Next
<1>2. Spec => [](Alone => Honest)
  <2>1. CASE Alone
    BY <2>1, HonestInvariance, PTL
  <2>2. CASE ~Alone
    BY <2>2, PTL
  <2> QED
    BY <2>1, <2>2
<1> QED
  BY <1>1, <1>2, InitRefines, RefineInvariance, PTL
  DEF Spec, RefinesCachingProxy, Cache!Spec

\* Many threads whose queries may fail lose no save either as long as no two
\* queries overlap: until a text makes a different statement, every response that
\* is fetched and sent was saved in one step, although the steps of different
\* requests interleave.
THEOREM SerializedRefinement == Spec /\ []Serialized => Cache!SureSpec
<1>1. RefineInv /\ Honest /\ [Next]_vars => [Cache!Damage \/ Cache!Steps]_(Cache!vars)
  <2> SUFFICES ASSUME RefineInv, Honest, [Next]_vars
               PROVE  [Cache!Damage \/ Cache!Steps]_(Cache!vars)
    OBVIOUS
  <2>1. CASE Undamaged
    <3>1. intact
      BY <2>1 DEF Undamaged
    <3> QED
      BY <2>1, <3>1, StepRefines, StoredWritten DEF RefineInv
  <2> QED
    BY <2>1, DamageOrNot DEF RefineInv
<1> QED
  BY <1>1, InitRefines, RefineInvariance, SerializedHonest, PTL
  DEF Spec, Cache!SureSpec
=============================================================================
