--------------------------- MODULE CacheDbProofs ---------------------------
(***************************************************************************)
(* Facts about the actions of CacheDb that hold whoever calls them: every  *)
(* sqlite3 call keeps the types, and the table only grows at its end.      *)
(***************************************************************************)
EXTENDS CacheDb, FiniteSetTheorems, TLAPS

\* COUNT(*) of a key is a natural number, zero exactly when it has no row.
LEMMA RowsOfFinite ==
  ASSUME rows \in Seq(Rows), NEW k
  PROVE  /\ IsFiniteSet(RowsOf(k))
         /\ Cardinality(RowsOf(k)) \in Nat
         /\ Cardinality(RowsOf(k)) = 0 <=> RowsOf(k) = {}
<1>1. DOMAIN rows = 1..Len(rows) /\ Len(rows) \in Nat
  OBVIOUS
<1>2. IsFiniteSet(1..Len(rows))
  BY <1>1, FS_Interval
<1>3. IsFiniteSet(RowsOf(k))
  BY <1>1, <1>2, FS_Subset DEF RowsOf
<1> QED
  BY <1>3, FS_CardinalityType, FS_EmptySet

\* What reading back a literal gives is a response for the same key with the
\* same Expires header.
LEMMA LiteralFacts ==
  ASSUME NEW r \in Resps
  PROVE  /\ Literal(r) \in Resps
         /\ Literal(r).key = r.key
         /\ Literal(r).expires = r.expires
  BY DbAssumption DEF Literal, Resps

\* INSERT appends one row of the statement's key.
LEMMA InsertedFacts ==
  ASSUME rows \in Seq(Rows), NEW t \in Threads, NEW s \in Statements, s.op = "insert"
  PROVE  /\ s.key \in Keys /\ s.expire \in Expires /\ s.resp \in Resps
         /\ Inserted(t, s) \in Seq(Rows)
         /\ Len(Inserted(t, s)) = Len(rows) + 1
         /\ \A n \in DOMAIN rows : Inserted(t, s)[n] = rows[n]
         /\ Inserted(t, s)[Len(rows) + 1] =
              [key |-> s.key, expire |-> s.expire, resp |-> Literal(s.resp),
               by |-> t]
<1>1. s.key \in Keys /\ s.expire \in Expires /\ s.resp \in Resps
  BY DEF Statements
<1> DEFINE r == [key |-> s.key, expire |-> s.expire, resp |-> Literal(s.resp),
                 by |-> t]
<1>2. r \in Rows
  BY <1>1, LiteralFacts DEF Rows
<1> HIDE DEF r
<1>3. Inserted(t, s) = Append(rows, r)
  BY DEF Inserted, r
<1> QED
  BY <1>1, <1>2, <1>3 DEF r

\* UPDATE keeps the number of rows, their keys and who inserted them; a row it
\* changes has the statement's expiry date and response.
LEMMA UpdatedFacts ==
  ASSUME rows \in Seq(Rows), NEW s \in Statements, s.op = "update"
  PROVE  /\ s.key \in Keys /\ s.expire \in Expires /\ s.resp \in Resps
         /\ Updated(s) \in Seq(Rows)
         /\ Len(Updated(s)) = Len(rows)
         /\ DOMAIN Updated(s) = DOMAIN rows
         /\ \A n \in DOMAIN rows :
              /\ Updated(s)[n].key = rows[n].key
              /\ Updated(s)[n].by = rows[n].by
              /\ \/ Updated(s)[n] = rows[n]
                 \/ /\ rows[n].key = s.key
                    /\ Updated(s)[n].expire = s.expire
                    /\ Updated(s)[n].resp = Literal(s.resp)
<1>1. s.key \in Keys /\ s.expire \in Expires /\ s.resp \in Resps
  BY DEF Statements
<1>2. Literal(s.resp) \in Resps
  BY <1>1, LiteralFacts
<1>3. DOMAIN rows = 1..Len(rows) /\ Len(rows) \in Nat
  OBVIOUS
<1>4. ASSUME NEW n \in DOMAIN rows
      PROVE  /\ Updated(s)[n] \in Rows
             /\ Updated(s)[n].key = rows[n].key
             /\ Updated(s)[n].by = rows[n].by
             /\ \/ Updated(s)[n] = rows[n]
                \/ /\ rows[n].key = s.key
                   /\ Updated(s)[n].expire = s.expire
                   /\ Updated(s)[n].resp = Literal(s.resp)
  <2>1. rows[n] \in Rows
    BY <1>4
  <2> QED
    BY <1>1, <1>2, <2>1 DEF Updated, Rows
<1>5. DOMAIN Updated(s) = 1..Len(rows)
  BY <1>3 DEF Updated
<1>6. Updated(s) \in [1..Len(rows) -> Rows]
  BY <1>3, <1>4, <1>5 DEF Updated
<1>7. Updated(s) \in Seq(Rows) /\ Len(Updated(s)) = Len(rows)
  BY <1>3, <1>6
<1> QED
  BY <1>1, <1>3, <1>4, <1>5, <1>7

\* sqlite3_prepare_v2 keeps the types.
LEMMA PrepareType ==
  ASSUME DbTypeOK, NEW t \in Threads, NEW s \in Statements, Prepare(t, s)
  PROVE  DbTypeOK'
<1>1. sql' \in [Threads -> Statements \cup {NoStatement}]
  BY DEF DbTypeOK, Prepare
<1>2. qpc' \in [Threads -> {"idle", "step", "finalize", "errmsg", "threw"}]
  BY DEF DbTypeOK, Prepare
<1>3. errCode' \in ErrCodes
  BY DEF Prepare, ErrCodes
<1> QED
  BY <1>1, <1>2, <1>3 DEF DbTypeOK, Prepare

\* sqlite3_step that returns a row or SQLITE_DONE keeps the types.
LEMMA StepRowType ==
  ASSUME DbTypeOK, NEW t \in Threads, NEW v \in Values, NEW c \in Nat,
         StepRow(t, v, c), UNCHANGED <<sql, stmtRc>>, intact' \in BOOLEAN
  PROVE  DbTypeOK'
<1>1. results' \in [Threads -> Seq(Values)]
  BY DEF StepRow, DbTypeOK
<1> QED
  BY <1>1 DEF StepRow, DbTypeOK, ErrCodes

\* ... and so does the last one, which leaves the table as new.
LEMMA StepDoneType ==
  ASSUME DbTypeOK, NEW t \in Threads, NEW new \in Seq(Rows),
         StepDone(t, new), UNCHANGED <<sql, stmtRc>>, intact' \in BOOLEAN
  PROVE  DbTypeOK'
  BY DEF StepDone, DbTypeOK, ErrCodes

\* A different statement leaves a table of rows, too.
LEMMA SplicedFacts ==
  ASSUME rows \in Seq(Rows), NEW t \in Threads
  PROVE  SplicedUpdates \subseteq Seq(Rows) /\ SplicedInserts(t) \subseteq Seq(Rows)
<1>1. DOMAIN rows = 1..Len(rows) /\ Len(rows) \in Nat
  OBVIOUS
<1>2. \A r \in SplicedRows, u \in Threads : [r EXCEPT !.by = u] \in Rows
  BY DbAssumption DEF Rows
<1>3. ASSUME NEW new \in SplicedUpdates PROVE new \in Seq(Rows)
  <2> DEFINE stray == {[r EXCEPT !.by = u] : r \in SplicedRows, u \in Threads}
  <2>1. new \in [DOMAIN rows -> stray \cup {rows[i] : i \in DOMAIN rows}]
    BY DEF SplicedUpdates
  <2>2. stray \cup {rows[i] : i \in DOMAIN rows} \subseteq Rows
    BY <1>1, <1>2
  <2> HIDE DEF stray
  <2>3. new \in [1..Len(rows) -> Rows]
    BY <1>1, <2>1, <2>2
  <2> QED
    BY <1>1, <2>3
<1>4. ASSUME NEW new \in SplicedInserts(t) PROVE new \in Seq(Rows)
  <2> DEFINE mine == {[r EXCEPT !.by = t] : r \in SplicedRows}
  <2>1. PICK n \in 1..MaxSpliced : \E added \in [1..n -> mine] : new = rows \o added
    BY DEF SplicedInserts
  <2> PICK added \in [1..n -> mine] : new = rows \o added
    BY <2>1
  <2>2. mine \subseteq Rows
    BY <1>2
  <2> HIDE DEF mine
  <2>3. n \in Nat /\ added \in [1..n -> Rows]
    BY <2>2, DbAssumption
  <2>4. added \in Seq(Rows)
    BY <2>3
  <2> QED
    BY <2>4
<1> QED
  BY <1>3, <1>4

\* As long as nothing is damaged a step is that of the statement meant.
LEMMA StepMeant ==
  ASSUME NEW t \in Threads, Step(t), intact'
  PROVE  /\ ~Spliced(sql[t]) /\ intact
         /\ StepCount(t) \/ StepSelect(t) \/ StepWrite(t)
  BY DEF Step

\* What the step of a statement that is a different one does to the table and to
\* the results.
LEMMA SplicedStepFacts ==
  ASSUME DbTypeOK, NEW t \in Threads, StepSpliced(t)
  PROVE  \/ \E v \in Values : \E c \in Nat \ {0} : StepRow(t, v, c)
         \/ \E new \in Seq(Rows) : StepDone(t, new)
<1>1. rows \in Seq(Rows) /\ Len(rows) \in Nat /\ cursor[t] \in Nat
  BY DEF DbTypeOK
<1>2. \A n \in 0..Len(rows) : [count |-> n] \in Values
  BY <1>1 DEF Values
<1>3. \A r \in SplicedRows \cup {rows[i] : i \in DOMAIN rows} : r \in Values
  BY <1>1, DbAssumption DEF Values
<1>4. CASE \E n \in 0..Len(rows) : StepRow(t, [count |-> n], 1)
  BY <1>2, <1>4
<1>5. CASE \E r \in SplicedRows \cup {rows[i] : i \in DOMAIN rows} :
             StepRow(t, r, cursor[t] + 1)
  BY <1>1, <1>3, <1>5
<1>6. CASE \E new \in SplicedInserts(t) \cup SplicedUpdates \cup {rows} :
             StepDone(t, new)
  BY <1>1, <1>6, SplicedFacts
<1> QED
  BY <1>4, <1>5, <1>6 DEF StepSpliced

\* Any step adds a result or ends the scan.
LEMMA StepShape ==
  ASSUME DbTypeOK, NEW t \in Threads, Step(t)
  PROVE  /\ qpc[t] = "step" /\ sql' = sql /\ stmtRc' = stmtRc
         /\ \/ \E v, c : StepRow(t, v, c)
            \/ \E new : StepDone(t, new)
<1>1. CASE StepSpliced(t)
  BY <1>1, SplicedStepFacts DEF Step
<1>2. CASE ~StepSpliced(t)
  BY <1>2 DEF Step, StepCount, StepSelect, StepWrite
<1> QED
  BY <1>1, <1>2

\* What a different statement reads: counts for a count, rows for a select.
LEMMA SplicedRead ==
  ASSUME DbTypeOK, NEW t \in Threads, StepSpliced(t), ~UNCHANGED results
  PROVE  \E v : /\ results'[t] = Append(results[t], v)
                /\ sql[t].op = "count" => v \in [count : Nat]
                /\ sql[t].op = "select" => v \in Rows
                /\ sql[t].op \in {"count", "select"}
<1>1. rows \in Seq(Rows) /\ Len(rows) \in Nat
  BY DEF DbTypeOK
<1>2. CASE sql[t].op = "count" /\ \E n \in 0..Len(rows) : StepRow(t, [count |-> n], 1)
  <2>1. PICK n \in 0..Len(rows) : StepRow(t, [count |-> n], 1)
    BY <1>2
  <2>2. results'[t] = Append(results[t], [count |-> n])
    BY <2>1 DEF StepRow, DbTypeOK
  <2> QED
    BY <1>1, <1>2, <2>2
<1>3. CASE /\ sql[t].op = "select"
           /\ \E r \in SplicedRows \cup {rows[i] : i \in DOMAIN rows} :
                StepRow(t, r, cursor[t] + 1)
  <2>1. PICK r \in SplicedRows \cup {rows[i] : i \in DOMAIN rows} :
          StepRow(t, r, cursor[t] + 1)
    BY <1>3
  <2>2. r \in Rows
    BY <1>1, DbAssumption
  <2>3. results'[t] = Append(results[t], r)
    BY <2>1 DEF StepRow, DbTypeOK
  <2> QED
    BY <1>3, <2>2, <2>3
<1> QED
  BY <1>2, <1>3 DEF StepSpliced, StepDone

\* sqlite3_step keeps the types: what it collects is a count or a row.
LEMMA StepType ==
  ASSUME DbTypeOK, NEW t \in Threads, Step(t)
  PROVE  DbTypeOK'
<1>1. rows \in Seq(Rows) /\ sql[t] \in Statements \cup {NoStatement}
  BY DEF DbTypeOK
<1>2. UNCHANGED <<sql, stmtRc>> /\ intact' \in BOOLEAN
  BY DEF Step, DbTypeOK
<1>3. CASE StepCount(t)
  <2>1. [count |-> Cardinality(RowsOf(sql[t].key))] \in Values
    BY <1>1, RowsOfFinite DEF Values
  <2> QED
    BY <1>1, <1>2, <1>3, <2>1, StepRowType, StepDoneType DEF StepCount
<1>4. CASE StepSelect(t)
  <2>1. \A n \in RowsOf(sql[t].key) : n \in Nat /\ rows[n] \in Values
    BY <1>1 DEF RowsOf, Values
  <2> QED
    BY <1>1, <1>2, <1>4, <2>1, StepRowType, StepDoneType DEF StepSelect
<1>5. CASE StepWrite(t)
  <2>1. sql[t] \in Statements
    BY <1>1, <1>5 DEF StepWrite, NoStatement
  <2> QED
    BY <1>1, <1>2, <1>5, <2>1, InsertedFacts, UpdatedFacts, StepDoneType DEF StepWrite
<1>6. CASE StepSpliced(t)
  BY <1>2, <1>6, SplicedStepFacts, StepRowType, StepDoneType
<1> QED
  BY <1>3, <1>4, <1>5, <1>6 DEF Step

\* The other calls of query() keep the types.
LEMMA QueryType ==
  ASSUME DbTypeOK, NEW t \in Threads,
         StepFault(t) \/ Finalize(t) \/ QueryReturn(t) \/ QueryThrow(t)
  PROVE  DbTypeOK'
<1>1. CASE StepFault(t)
  BY <1>1 DEF StepFault, DbTypeOK, ErrCodes
<1>2. CASE Finalize(t)
  BY <1>2 DEF Finalize, DbTypeOK, ErrCodes
<1>3. CASE QueryReturn(t)
  BY <1>3 DEF QueryReturn, DbTypeOK, ErrCodes
<1>4. CASE QueryThrow(t)
  BY <1>4 DEF QueryThrow, DbTypeOK, ErrCodes
<1> QED
  BY <1>1, <1>2, <1>3, <1>4

----------------------------------------------------------------------------
(* What the places in query() say about its statement. *)

\* A step of query(), by whichever method.
DbCall(t) ==
  \/ \E s \in Statements : Prepare(t, s)
  \/ Step(t) \/ StepFault(t) \/ Finalize(t) \/ QueryReturn(t) \/ QueryThrow(t)

\* A statement that is stepped has compiled and has not failed yet, its cursor
\* moves with the first result, and a count that did not fail has a result, while
\* every statement is the one that was meant.
StatementFor(t) ==
  /\ qpc[t] \in {"step", "finalize"} =>
       sql[t] \in Statements /\ WellFormed(sql[t])
  /\ qpc[t] = "step" => stmtRc[t] = "OK"
  /\ qpc[t] = "step" /\ results[t] = << >> => cursor[t] = 0
  /\ intact /\ qpc[t] \in {"finalize", "errmsg"} /\ ~OwnFailure(t)
     /\ sql[t].op = "count" => results[t] # << >>
  /\ intact /\ stmtRc[t] = "ERROR" => StepFaults

StatementsOK == \A t \in Threads : StatementFor(t)

\* A call of one thread leaves the statements of the others alone.
LEMMA DbCallFrame ==
  ASSUME DbTypeOK, NEW t \in Threads, DbCall(t), NEW u \in Threads, u # t
  PROVE  /\ qpc'[u] = qpc[u] /\ sql'[u] = sql[u] /\ stmtRc'[u] = stmtRc[u]
         /\ cursor'[u] = cursor[u] /\ results'[u] = results[u]
<1> USE DEF DbTypeOK
<1>1. ASSUME NEW s \in Statements, Prepare(t, s)
      PROVE  /\ qpc'[u] = qpc[u] /\ sql'[u] = sql[u] /\ stmtRc'[u] = stmtRc[u]
             /\ cursor'[u] = cursor[u] /\ results'[u] = results[u]
  BY <1>1 DEF Prepare
<1>2. CASE Step(t)
  BY <1>2, StepShape DEF StepRow, StepDone
<1>3. CASE StepFault(t) \/ Finalize(t) \/ QueryReturn(t) \/ QueryThrow(t)
  BY <1>3 DEF StepFault, Finalize, QueryReturn, QueryThrow
<1> QED
  BY <1>1, <1>2, <1>3 DEF DbCall

\* What has been damaged stays so.
LEMMA IntactOnce ==
  ASSUME DbTypeOK, NEW t \in Threads, DbCall(t), intact'
  PROVE  intact
<1>1. CASE \E s \in Statements : Prepare(t, s)
  BY <1>1 DEF Prepare
<1> QED
  BY <1>1 DEF DbCall, Step, StepFault, Finalize, QueryReturn, QueryThrow

\* An append makes a sequence that is not empty.
LEMMA AppendNotEmpty ==
  ASSUME NEW S, NEW q \in Seq(S), NEW v
  PROVE  Append(q, v) # << >>
<1> DEFINE T == S \cup {v}
<1>1. q \in [1..Len(q) -> T] /\ Len(q) \in Nat
  OBVIOUS
<1>2. q \in Seq(T) /\ v \in T
  BY <1>1
<1> HIDE DEF T
<1>3. Append(q, v) \in Seq(T) /\ Len(Append(q, v)) = Len(q) + 1
  BY <1>2
<1> QED
  BY <1>1, <1>3

\* Every call keeps what StatementsOK says, whatever the other threads do.
LEMMA StatementsKept ==
  ASSUME DbTypeOK, StatementsOK, NEW t \in Threads, DbCall(t)
  PROVE  StatementsOK'
<1> SUFFICES ASSUME NEW u \in Threads PROVE StatementFor(u)'
  BY DEF StatementsOK
<1>1. CASE u # t
  BY <1>1, DbCallFrame, IntactOnce DEF StatementsOK, StatementFor, OwnFailure, WellFormed
<1>2. ASSUME u = t, NEW s \in Statements, Prepare(t, s) PROVE StatementFor(t)'
  <2>1. s # NoStatement
    BY DEF Statements, NoStatement
  <2> QED
    BY <1>2, <2>1 DEF Prepare, DbTypeOK, StatementFor, OwnFailure, WellFormed
<1>3. CASE u = t /\ Step(t)
  <2>1. /\ sql[t] \in Statements /\ WellFormed(sql[t])
        /\ stmtRc[t] = "OK" /\ qpc[t] = "step"
    BY <1>3 DEF Step, StatementsOK, StatementFor
  <2>2. sql' = sql /\ stmtRc' = stmtRc
    BY <1>3 DEF Step
  <2>3. ASSUME NEW v, NEW c, StepRow(t, v, c) PROVE StatementFor(t)'
    <3>1. results'[t] # << >>
      BY <2>3, AppendNotEmpty DEF StepRow, DbTypeOK
    <3> QED
      BY <2>1, <2>2, <2>3, <3>1 DEF StepRow, DbTypeOK, StatementFor, WellFormed
  <2>4. ASSUME NEW new, StepDone(t, new),
               intact' /\ sql[t].op = "count" => cursor[t] # 0
        PROVE  StatementFor(t)'
    BY <2>1, <2>2, <2>4
    DEF StepDone, DbTypeOK, StatementsOK, StatementFor, WellFormed
  <2>5. CASE StepSpliced(t) /\ ~intact'
    BY <2>3, <2>4, <2>5, <1>3, StepShape
  <2> QED
    BY <1>3, <2>3, <2>4, <2>5 DEF Step, StepCount, StepSelect, StepWrite
<1>4. CASE u = t /\ StepFault(t)
  <2>1. OwnFailure(t)'
    <3>1. sql[t] \in Statements /\ sql' = sql /\ stmtRc'[t] = "ERROR"
      BY <1>4 DEF StepFault, StatementsOK, StatementFor, DbTypeOK
    <3> QED
      BY <3>1 DEF OwnFailure, Statements, NoStatement
  <2> QED
    BY <1>4, <2>1 DEF StepFault, DbTypeOK, StatementsOK, StatementFor, WellFormed
<1>5. CASE u = t /\ (Finalize(t) \/ QueryThrow(t))
  BY <1>5
  DEF Finalize, QueryThrow, DbTypeOK, StatementsOK, StatementFor, OwnFailure, WellFormed
<1>6. CASE u = t /\ QueryReturn(t)
  BY <1>6 DEF QueryReturn, DbTypeOK, StatementsOK, StatementFor
<1> QED
  BY <1>1, <1>2, <1>3, <1>4, <1>5, <1>6 DEF DbCall

----------------------------------------------------------------------------
(* Queries that do not overlap. *)

\* Between the calls of query() the codes tell whether the statement failed.
\* Only while no other query runs: the connection's code is everybody's.
CodesFor(t) ==
  /\ qpc[t] \in {"step", "finalize"} =>
       sql[t] \in Statements /\ WellFormed(sql[t])
  /\ qpc[t] = "step" => stmtRc[t] = "OK"
  /\ qpc[t] = "errmsg" => (errCode = "OK" <=> ~OwnFailure(t))
  /\ qpc[t] = "threw" => OwnFailure(t)

CodesTell == \A t \in Threads : CodesFor(t)

\* A call keeps what the codes tell its own thread.
LEMMA CodesOwn ==
  ASSUME DbTypeOK, NEW t \in Threads, CodesFor(t), DbCall(t)
  PROVE  CodesFor(t)'
<1>1. ASSUME NEW s \in Statements, Prepare(t, s) PROVE CodesFor(t)'
  <2>1. s # NoStatement
    BY DEF Statements, NoStatement
  <2> QED
    BY <1>1, <2>1 DEF Prepare, CodesFor, OwnFailure, WellFormed, DbTypeOK
<1>2. CASE Step(t)
  BY <1>2, StepShape DEF StepRow, StepDone, CodesFor, WellFormed, DbTypeOK
<1>3. CASE StepFault(t)
  BY <1>3 DEF StepFault, CodesFor, WellFormed, DbTypeOK
<1>4. CASE Finalize(t)
  <2>1. sql[t] # NoStatement /\ WellFormed(sql[t])
    BY <1>4 DEF Finalize, CodesFor, Statements, NoStatement
  <2> QED
    BY <1>4, <2>1 DEF Finalize, CodesFor, OwnFailure, WellFormed, DbTypeOK
<1>5. CASE QueryReturn(t) \/ QueryThrow(t)
  BY <1>5 DEF QueryReturn, QueryThrow, CodesFor, OwnFailure, WellFormed, DbTypeOK
<1> QED
  BY <1>1, <1>2, <1>3, <1>4, <1>5 DEF DbCall

\* ... and what they tell a thread whose query does not overlap with it: only
\* the end of a query leaves the connection's code alone.
LEMMA CodesOther ==
  ASSUME DbTypeOK, Serialized', NEW t \in Threads, DbCall(t),
         NEW u \in Threads, u # t, CodesFor(u)
  PROVE  CodesFor(u)'
<1>1. qpc'[u] = qpc[u] /\ sql'[u] = sql[u] /\ stmtRc'[u] = stmtRc[u]
  BY DbCallFrame
<1>2. CASE QueryReturn(t) \/ QueryThrow(t)
  <2>1. errCode' = errCode
    BY <1>2 DEF QueryReturn, QueryThrow
  <2> QED
    BY <1>1, <2>1 DEF CodesFor, OwnFailure, WellFormed
<1>3. CASE ~(QueryReturn(t) \/ QueryThrow(t))
  <2>1. InQuery(t)'
    <3>1. ASSUME NEW s \in Statements, Prepare(t, s) PROVE InQuery(t)'
      BY <3>1 DEF Prepare, InQuery, DbTypeOK
    <3>2. CASE Step(t)
      BY <3>2, StepShape DEF StepRow, StepDone, InQuery, DbTypeOK
    <3>3. CASE StepFault(t) \/ Finalize(t)
      BY <3>3 DEF StepFault, Finalize, InQuery, DbTypeOK
    <3> QED
      BY <1>3, <3>1, <3>2, <3>3 DEF DbCall
  <2>2. ~InQuery(u)'
    BY <2>1 DEF Serialized
  <2> QED
    BY <1>1, <2>2 DEF CodesFor, InQuery, OwnFailure, WellFormed
<1> QED
  BY <1>2, <1>3

\* So every call of query() keeps CodesTell as long as no two queries overlap.
LEMMA CodesTellCall ==
  ASSUME DbTypeOK, Serialized', CodesTell, NEW t \in Threads, DbCall(t)
  PROVE  CodesTell'
<1> SUFFICES ASSUME NEW u \in Threads PROVE CodesFor(u)'
  BY DEF CodesTell
<1>1. CodesFor(t) /\ CodesFor(u)
  BY DEF CodesTell
<1>2. CASE u = t
  BY <1>1, <1>2, CodesOwn
<1>3. CASE u # t
  BY <1>1, <1>3, CodesOther
<1> QED
  BY <1>2, <1>3
=============================================================================
