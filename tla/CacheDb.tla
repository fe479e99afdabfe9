------------------------------ MODULE CacheDb ------------------------------
(***************************************************************************)
(* The response cache: class Database of src/src/cache-db.cc.  One object, *)
(* hence one sqlite3 connection, is shared by every connection thread.     *)
(*                                                                         *)
(* Database::query is a sequence of sqlite3 calls.  The library runs each  *)
(* call under the mutex of the connection (the vendored sqlite3.c is built *)
(* with SQLITE_THREADSAFE 1), but nothing holds that mutex from one call   *)
(* to the next.  So every sqlite3 call is one action here, and the         *)
(* connection's error code (db->errCode, what sqlite3_errmsg formats) is   *)
(* shared state that the calls of other threads overwrite in between.      *)
(***************************************************************************)
EXTENDS Integers, Sequences, FiniteSets

CONSTANTS
  Threads,     \* the threads that share the Database object
  Keys,        \* HOST_PATH texts
  Foreign,     \* none of them: of a response nobody produced for a HOST_PATH
  Expires,     \* EXPIRE texts
  Bodies,      \* what tells two responses with the same headers apart
  Unquoted,    \* what the SQL literal made of each body denotes: a doubled
               \* quote inside a literal stands for one quote
  BadStatements,      \* the statements whose text does not compile, and ...
  SplicedStatements,  \* ... whose text compiles as a different statement,
                      \* because a quote in an argument ended its literal
  SplicedRows,        \* what a different statement may read or write
  MaxSpliced,         \* ... and how many rows it adds or returns (a bound)
  MaxRows,            \* no insert is begun on a table this long (a bound)
  StepFaults   \* may sqlite3_step fail (disk full, I/O error, locked file)?

\* A response text: the host_path it was produced for, its Expires header and
\* the rest of it.
Resps == [key : Keys \cup {Foreign}, expires : Expires, body : Bodies]

\* A row of table CACHE.  Field by is history: the inserting thread.
Rows == [key : Keys, expire : Expires, resp : Resps, by : Threads]

\* What one result row of a query holds.
Values == [count : Nat] \cup Rows

\* The four statements the Database methods build.
NoStatement == [op |-> "none"]
Statements ==
  [op : {"count", "select"}, key : Keys] \cup
  [op : {"insert", "update"}, key : Keys, expire : Expires, resp : Resps]

ASSUME DbAssumption ==
  /\ Foreign \notin Keys
  /\ Unquoted \in [Bodies -> Bodies]
  /\ BadStatements \subseteq Statements
  /\ SplicedStatements \subseteq Statements \ BadStatements
  /\ SplicedRows \subseteq Rows
  /\ MaxSpliced \in Nat \ {0}
  /\ MaxRows \in Nat
  /\ StepFaults \in BOOLEAN

VARIABLES
  rows,      \* table CACHE in rowid order
  errCode,   \* db->errCode of the shared connection
  qpc,       \* where in Database::query each thread is
  sql,       \* the statement each thread runs
  stmtRc,    \* the statement's own result code (p->rc)
  cursor,    \* how far the statement has been stepped
  results,   \* the vector query() has collected so far
  intact     \* history: no statement has run as a different one

dbVars == <<rows, errCode, qpc, sql, stmtRc, cursor, results, intact>>

ErrCodes == {"OK", "ROW", "DONE", "ERROR"}

DbTypeOK ==
  /\ rows \in Seq(Rows)
  /\ errCode \in ErrCodes
  /\ qpc \in [Threads -> {"idle", "step", "finalize", "errmsg", "threw"}]
  /\ sql \in [Threads -> Statements \cup {NoStatement}]
  /\ stmtRc \in [Threads -> {"OK", "ERROR"}]
  /\ cursor \in [Threads -> Nat]
  /\ results \in [Threads -> Seq(Values)]
  /\ intact \in BOOLEAN

----------------------------------------------------------------------------
(* What the statements mean. *)

\* Mutant: the WHERE clause is missing.
RowsOfAny(k) == DOMAIN rows

\* WHERE HOST_PATH='k', when k is one literal.
RowsOf(k) == {i \in DOMAIN rows : rows[i].key = k}

\* The text spliced together compiles ...
WellFormed(s) == s \notin BadStatements

\* ... but not as what it was meant to be: another condition or none, other
\* columns or values.  Only its first statement is run, and the verb, which
\* comes before every argument, stays what it is.
Spliced(s) == s \in SplicedStatements

\* The text the literal 'r' denotes.
Literal(r) == [r EXCEPT !.body = Unquoted[r.body]]

\* Mutant: the first two columns are swapped.
InsertedSwapped(t, s) ==
  Append(rows, [key |-> s.expire, expire |-> s.key, resp |-> Literal(s.resp), by |-> t])

Inserted(t, s) ==
  Append(rows, [key |-> s.key, expire |-> s.expire, resp |-> Literal(s.resp), by |-> t])

\* Mutant: EXPIRE is rewritten and FORMATED_RESP is not.
UpdatedKeepsResp(s) ==
  [i \in DOMAIN rows |->
     IF rows[i].key = s.key THEN [rows[i] EXCEPT !.expire = s.expire] ELSE rows[i]]

\* Mutant: the stale rows are evicted instead of rewritten.
UpdatedEvicts(s) == SelectSeq(rows, LAMBDA r : r.key # s.key)

\* UPDATE ... WHERE HOST_PATH = key: every row of the key.
Updated(s) ==
  [i \in DOMAIN rows |->
     IF rows[i].key = s.key
     THEN [rows[i] EXCEPT !.expire = s.expire, !.resp = Literal(s.resp)]
     ELSE rows[i]]

\* What an UPDATE that is a different statement may leave: any rows changed,
\* each in any way, and none added or removed.
SplicedUpdates ==
  LET stray == {[r EXCEPT !.by = t] : r \in SplicedRows, t \in Threads}
      old == {rows[i] : i \in DOMAIN rows}
  IN {new \in [DOMAIN rows -> stray \cup old] :
        \A i \in DOMAIN rows : new[i].by = rows[i].by}

\* ... and an INSERT: one row or several added, with any values.
SplicedInserts(t) ==
  LET mine == {[r EXCEPT !.by = t] : r \in SplicedRows}
  IN {rows \o added : added \in UNION {[1..n -> mine] : n \in 1..MaxSpliced}}

----------------------------------------------------------------------------
(* Database::query, one action per sqlite3 call. *)

\* sqlite3_prepare_v2 compiles the text and sets the connection's error code;
\* when it fails, query() goes straight to its sqlite3_errmsg.
Prepare(t, s) ==
  /\ qpc[t] = "idle"
  /\ sql' = [sql EXCEPT ![t] = s]
  /\ stmtRc' = [stmtRc EXCEPT ![t] = "OK"]
  /\ cursor' = [cursor EXCEPT ![t] = 0]
  /\ results' = [results EXCEPT ![t] = << >>]
  /\ \/ /\ WellFormed(s)
        /\ errCode' = "OK"
        /\ qpc' = [qpc EXCEPT ![t] = "step"]
     \/ /\ ~WellFormed(s)
        /\ errCode' = "ERROR"
        /\ qpc' = [qpc EXCEPT ![t] = "errmsg"]
  /\ UNCHANGED <<rows, intact>>

\* sqlite3_step returned SQLITE_ROW with this vector of values, read at
\* position c: query() collects it and steps again.
StepRow(t, values, c) ==
  /\ errCode' = "ROW"
  /\ results' = [results EXCEPT ![t] = Append(@, values)]
  /\ cursor' = [cursor EXCEPT ![t] = c]
  /\ UNCHANGED <<rows, qpc>>

\* sqlite3_step returned SQLITE_DONE and left the table as newRows.
StepDone(t, newRows) ==
  /\ rows' = newRows
  /\ errCode' = "DONE"
  /\ qpc' = [qpc EXCEPT ![t] = "finalize"]
  /\ UNCHANGED <<results, cursor>>

StepCount(t) ==
  /\ sql[t].op = "count"
  /\ \/ cursor[t] = 0 /\ StepRow(t, [count |-> Cardinality(RowsOf(sql[t].key))], 1)
     \/ cursor[t] # 0 /\ StepDone(t, rows)

\* The scan returns the next row of the key in rowid order.
StepSelect(t) ==
  LET rest == {i \in RowsOf(sql[t].key) : i > cursor[t]}
  IN /\ sql[t].op = "select"
     /\ \/ \E i \in rest : /\ \A j \in rest : i <= j
                           /\ StepRow(t, rows[i], i)
        \/ rest = {} /\ StepDone(t, rows)

StepWrite(t) ==
  \/ sql[t].op = "insert" /\ StepDone(t, Inserted(t, sql[t]))
  \/ sql[t].op = "update" /\ StepDone(t, Updated(sql[t]))

\* The statement is a different one: it counts or returns anything, nothing
\* included, or changes the table in any way its verb can.
StepSpliced(t) ==
  \/ /\ sql[t].op = "count" /\ cursor[t] = 0
     /\ \E n \in 0..Len(rows) : StepRow(t, [count |-> n], 1)
  \/ /\ sql[t].op = "select" /\ cursor[t] < MaxSpliced
     /\ \E r \in SplicedRows \cup {rows[i] : i \in DOMAIN rows} :
          StepRow(t, r, cursor[t] + 1)
  \/ sql[t].op \in {"count", "select"} /\ StepDone(t, rows)
  \/ sql[t].op = "insert" /\ \E new \in SplicedInserts(t) : StepDone(t, new)
  \/ sql[t].op = "update" /\ \E new \in SplicedUpdates : StepDone(t, new)

Step(t) ==
  /\ qpc[t] = "step"
  /\ \/ /\ ~Spliced(sql[t])
        /\ StepCount(t) \/ StepSelect(t) \/ StepWrite(t)
        /\ UNCHANGED intact
     \/ /\ Spliced(sql[t])
        /\ StepSpliced(t)
        /\ intact' = FALSE
  /\ UNCHANGED <<sql, stmtRc>>

\* sqlite3_step failed: the statement keeps the code and changes no row.  One
\* that is a different statement may also fail at what it computes.
StepFault(t) ==
  /\ StepFaults \/ Spliced(sql[t])
  /\ qpc[t] = "step"
  /\ intact' = (intact /\ ~Spliced(sql[t]))
  /\ errCode' = "ERROR"
  /\ stmtRc' = [stmtRc EXCEPT ![t] = "ERROR"]
  /\ qpc' = [qpc EXCEPT ![t] = "finalize"]
  /\ UNCHANGED <<rows, sql, cursor, results>>

\* Mutant: sqlite3_finalize is not called.
FinalizeForgotten(t) ==
  /\ qpc[t] = "finalize"
  /\ qpc' = [qpc EXCEPT ![t] = "errmsg"]
  /\ UNCHANGED <<rows, errCode, sql, stmtRc, cursor, results, intact>>

\* sqlite3_finalize copies the statement's own code to the connection.
Finalize(t) ==
  /\ qpc[t] = "finalize"
  /\ errCode' = stmtRc[t]
  /\ qpc' = [qpc EXCEPT ![t] = "errmsg"]
  /\ UNCHANGED <<rows, sql, stmtRc, cursor, results, intact>>

\* Mutant: the error text is not looked at.
QueryReturnAnyway(t) ==
  /\ qpc[t] = "errmsg"
  /\ qpc' = [qpc EXCEPT ![t] = "idle"]
  /\ sql' = [sql EXCEPT ![t] = NoStatement]
  /\ cursor' = [cursor EXCEPT ![t] = 0]
  /\ results' = [results EXCEPT ![t] = << >>]
  /\ UNCHANGED <<rows, errCode, stmtRc, intact>>

\* sqlite3_errmsg says "not an error": query() returns its results to the
\* caller, whose own step reads them, and its locals are gone.
QueryReturn(t) ==
  /\ qpc[t] = "errmsg"
  /\ errCode = "OK"
  /\ qpc' = [qpc EXCEPT ![t] = "idle"]
  /\ sql' = [sql EXCEPT ![t] = NoStatement]
  /\ cursor' = [cursor EXCEPT ![t] = 0]
  /\ results' = [results EXCEPT ![t] = << >>]
  /\ UNCHANGED <<rows, errCode, stmtRc, intact>>

\* It says anything else: query() throws SqliteException.  The codes ROW and
\* DONE have no text of their own, sqlite3ErrStr calls them "unknown error".
QueryThrow(t) ==
  /\ qpc[t] = "errmsg"
  /\ errCode # "OK"
  /\ qpc' = [qpc EXCEPT ![t] = "threw"]
  /\ UNCHANGED <<rows, errCode, sql, stmtRc, cursor, results, intact>>

----------------------------------------------------------------------------
(* The Database methods, as the statement each of them runs. *)

containsHostPathCache(t, k) == Prepare(t, [op |-> "count", key |-> k])

getCache(t, k) == Prepare(t, [op |-> "select", key |-> k])

insertCache(t, k, e, r) ==
  Prepare(t, [op |-> "insert", key |-> k, expire |-> e, resp |-> r])

updateCache(t, k, e, r) ==
  Prepare(t, [op |-> "update", key |-> k, expire |-> e, resp |-> r])

\* Database::Database opened the file: nothing runs on the connection yet.
DbOpened ==
  /\ errCode = "OK"
  /\ qpc = [t \in Threads |-> "idle"]
  /\ sql = [t \in Threads |-> NoStatement]
  /\ stmtRc = [t \in Threads |-> "OK"]
  /\ cursor = [t \in Threads |-> 0]
  /\ results = [t \in Threads |-> << >>]

----------------------------------------------------------------------------
(* What a caller may expect of query(). *)

\* The statement of thread t failed, at sqlite3_prepare_v2 or at sqlite3_step.
OwnFailure(t) == sql[t] # NoStatement /\ (~WellFormed(sql[t]) \/ stmtRc[t] = "ERROR")

\* query() throws SqliteException only for a failure of its own statement,
\* whatever the other threads do on the connection meanwhile.
ThrowIsOwn == \A t \in Threads : qpc[t] = "threw" => OwnFailure(t)

\* query() never returns as if nothing had happened when its own statement
\* failed.
FailureIsThrown == [][\A t \in Threads : QueryReturn(t) => ~OwnFailure(t)]_dbVars

\* Thread t has called sqlite3_prepare_v2 and has not looked at the error text.
InQuery(t) == qpc[t] \in {"step", "finalize", "errmsg"}

\* At most one thread is inside query(): so it is when a single thread uses the
\* connection, when the threads happen to call one after the other, and when a
\* lock is held from the first to the last sqlite3 call of query().
Serialized == \A t, u \in Threads : InQuery(t) /\ InQuery(u) => t = u

\* What a lock around query() would be worth: in a history in which no two
\* queries overlap, an exception is always about the thread's own statement,
\* although threads still call, fail and finish in any order.
SerializedThrows == []Serialized => []ThrowIsOwn
=============================================================================
