-------------------------- MODULE OnConnectProofs --------------------------
(***************************************************************************)
(* Proofs about the connection threads, for any number of threads, keys,   *)
(* responses and any environment faults.                                   *)
(***************************************************************************)
EXTENDS OnConnect, CacheDbProofs

\* A response that was produced for key k, unless it was read from a socket that
\* was not the thread's own.
For(r, k) == r.key \in {k, Foreign}

\* A row whose EXPIRE column and response belong together.
RowOK(r) == For(r.resp, r.key) /\ r.expire = r.resp.expires

RowsOK == intact => \A n \in DOMAIN rows : RowOK(rows[n])

\* The locals of the try block are set when they are used.
RequestOK ==
  \A t \in Threads :
    /\ pc[t] \in {"check", "get", "fetch", "store", "send"} => host_path[t] \in Keys
    /\ pc[t] \in {"store", "send"} => resp[t] \in Resps
    /\ intact /\ pc[t] \in {"store", "send"} => For(resp[t], host_path[t])

\* Statement s is the one that thread t's place in onConnect calls for.
Calls(t, s) ==
  \/ pc[t] = "check" /\ s = [op |-> "count", key |-> host_path[t]]
  \/ pc[t] = "get" /\ s = [op |-> "select", key |-> host_path[t]]
  \/ /\ pc[t] = "store"
     /\ s.op \in {"insert", "update"}
     /\ s.op = "insert" => insert_cache[t]
     /\ s.op = "update" => update_cache[t]
     /\ s = [op |-> s.op, key |-> host_path[t], expire |-> resp[t].expires,
             resp |-> resp[t]]

StatementMatches == \A t \in Threads : qpc[t] # "idle" => Calls(t, sql[t])

\* What query() has collected so far is what its caller will take it for.
ResultsFor(t) ==
  /\ qpc[t] = "idle" => results[t] = << >>
  /\ pc[t] = "check" => \A n \in DOMAIN results[t] : results[t][n] \in [count : Nat]
  /\ pc[t] = "get" =>
       \A n \in DOMAIN results[t] :
         /\ results[t][n] \in Rows
         /\ intact => RowOK(results[t][n]) /\ results[t][n].key = host_path[t]

ResultsMatch == \A t \in Threads : ResultsFor(t)

\* The inductive invariant.
IInv ==
  /\ TypeOK
  /\ RowsOK
  /\ RequestOK
  /\ StatementMatches
  /\ ResultsMatch

\* The initial state satisfies the inductive invariant.
LEMMA InitIInv == Init => IInv
<1> SUFFICES ASSUME Init PROVE IInv
  OBVIOUS
<1>1. TypeOK
  BY OnConnectAssumption
  DEF Init, DbOpened, ThreadsInit, TypeOK, DbTypeOK, ErrCodes, PCs
<1>2. RowsOK /\ RequestOK /\ StatementMatches /\ ResultsMatch
  BY DEF Init, DbOpened, ThreadsInit, RowsOK, RequestOK, StatementMatches,
         ResultsMatch, ResultsFor
<1> QED
  BY <1>1, <1>2 DEF IInv

\* Calls reads only the thread's own locals.
LEMMA CallsFrame ==
  ASSUME NEW u \in Threads, NEW s, Calls(u, s),
         pc'[u] = pc[u], host_path'[u] = host_path[u], resp'[u] = resp[u],
         insert_cache'[u] = insert_cache[u], update_cache'[u] = update_cache[u]
  PROVE  Calls(u, s)'
<1>1. CASE pc[u] = "check" /\ s = [op |-> "count", key |-> host_path[u]]
  BY <1>1 DEF Calls
<1>2. CASE pc[u] = "get" /\ s = [op |-> "select", key |-> host_path[u]]
  BY <1>2 DEF Calls
<1>3. CASE /\ pc[u] = "store"
           /\ s.op \in {"insert", "update"}
           /\ s.op = "insert" => insert_cache[u]
           /\ s.op = "update" => update_cache[u]
           /\ s = [op |-> s.op, key |-> host_path[u], expire |-> resp[u].expires,
                   resp |-> resp[u]]
  BY <1>3, Zenon DEF Calls
<1> QED
  BY <1>1, <1>2, <1>3 DEF Calls

\* What a place calls for is a statement of the type, on the thread's host_path.
LEMMA CallsFacts ==
  ASSUME IInv, NEW t \in Threads, NEW s, Calls(t, s)
  PROVE  /\ s \in Statements
         /\ s.key = host_path[t] /\ host_path[t] \in Keys
         /\ s.op = "count" => pc[t] = "check"
         /\ s.op = "select" => pc[t] = "get"
         /\ s.op \in {"insert", "update"} =>
              /\ pc[t] = "store"
              /\ s.resp \in Resps
              /\ intact => For(s.resp, s.key)
              /\ s.expire = s.resp.expires
<1>1. pc[t] \in {"check", "get", "store"} => host_path[t] \in Keys
  BY DEF IInv, RequestOK
<1>2. pc[t] = "store" => /\ resp[t] \in Resps
                         /\ intact => For(resp[t], host_path[t])
                         /\ resp[t].expires \in Expires
  BY DEF IInv, RequestOK, Resps
<1>3. CASE pc[t] = "check" /\ s = [op |-> "count", key |-> host_path[t]]
  BY <1>1, <1>3 DEF Statements
<1>4. CASE pc[t] = "get" /\ s = [op |-> "select", key |-> host_path[t]]
  BY <1>1, <1>4 DEF Statements
<1>5. CASE /\ pc[t] = "store"
           /\ s.op \in {"insert", "update"}
           /\ s = [op |-> s.op, key |-> host_path[t], expire |-> resp[t].expires,
                   resp |-> resp[t]]
  <2>1. PICK o : s = [op |-> o, key |-> host_path[t], expire |-> resp[t].expires,
                      resp |-> resp[t]]
    BY <1>5, Zenon
  <2>2. s \in Statements
    BY <1>1, <1>2, <1>5 DEF Statements
  <2> QED
    BY <1>1, <1>2, <1>5, <2>1, <2>2
<1> QED
  BY <1>3, <1>4, <1>5 DEF Calls

\* ... and so does ResultsFor.
LEMMA ResultsFrame ==
  ASSUME NEW u \in Threads, ResultsFor(u),
         pc'[u] = pc[u], qpc'[u] = qpc[u], results'[u] = results[u],
         host_path'[u] = host_path[u], intact' => intact
  PROVE  ResultsFor(u)'
  BY DEF ResultsFor, RowOK, For

----------------------------------------------------------------------------
(* Steps that make no sqlite3 call. *)

NoSqlite(t) ==
  \/ Client(t)
  \/ Remote(t)
  \/ Send(t) \/ SendFails(t) \/ SendError(t) \/ SendErrorFails(t)
  \/ SendSigpipe(t) \/ Close(t)

\* Such a step leaves the database and the other threads alone.
LEMMA NoSqliteFrame ==
  ASSUME TypeOK, NEW t \in Threads, NoSqlite(t)
  PROVE  /\ UNCHANGED <<dbVars, now>>
         /\ pc[t] \notin {"check", "get", "store"}
         /\ \A u \in Threads \ {t} :
              /\ pc'[u] = pc[u]
              /\ host_path'[u] = host_path[u]
              /\ resp'[u] = resp[u]
              /\ insert_cache'[u] = insert_cache[u]
              /\ update_cache'[u] = update_cache[u]
              /\ request_remote_server'[u] = request_remote_server[u]
              /\ current_time'[u] = current_time[u]
<1> USE DEF TypeOK, Goto, Die, CatchException, LeaveTryBlock, localVars, flagVars
<1>1. CASE Client(t)
  BY <1>1 DEF Client, Connect, GotRequest, BadRequest, BadPort, ReadFails, ReadEof
<1>2. CASE Remote(t)
  BY <1>2 DEF Remote, FetchOk, FetchFails, FetchTimeout, FetchEof, FetchSigpipe
<1>3. CASE \/ Send(t) \/ SendFails(t) \/ SendError(t) \/ SendErrorFails(t)
           \/ SendSigpipe(t) \/ Close(t)
  BY <1>3 DEF Send, SendFails, SendError, SendErrorFails, SendSigpipe, Close
<1> QED
  BY <1>1, <1>2, <1>3 DEF NoSqlite

\* The end of the process keeps the types.
LEMMA DieType ==
  ASSUME TypeOK, NEW t \in Threads, NEW from, NEW cause \in Deaths,
         DbTypeOK', Die(t, from, cause)
  PROVE  TypeOK'
  BY DEF TypeOK, Die, localVars, flagVars

\* Deleting client leaves the types too, whatever the pointer was.
LEMMA CatchType ==
  ASSUME TypeOK, NEW t \in Threads, NEW from, NEW c,
         DbTypeOK', CatchException(t, from, c)
  PROVE  TypeOK'
<1>1. CASE Die(t, from, "bad_delete")
  BY <1>1, DieType DEF Deaths
<1>2. CASE /\ Goto(t, from, "close")
           /\ LeaveTryBlock(t)
           /\ client' = [client EXCEPT ![t] = "deleted"]
           /\ UNCHANGED persistent
  BY <1>2, OnConnectAssumption DEF TypeOK, Goto, LeaveTryBlock, PCs
<1> QED
  BY <1>1, <1>2 DEF CatchException

\* ... and so does every step without a sqlite3 call.
LEMMA NoSqliteType ==
  ASSUME TypeOK, NEW t \in Threads, NoSqlite(t)
  PROVE  TypeOK'
<1>1. DbTypeOK'
  BY NoSqliteFrame DEF TypeOK, DbTypeOK, dbVars
<1> USE <1>1, CatchType, DieType
<1>2. CASE Client(t)
  <2> USE DEF TypeOK, Goto, localVars, flagVars, PCs, Deaths
  <2>1. CASE Connect(t) \/ BadRequest(t) \/ ReadEof(t)
    BY <2>1 DEF Connect, BadRequest, ReadEof
  <2>2. ASSUME NEW k \in Keys, NEW close \in Closing, GotRequest(t, k, close)
        PROVE  TypeOK'
    BY <2>2, OnConnectAssumption DEF GotRequest
  <2>3. CASE BadPort(t)
    BY <2>3 DEF BadPort
  <2>4. CASE ReadFails(t)
    BY <2>4 DEF ReadFails
  <2> QED
    BY <1>2, <2>1, <2>2, <2>3, <2>4 DEF Client
<1>3. CASE Remote(t)
  <2> USE DEF TypeOK, Goto, localVars, flagVars, PCs, Deaths
  <2>1. ASSUME NEW r \in Resps, FetchOk(t, r) PROVE TypeOK'
    BY <2>1 DEF FetchOk
  <2>2. CASE FetchFails(t)
    BY <2>2 DEF FetchFails
  <2>3. CASE FetchTimeout(t)
    BY <2>3, OnConnectAssumption DEF FetchTimeout, LeaveTryBlock
  <2>4. CASE FetchEof(t)
    BY <2>4 DEF FetchEof
  <2>5. CASE FetchSigpipe(t)
    BY <2>5 DEF FetchSigpipe
  <2> QED
    BY <1>3, <2>1, <2>2, <2>3, <2>4, <2>5 DEF Remote
<1>4. CASE Send(t)
  BY <1>4, OnConnectAssumption DEF Send, Goto, LeaveTryBlock, LoopEnd, TypeOK, PCs
<1>5. CASE SendFails(t)
  BY <1>5 DEF SendFails
<1>6. CASE SendError(t)
  BY <1>6 DEF SendError, Goto, LoopEnd, TypeOK, PCs, localVars, flagVars
<1>7. CASE SendErrorFails(t)
  BY <1>7 DEF SendErrorFails, Deaths
<1>8. CASE SendSigpipe(t)
  BY <1>8 DEF SendSigpipe, Deaths
<1>9. CASE Close(t)
  BY <1>9 DEF Close, Goto, TypeOK, PCs, flagVars
<1> QED
  BY <1>2, <1>3, <1>4, <1>5, <1>6, <1>7, <1>8, <1>9 DEF NoSqlite

\* A step without a sqlite3 call keeps the inductive invariant.
LEMMA NoSqlitePreserves ==
  ASSUME IInv, NEW t \in Threads, NoSqlite(t)
  PROVE  IInv'
<1> USE DEF IInv
<1>1. TypeOK'
  BY NoSqliteType
<1>2. RowsOK'
  BY NoSqliteFrame DEF RowsOK, dbVars, RowOK, For
<1>3. qpc[t] = "idle" /\ results[t] = << >> /\ UNCHANGED dbVars
  BY NoSqliteFrame DEF StatementMatches, Calls, ResultsMatch, ResultsFor
<1>4. StatementMatches'
  <2> SUFFICES ASSUME NEW u \in Threads, qpc'[u] # "idle" PROVE Calls(u, sql[u])'
    BY DEF StatementMatches
  <2>1. u # t /\ sql' = sql /\ Calls(u, sql[u])
    BY <1>3 DEF StatementMatches, dbVars
  <2>2. \A s : Calls(u, s) => Calls(u, s)'
    BY <2>1, NoSqliteFrame, CallsFrame
  <2> QED
    BY <2>1, <2>2 DEF Calls
<1>5. ResultsMatch'
  BY <1>3, NoSqliteFrame DEF ResultsMatch, ResultsFor, dbVars, RowOK, For
<1>6. RequestOK'
  <2>1. \A u \in Threads \ {t} :
          pc'[u] = pc[u] /\ host_path'[u] = host_path[u] /\ resp'[u] = resp[u]
    BY NoSqliteFrame
  <2>5. intact' = intact
    BY <1>3 DEF dbVars
  <2> USE <2>5 DEF TypeOK, Goto, Die, CatchException, LeaveTryBlock, LoopEnd,
              localVars, flagVars, RequestOK, For
  <2>2. CASE Client(t)
    BY <2>1, <2>2
    DEF Client, Connect, GotRequest, BadRequest, BadPort, ReadFails, ReadEof
  <2>3. CASE Remote(t)
    BY <2>1, <2>3
    DEF Remote, FetchOk, FetchFails, FetchTimeout, FetchEof, FetchSigpipe
  <2>4. CASE \/ Send(t) \/ SendFails(t) \/ SendError(t) \/ SendErrorFails(t)
             \/ SendSigpipe(t) \/ Close(t)
    BY <2>1, <2>4
    DEF Send, SendFails, SendError, SendErrorFails, SendSigpipe, Close
  <2> QED
    BY <2>2, <2>3, <2>4 DEF NoSqlite
<1> QED
  BY <1>1, <1>2, <1>4, <1>5, <1>6

----------------------------------------------------------------------------
(* The sqlite3 calls. *)

\* A method of Database is called: the statement is the one called for.
LEMMA CallPreserves ==
  ASSUME IInv, NEW t \in Threads, Check(t) \/ Get(t) \/ Store(t)
  PROVE  IInv'
<1>1. PICK s : Calls(t, s) /\ Prepare(t, s)
  <2>1. CASE Check(t)
    BY <2>1 DEF Check, containsHostPathCache, Calls
  <2>2. CASE Get(t)
    BY <2>2 DEF Get, getCache, Calls
  <2>3. CASE Store(t)
    BY <2>3 DEF Store, updateCache, insertCache, Calls
  <2> QED
    BY <2>1, <2>2, <2>3
<1>2. UNCHANGED <<proc, now, pc, localVars>>
  BY DEF Check, Get, Store
<1>3. s \in Statements
  BY <1>1, CallsFacts
<1>4. TypeOK'
  BY <1>1, <1>2, <1>3, PrepareType DEF IInv, TypeOK, localVars, flagVars
<1>5. RowsOK' /\ RequestOK'
  BY <1>1, <1>2 DEF Prepare, IInv, RowsOK, RowOK, For, RequestOK, localVars
<1>6. StatementMatches'
  <2> SUFFICES ASSUME NEW u \in Threads, qpc'[u] # "idle" PROVE Calls(u, sql[u])'
    BY DEF StatementMatches
  <2>1. \A x : Calls(u, x) => Calls(u, x)'
    BY <1>2, CallsFrame DEF localVars, flagVars
  <2>2. Calls(u, sql'[u])
    BY <1>1 DEF Prepare, IInv, TypeOK, DbTypeOK, StatementMatches
  <2> QED
    BY <2>1, <2>2 DEF Calls
<1>7. ResultsMatch'
  <2> SUFFICES ASSUME NEW u \in Threads PROVE ResultsFor(u)'
    BY DEF ResultsMatch
  <2>1. CASE u = t
    BY <1>1, <2>1 DEF Prepare, IInv, TypeOK, DbTypeOK, ResultsFor
  <2>2. CASE u # t
    BY <1>1, <1>2, <2>2, ResultsFrame
    DEF Prepare, IInv, TypeOK, DbTypeOK, ResultsMatch, localVars
  <2> QED
    BY <2>1, <2>2
<1> QED
  BY <1>4, <1>5, <1>6, <1>7 DEF IInv

\* A write leaves rows whose columns belong together.
LEMMA WriteRowsOK ==
  ASSUME IInv, intact, NEW t \in Threads, qpc[t] = "step", StepWrite(t)
  PROVE  RowsOK'
<1>1. Calls(t, sql[t])
  BY DEF IInv, StatementMatches
<1>2. /\ rows \in Seq(Rows) /\ sql[t] \in Statements
      /\ sql[t].op \in {"insert", "update"}
      /\ sql[t].resp \in Resps /\ For(sql[t].resp, sql[t].key)
      /\ sql[t].expire = sql[t].resp.expires
  BY <1>1, CallsFacts DEF IInv, TypeOK, DbTypeOK, StepWrite
<1>3. /\ For(Literal(sql[t].resp), sql[t].key)
      /\ Literal(sql[t].resp).expires = sql[t].expire
  BY <1>2, LiteralFacts DEF For
<1>4. CASE sql[t].op = "insert"
  <2>1. rows' = Inserted(t, sql[t])
    BY <1>4 DEF StepWrite, StepDone
  <2> DEFINE new == rows'
  <2>2. /\ new \in Seq(Rows) /\ Len(new) = Len(rows) + 1
        /\ \A n \in DOMAIN rows : new[n] = rows[n]
        /\ new[Len(rows) + 1] =
             [key |-> sql[t].key, expire |-> sql[t].expire,
              resp |-> Literal(sql[t].resp), by |-> t]
    BY <1>2, <1>4, <2>1, InsertedFacts
  <2>3. RowOK(new[Len(rows) + 1])
    BY <1>3, <2>2 DEF RowOK
  <2>4. \A n \in DOMAIN new : n \in DOMAIN rows \/ n = Len(rows) + 1
    BY <1>2, <2>2
  <2>5. \A n \in DOMAIN new : RowOK(new[n])
    BY <2>2, <2>3, <2>4 DEF IInv, RowsOK
  <2> QED
    BY <2>5 DEF RowsOK, RowOK, For
<1>5. CASE sql[t].op = "update"
  <2>1. rows' = Updated(sql[t])
    BY <1>5 DEF StepWrite, StepDone
  <2>2. /\ DOMAIN rows' = DOMAIN rows
        /\ \A n \in DOMAIN rows :
             /\ rows'[n].key = rows[n].key
             /\ \/ rows'[n] = rows[n]
                \/ /\ rows[n].key = sql[t].key
                   /\ rows'[n].expire = sql[t].expire
                   /\ rows'[n].resp = Literal(sql[t].resp)
    BY <1>2, <1>5, <2>1, UpdatedFacts
  <2> QED
    BY <1>3, <2>2 DEF IInv, RowsOK, RowOK, For
<1> QED
  BY <1>2, <1>4, <1>5

\* sqlite3_step, sqlite3_finalize keep the inductive invariant.
LEMMA SqlitePreserves ==
  ASSUME IInv, NEW t \in Threads, Sqlite(t)
  PROVE  IInv'
<1>1. UNCHANGED <<proc, now, pc, localVars>> /\ sql' = sql
  BY DEF Sqlite, Step, StepFault, Finalize
<1>0. DbTypeOK /\ DbCall(t) /\ (intact' => intact)
  BY IntactOnce DEF IInv, TypeOK, Sqlite, DbCall
<1>2. qpc[t] # "idle" /\ qpc'[t] # "idle"
  <2>1. CASE Step(t)
    BY <1>0, <2>1, StepShape DEF StepRow, StepDone, DbTypeOK
  <2> QED
    BY <1>0, <2>1 DEF Sqlite, StepFault, Finalize, DbTypeOK
<1>3. \A u \in Threads \ {t} : qpc'[u] = qpc[u] /\ results'[u] = results[u]
  BY <1>0, DbCallFrame
<1>4. TypeOK'
  BY <1>1, StepType, QueryType DEF Sqlite, IInv, TypeOK, localVars, flagVars
<1>5. RowsOK'
  <2> SUFFICES ASSUME intact' PROVE RowsOK'
    BY DEF RowsOK
  <2>1. CASE StepWrite(t) /\ qpc[t] = "step"
    BY <1>0, <2>1, WriteRowsOK
  <2>2. CASE UNCHANGED rows
    BY <1>0, <2>2 DEF IInv, RowsOK, RowOK, For
  <2>3. CASE Step(t)
    BY <2>1, <2>2, <2>3, StepMeant DEF Step, StepCount, StepSelect, StepRow, StepDone
  <2> QED
    BY <2>2, <2>3 DEF Sqlite, StepFault, Finalize
<1>6. RequestOK'
  BY <1>0, <1>1 DEF IInv, RequestOK, localVars, For
<1>7. StatementMatches'
  <2> SUFFICES ASSUME NEW u \in Threads, qpc'[u] # "idle" PROVE Calls(u, sql[u])'
    BY DEF StatementMatches
  <2>1. \A x : Calls(u, x) => Calls(u, x)'
    BY <1>1, CallsFrame DEF localVars, flagVars
  <2>2. Calls(u, sql'[u])
    BY <1>1, <1>2, <1>3 DEF IInv, StatementMatches
  <2> QED
    BY <2>1, <2>2 DEF Calls
<1>8. ResultsMatch'
  <2> SUFFICES ASSUME NEW u \in Threads PROVE ResultsFor(u)'
    BY DEF ResultsMatch
  <2>1. CASE u # t
    BY <1>0, <1>1, <1>3, <2>1, ResultsFrame DEF IInv, ResultsMatch, localVars
  <2>2. CASE u = t /\ UNCHANGED results
    BY <1>0, <1>1, <1>2, <2>2 DEF IInv, ResultsMatch, ResultsFor, RowOK, For, localVars
  <2>3. CASE u = t /\ Step(t) /\ StepCount(t) /\ ~UNCHANGED results
    <3>1. pc[t] = "check"
      BY <1>2, <2>3, CallsFacts DEF StepCount, IInv, StatementMatches
    <3>2. PICK v \in [count : Nat] : results'[t] = Append(results[t], v)
      BY <2>3, RowsOfFinite
      DEF StepCount, StepRow, StepDone, IInv, TypeOK, DbTypeOK
    <3>3. results[t] \in Seq(Values)
      BY DEF IInv, TypeOK, DbTypeOK
    <3>4. \A n \in DOMAIN results'[t] : results'[t][n] \in [count : Nat]
      BY <3>1, <3>2, <3>3 DEF IInv, ResultsMatch, ResultsFor
    <3> QED
      BY <1>1, <1>2, <2>3, <3>1, <3>4 DEF ResultsFor
  <2>4. CASE u = t /\ Step(t) /\ StepSelect(t) /\ ~UNCHANGED results
    <3>1. pc[t] = "get" /\ sql[t].key = host_path[t]
      BY <1>2, <2>4, CallsFacts DEF StepSelect, IInv, StatementMatches
    <3>2. PICK m \in RowsOf(sql[t].key) : results'[t] = Append(results[t], rows[m])
      BY <2>4 DEF StepSelect, StepRow, StepDone, IInv, TypeOK, DbTypeOK
    <3>3. /\ rows[m] \in Rows /\ (intact => RowOK(rows[m]))
          /\ rows[m].key = host_path[t]
      BY <3>1, <3>2 DEF RowsOf, IInv, RowsOK, TypeOK, DbTypeOK
    <3>4. results[t] \in Seq(Values)
      BY DEF IInv, TypeOK, DbTypeOK
    <3>5. \A n \in DOMAIN results'[t] :
            \/ n \in DOMAIN results[t] /\ results'[t][n] = results[t][n]
            \/ results'[t][n] = rows[m]
      BY <3>2, <3>4
    <3>6. \A n \in DOMAIN results'[t] :
            /\ results'[t][n] \in Rows
            /\ intact => /\ RowOK(results'[t][n])
                         /\ results'[t][n].key = host_path[t]
      BY <3>1, <3>3, <3>5 DEF IInv, ResultsMatch, ResultsFor
    <3> QED
      BY <1>0, <1>1, <1>2, <2>4, <3>1, <3>6 DEF ResultsFor, RowOK, For, localVars
  <2>5. CASE u = t /\ Step(t) /\ StepSpliced(t) /\ ~intact' /\ ~UNCHANGED results
    <3>1. PICK v : /\ results'[t] = Append(results[t], v)
                   /\ sql[t].op = "count" => v \in [count : Nat]
                   /\ sql[t].op = "select" => v \in Rows
                   /\ sql[t].op \in {"count", "select"}
      BY <1>0, <2>5, SplicedRead
    <3>2. results[t] \in Seq(Values)
      BY DEF IInv, TypeOK, DbTypeOK
    <3>3. \A n \in DOMAIN results'[t] :
            \/ n \in DOMAIN results[t] /\ results'[t][n] = results[t][n]
            \/ results'[t][n] = v
      BY <3>1, <3>2
    <3>4. /\ sql[t].op = "count" => pc[t] = "check"
          /\ sql[t].op = "select" => pc[t] = "get"
      BY <1>2, CallsFacts DEF IInv, StatementMatches
    <3>5. /\ pc[t] = "check" =>
               \A n \in DOMAIN results'[t] : results'[t][n] \in [count : Nat]
          /\ pc[t] = "get" => \A n \in DOMAIN results'[t] : results'[t][n] \in Rows
      BY <3>1, <3>3, <3>4 DEF IInv, ResultsMatch, ResultsFor
    <3> QED
      BY <1>1, <1>2, <2>5, <3>5 DEF ResultsFor
  <2> QED
    BY <2>1, <2>2, <2>3, <2>4, <2>5
    DEF Sqlite, Step, StepWrite, StepDone, StepFault, Finalize
<1> QED
  BY <1>4, <1>5, <1>6, <1>7, <1>8 DEF IInv

\* A method of Database returns, or its exception ends the process.
QueryEnds(t) ==
  Checked(t) \/ Got(t) \/ Stored(t) \/ AtEmptyResult(t) \/ Threw(t)

\* Such a step leaves the table and the other threads alone.
LEMMA QueryEndsFrame ==
  ASSUME TypeOK, NEW t \in Threads, QueryEnds(t)
  PROVE  /\ UNCHANGED <<rows, now, persistent, host_path, client>>
         /\ \/ QueryReturn(t)
            \/ QueryThrow(t) /\ UNCHANGED <<pc, localVars>>
         /\ \A u \in Threads \ {t} :
              /\ pc'[u] = pc[u]
              /\ qpc'[u] = qpc[u]
              /\ sql'[u] = sql[u]
              /\ results'[u] = results[u]
              /\ resp'[u] = resp[u]
              /\ insert_cache'[u] = insert_cache[u]
              /\ update_cache'[u] = update_cache[u]
              /\ request_remote_server'[u] = request_remote_server[u]
              /\ current_time'[u] = current_time[u]
<1> USE DEF TypeOK, DbTypeOK, QueryReturn, QueryThrow, Goto, Die, localVars, flagVars
<1>1. CASE Checked(t)
  BY <1>1 DEF Checked
<1>2. CASE Got(t)
  BY <1>2 DEF Got
<1>3. CASE Stored(t)
  BY <1>3 DEF Stored
<1>4. CASE AtEmptyResult(t)
  BY <1>4 DEF AtEmptyResult
<1>5. CASE Threw(t)
  BY <1>5 DEF Threw
<1> QED
  BY <1>1, <1>2, <1>3, <1>4, <1>5 DEF QueryEnds

\* The entry that getCache returns: its columns belong together and to the
\* host_path of the request.
LEMMA GotEntry ==
  ASSUME IInv, NEW t \in Threads, Got(t)
  PROVE  /\ results[t][1] \in Rows
         /\ intact => RowOK(results[t][1]) /\ results[t][1].key = host_path[t]
<1>1. results[t] \in Seq(Values) /\ results[t] # << >> /\ pc[t] = "get"
  BY DEF Got, IInv, TypeOK, DbTypeOK
<1>2. 1 \in DOMAIN results[t]
  BY <1>1
<1> QED
  BY <1>1, <1>2 DEF IInv, ResultsMatch, ResultsFor

\* The end of a query keeps the inductive invariant.
LEMMA QueryEndsPreserves ==
  ASSUME IInv, NEW t \in Threads, QueryEnds(t)
  PROVE  IInv'
<1>1. TypeOK
  BY DEF IInv
<1>2. TypeOK'
  <2>1. DbTypeOK'
    BY <1>1, QueryEndsFrame, QueryType DEF TypeOK
  <2>2. CASE Checked(t)
    BY <1>1, <2>1, <2>2 DEF Checked, Goto, TypeOK, PCs
  <2>3. CASE Got(t)
    <3>1. results[t][1].resp \in Resps
      BY <2>3, GotEntry DEF Rows
    <3>2. current_time' \in [Threads -> 0..MaxTime]
      BY <1>1, <2>3 DEF Got, TypeOK
    <3> QED
      BY <1>1, <2>1, <2>3, <3>1, <3>2 DEF Got, Goto, TypeOK, PCs
  <2>4. CASE Stored(t)
    BY <1>1, <2>1, <2>4 DEF Stored, Goto, TypeOK, PCs, localVars, flagVars
  <2>5. CASE AtEmptyResult(t) \/ Threw(t)
    BY <1>1, <2>1, <2>5, DieType DEF AtEmptyResult, Threw, Deaths
  <2> QED
    BY <2>2, <2>3, <2>4, <2>5 DEF QueryEnds
<1>0. intact' = intact
  BY <1>1, QueryEndsFrame DEF QueryReturn, QueryThrow
<1>3. RowsOK'
  BY <1>0, <1>1, QueryEndsFrame DEF IInv, RowsOK, RowOK, For
<1>4. RequestOK'
  <2> SUFFICES ASSUME NEW u \in Threads
               PROVE  /\ pc'[u] \in {"check", "get", "fetch", "store", "send"} =>
                           host_path'[u] \in Keys
                      /\ pc'[u] \in {"store", "send"} => resp'[u] \in Resps
                      /\ intact /\ pc'[u] \in {"store", "send"} =>
                           For(resp'[u], host_path'[u])
    BY <1>0 DEF RequestOK, For
  <2>1. CASE u # t
    BY <1>1, <2>1, QueryEndsFrame DEF IInv, RequestOK
  <2>2. CASE u = t /\ Got(t)
    <3>1. /\ results[t][1].resp \in Resps
          /\ intact => For(results[t][1].resp, host_path[t])
      BY <2>2, GotEntry DEF Rows, RowOK
    <3> QED
      BY <2>2, <3>1 DEF Got, Goto, IInv, TypeOK, RequestOK
  <2>3. CASE u = t /\ ~Got(t)
    BY <2>3 DEF QueryEnds, Checked, Stored, AtEmptyResult, Threw, Goto, Die,
                localVars, IInv, TypeOK, RequestOK
  <2> QED
    BY <2>1, <2>2, <2>3
<1>5. StatementMatches'
  <2> SUFFICES ASSUME NEW u \in Threads, qpc'[u] # "idle" PROVE Calls(u, sql[u])'
    BY DEF StatementMatches
  <2>1. /\ Calls(u, sql[u]) /\ sql'[u] = sql[u]
        /\ pc'[u] = pc[u] /\ host_path'[u] = host_path[u] /\ resp'[u] = resp[u]
        /\ insert_cache'[u] = insert_cache[u] /\ update_cache'[u] = update_cache[u]
    <3>1. CASE u # t
      BY <1>1, <3>1, QueryEndsFrame DEF IInv, StatementMatches
    <3>2. CASE u = t
      BY <1>1, <3>2, QueryEndsFrame
      DEF IInv, StatementMatches, QueryReturn, QueryThrow, localVars, flagVars,
          TypeOK, DbTypeOK
    <3> QED
      BY <3>1, <3>2
  <2>2. \A x : Calls(u, x) => Calls(u, x)'
    BY <2>1, CallsFrame
  <2> QED
    BY <2>1, <2>2 DEF Calls
<1>6. ResultsMatch'
  <2> SUFFICES ASSUME NEW u \in Threads PROVE ResultsFor(u)'
    BY DEF ResultsMatch
  <2>1. CASE u # t
    BY <1>0, <1>1, <2>1, QueryEndsFrame, ResultsFrame DEF IInv, ResultsMatch
  <2>2. CASE u = t /\ QueryReturn(t)
    BY <2>2 DEF QueryReturn, ResultsFor, IInv, TypeOK, DbTypeOK
  <2>3. CASE u = t /\ QueryThrow(t) /\ UNCHANGED <<pc, localVars>>
    BY <1>0, <2>3 DEF QueryThrow, ResultsFor, ResultsMatch, RowOK, For, IInv, TypeOK,
                      DbTypeOK, localVars
  <2> QED
    BY <1>1, <2>1, <2>2, <2>3, QueryEndsFrame
<1> QED
  BY <1>2, <1>3, <1>4, <1>5, <1>6 DEF IInv

----------------------------------------------------------------------------
(* The clock, the restart, and the invariant. *)

\* Apart from the types, the invariant is about the database and the threads.
LEMMA InvFrame ==
  ASSUME IInv, UNCHANGED <<dbVars, pc, localVars>>, TypeOK'
  PROVE  IInv'
<1>1. RowsOK' /\ RequestOK' /\ ResultsMatch'
  BY DEF dbVars, localVars, IInv, RowsOK, RowOK, For, RequestOK, ResultsMatch, ResultsFor
<1>2. StatementMatches'
  <2> SUFFICES ASSUME NEW u \in Threads, qpc'[u] # "idle" PROVE Calls(u, sql[u])'
    BY DEF StatementMatches
  <2>1. Calls(u, sql[u]) /\ sql' = sql
    BY DEF dbVars, IInv, StatementMatches
  <2>2. \A x : Calls(u, x) => Calls(u, x)'
    BY CallsFrame DEF localVars, flagVars
  <2> QED
    BY <2>1, <2>2 DEF Calls
<1> QED
  BY <1>1, <1>2 DEF IInv

\* Time passing keeps the inductive invariant, and so does a restart, which
\* finds the rows that earlier runs of the process left.
LEMMA WorldPreserves ==
  ASSUME IInv, Tick \/ Restart
  PROVE  IInv'
<1>1. CASE Tick
  <2>1. TypeOK'
    BY <1>1, OnConnectAssumption
    DEF Tick, IInv, TypeOK, DbTypeOK, dbVars, localVars, flagVars
  <2> QED
    BY <1>1, <2>1, InvFrame DEF Tick
<1>2. CASE Restart
  <2>1. TypeOK'
    BY <1>2, OnConnectAssumption
    DEF Restart, IInv, TypeOK, DbTypeOK, ErrCodes, PCs
  <2> QED
    BY <1>2, <2>1
    DEF Restart, IInv, RowsOK, RowOK, For, RequestOK, StatementMatches, ResultsMatch,
        ResultsFor
<1> QED
  BY <1>1, <1>2

\* A NULL column ends the process and is a sign of damage: what is known of the
\* damaged table stays known.
LEMMA NullPreserves ==
  ASSUME IInv, NEW t \in Threads, NullColumn(t)
  PROVE  IInv'
<1>1. /\ UNCHANGED <<rows, errCode, qpc, sql, stmtRc, cursor, results, now, pc, localVars>>
      /\ intact' = FALSE /\ proc' = "logic_error"
  BY DEF NullColumn, Die
<1>2. TypeOK'
  BY <1>1 DEF IInv, TypeOK, DbTypeOK, localVars, flagVars, Deaths
<1>3. RowsOK' /\ RequestOK' /\ ResultsMatch'
  BY <1>1 DEF localVars, IInv, RowsOK, RequestOK, ResultsMatch, ResultsFor
<1>4. StatementMatches'
  <2> SUFFICES ASSUME NEW u \in Threads, qpc'[u] # "idle" PROVE Calls(u, sql[u])'
    BY DEF StatementMatches
  <2>1. Calls(u, sql[u]) /\ sql' = sql
    BY <1>1 DEF IInv, StatementMatches
  <2>2. \A x : Calls(u, x) => Calls(u, x)'
    BY <1>1, CallsFrame DEF localVars, flagVars
  <2> QED
    BY <2>1, <2>2 DEF Calls
<1> QED
  BY <1>2, <1>3, <1>4 DEF IInv

\* Every step of the connection threads is of one of the kinds above.
LEMMA NextKinds ==
  ASSUME Next
  PROVE  \/ \E t \in Threads : NoSqlite(t) \/ Check(t) \/ Get(t) \/ Store(t)
         \/ \E t \in Threads : Sqlite(t) \/ QueryEnds(t)
         \/ \E t \in Threads : NullColumn(t)
         \/ Tick \/ Restart
  BY DEF Next, Handler, NoSqlite, QueryEnds

\* What has been damaged stays damaged.
LEMMA NextIntact ==
  ASSUME TypeOK, [Next]_vars, intact'
  PROVE  intact
<1>1. CASE UNCHANGED vars \/ Tick \/ Restart
  BY <1>1 DEF vars, dbVars, Tick, Restart
<1>2. ASSUME NEW t \in Threads, NoSqlite(t) PROVE intact
  BY <1>2, NoSqliteFrame DEF dbVars
<1>3. ASSUME NEW t \in Threads, Check(t) \/ Get(t) \/ Store(t) PROVE intact
  BY <1>3 DEF Check, Get, Store, containsHostPathCache, getCache, insertCache,
              updateCache, Prepare
<1>4. ASSUME NEW t \in Threads, Sqlite(t) PROVE intact
  BY <1>4, IntactOnce DEF Sqlite, DbCall, TypeOK
<1>5. ASSUME NEW t \in Threads, QueryEnds(t) PROVE intact
  BY <1>5, QueryEndsFrame DEF QueryReturn, QueryThrow
<1>6. ASSUME NEW t \in Threads, NullColumn(t) PROVE intact
  BY <1>6 DEF NullColumn
<1> QED
  BY <1>1, <1>2, <1>3, <1>4, <1>5, <1>6, NextKinds

\* Every step keeps the inductive invariant.
LEMMA NextIInv ==
  ASSUME IInv, [Next]_vars
  PROVE  IInv'
<1>1. CASE Next
  BY <1>1, NextKinds, NoSqlitePreserves, CallPreserves, SqlitePreserves,
     QueryEndsPreserves, NullPreserves, WorldPreserves
<1>2. CASE UNCHANGED vars
  <2>1. TypeOK'
    BY <1>2 DEF vars, dbVars, localVars, flagVars, IInv, TypeOK, DbTypeOK
  <2> QED
    BY <1>2, <2>1, InvFrame DEF vars
<1> QED
  BY <1>1, <1>2

\* Every reachable state satisfies the inductive invariant.
LEMMA Invariance == Spec => []IInv
  BY InitIInv, NextIInv, PTL DEF Spec

\* Every variable of onConnect and of the shared connection keeps its type,
\* for any faults.
THEOREM TypeCorrect == Spec => []TypeOK
  BY Invariance, PTL DEF IInv

\* As long as no quote has made a different statement, a client is sent a response
\* produced for the host_path it asked for, or one read from a socket that was
\* not the thread's own.
THEOREM ResponseIsOwn == Spec => []OwnResponse
<1>1. IInv => OwnResponse
  BY DEF IInv, RequestOK, OwnResponse, For
<1> QED
  BY <1>1, Invariance, PTL

----------------------------------------------------------------------------
(* The flags, and freshness. *)

\* What the three flags are at each place of onConnect; in particular a fetched
\* response is either inserted or used to update, never both and never neither.
FlagsFor(t) ==
  /\ pc[t] = "check" =>
       request_remote_server[t] /\ ~update_cache[t] /\ insert_cache[t]
  /\ pc[t] = "get" => ~insert_cache[t]
  /\ pc[t] \in {"fetch", "store"} =>
       request_remote_server[t] /\ (update_cache[t] <=> ~insert_cache[t])

FlagsOK == \A t \in Threads : FlagsFor(t)

\* The locals of a thread that takes no part in a step.
SameLocals(u) ==
  /\ pc'[u] = pc[u]
  /\ host_path'[u] = host_path[u]
  /\ resp'[u] = resp[u]
  /\ insert_cache'[u] = insert_cache[u]
  /\ update_cache'[u] = update_cache[u]
  /\ request_remote_server'[u] = request_remote_server[u]
  /\ current_time'[u] = current_time[u]

\* Calling into sqlite3, and time, change no local of onConnect.
LEMMA SqliteFrame ==
  ASSUME \/ Tick
         \/ \E t \in Threads : Check(t) \/ Get(t) \/ Store(t) \/ Sqlite(t)
         \/ \E t \in Threads : NullColumn(t)
  PROVE  \A u \in Threads : SameLocals(u)
  BY DEF Check, Get, Store, Sqlite, NullColumn, Die, Tick, localVars, flagVars, SameLocals

\* A step that changes a local of thread u is a step of u, or a restart.
LEMMA LocalSteps ==
  ASSUME TypeOK, [Next]_vars, NEW u \in Threads
  PROVE  SameLocals(u) \/ NoSqlite(u) \/ QueryEnds(u) \/ Restart
<1>1. CASE UNCHANGED vars
  BY <1>1 DEF vars, localVars, flagVars, SameLocals
<1>2. ASSUME NEW t \in Threads, NoSqlite(t), t # u PROVE SameLocals(u)
  BY <1>2, NoSqliteFrame DEF SameLocals
<1>3. ASSUME NEW t \in Threads, QueryEnds(t), t # u PROVE SameLocals(u)
  BY <1>3, QueryEndsFrame DEF SameLocals
<1> QED
  BY <1>1, <1>2, <1>3, NextKinds, SqliteFrame

\* The flags are as FlagsOK says in every reachable state.
LEMMA FlagsInvariance == Spec => []FlagsOK
<1>1. Init => FlagsOK
  BY DEF Init, ThreadsInit, FlagsOK, FlagsFor
<1>2. TypeOK /\ FlagsOK /\ [Next]_vars => FlagsOK'
  <2> SUFFICES ASSUME TypeOK, FlagsOK, [Next]_vars, NEW u \in Threads
               PROVE  FlagsFor(u)'
    BY DEF FlagsOK
  <2>1. CASE SameLocals(u)
    BY <2>1 DEF SameLocals, FlagsOK, FlagsFor
  <2>2. CASE NoSqlite(u)
    <3> USE DEF TypeOK, Goto, Die, CatchException, LeaveTryBlock, LoopEnd,
                localVars, flagVars, FlagsOK, FlagsFor
    <3>1. CASE Client(u)
      BY <3>1 DEF Client, Connect, GotRequest, BadRequest, BadPort, ReadFails, ReadEof
    <3>2. CASE Remote(u)
      BY <3>2 DEF Remote, FetchOk, FetchFails, FetchTimeout, FetchEof, FetchSigpipe
    <3>3. CASE \/ Send(u) \/ SendFails(u) \/ SendError(u) \/ SendErrorFails(u)
               \/ SendSigpipe(u) \/ Close(u)
      BY <3>3 DEF Send, SendFails, SendError, SendErrorFails, SendSigpipe, Close
    <3> QED
      BY <2>2, <3>1, <3>2, <3>3 DEF NoSqlite
  <2>3. CASE QueryEnds(u)
    <3> USE DEF TypeOK, Goto, Die, localVars, flagVars, FlagsOK, FlagsFor
    <3>1. CASE Checked(u)
      BY <3>1 DEF Checked
    <3>2. CASE Got(u)
      BY <3>2 DEF Got
    <3>3. CASE Stored(u) \/ AtEmptyResult(u) \/ Threw(u)
      BY <3>3 DEF Stored, AtEmptyResult, Threw
    <3> QED
      BY <2>3, <3>1, <3>2, <3>3 DEF QueryEnds
  <2>4. CASE Restart
    BY <2>4 DEF Restart, FlagsFor
  <2> QED
    BY <2>1, <2>2, <2>3, <2>4, LocalSteps
<1> QED
  BY <1>1, <1>2, TypeCorrect, PTL DEF Spec

\* A response served without asking the origin had not expired: only the return
\* of getCache decides to serve it, by the EXPIRE column that came with it.
THEOREM HitIsFresh == Spec => []FreshOnHit
<1>1. Init => FreshOnHit
  BY DEF Init, ThreadsInit, FreshOnHit
<1>2. IInv /\ FlagsOK /\ FreshOnHit /\ [Next]_vars => FreshOnHit'
  <2> SUFFICES ASSUME IInv, FlagsOK, FreshOnHit, [Next]_vars,
                      intact', NEW u \in Threads, pc'[u] = "send",
                      ~request_remote_server'[u], resp'[u].expires # NoDate
               PROVE  resp'[u].expires >= current_time'[u]
    BY DEF FreshOnHit
  <2>0. intact
    BY NextIntact DEF IInv
  <2>1. CASE SameLocals(u)
    BY <2>0, <2>1 DEF SameLocals, FreshOnHit
  <2>2. CASE Got(u)
    <3>1. resp'[u] = results[u][1].resp /\ MayBeFresh(results[u][1].expire, now)
      BY <2>2 DEF Got, Goto, IInv, TypeOK
    <3>2. current_time'[u] = now
      BY <2>2 DEF Got, IInv, TypeOK
    <3>3. results[u][1].expire = results[u][1].resp.expires
      BY <2>0, <2>2, GotEntry DEF RowOK
    <3> QED
      BY <3>1, <3>2, <3>3 DEF MayBeFresh
  <2>3. CASE QueryEnds(u) /\ ~Got(u)
    <3> USE DEF Goto, Die, localVars, flagVars, IInv, TypeOK
    <3>1. ~Checked(u)
      BY DEF Checked
    <3>2. ~Stored(u)
      BY DEF Stored, FlagsOK, FlagsFor
    <3>3. CASE AtEmptyResult(u) \/ Threw(u)
      BY <3>3 DEF AtEmptyResult, Threw
    <3> QED
      BY <2>3, <3>1, <3>2, <3>3 DEF QueryEnds
  <2>4. CASE NoSqlite(u) /\ ~SameLocals(u)
    <3> USE DEF TypeOK, Goto, Die, CatchException, LeaveTryBlock, LoopEnd,
                localVars, flagVars, SameLocals, IInv
    <3>1. ~Client(u)
      BY <2>4 DEF Client, Connect, GotRequest, BadRequest, BadPort, ReadFails, ReadEof
    <3>2. ~Remote(u)
      BY <2>4 DEF Remote, FetchOk, FetchFails, FetchTimeout, FetchEof, FetchSigpipe
    <3>3. CASE \/ Send(u) \/ SendFails(u) \/ SendError(u) \/ SendErrorFails(u)
               \/ SendSigpipe(u) \/ Close(u)
      BY <2>4, <3>3
      DEF Send, SendFails, SendError, SendErrorFails, SendSigpipe, Close
    <3> QED
      BY <2>4, <3>1, <3>2, <3>3 DEF NoSqlite
  <2>5. CASE Restart
    BY <2>5 DEF Restart
  <2>6. TypeOK
    BY DEF IInv
  <2> QED
    BY <2>1, <2>2, <2>3, <2>4, <2>5, <2>6, LocalSteps
<1> QED
  BY <1>1, <1>2, Invariance, FlagsInvariance, PTL DEF Spec

----------------------------------------------------------------------------
(* Duplicate rows. *)

\* Thread t saw no row of its key, and has not inserted one since.
NotYet(t) ==
  \/ pc[t] = "check" /\ results[t] # << >> /\ results[t][1].count = 0
  \/ pc[t] = "fetch" /\ insert_cache[t]
  \/ pc[t] = "store" /\ insert_cache[t] /\ qpc[t] \in {"idle", "step"}

NoRowBy(t) ==
  \A n \in DOMAIN rows : ~(rows[n].key = host_path[t] /\ rows[n].by = t)

InsertInv ==
  /\ OneInsertPerThread
  /\ intact => \A t \in Threads : NotYet(t) => NoRowBy(t)

\* A step in which thread u does not write, and after which it may insert only
\* if it might before, is harmless when the table does not change.
LEMMA NotYetFrame ==
  ASSUME InsertInv, intact, UNCHANGED rows,
         \A u \in Threads :
           NotYet(u)' => (NotYet(u) /\ host_path'[u] = host_path[u]) \/ NoRowBy(u)'
  PROVE  InsertInv'
<1>1. OneInsertPerThread'
  BY DEF InsertInv, OneInsertPerThread
<1>2. ASSUME NEW u \in Threads, NotYet(u)' PROVE NoRowBy(u)'
  BY <1>2 DEF InsertInv, NoRowBy
<1> QED
  BY <1>1, <1>2 DEF InsertInv

\* An insert adds the first row of its key by its thread.
LEMMA InsertKeeps ==
  ASSUME IInv, InsertInv, intact, NEW t \in Threads, Step(t), StepWrite(t),
         UNCHANGED <<pc, localVars>>
  PROVE  InsertInv'
<1>1. /\ rows \in Seq(Rows) /\ qpc[t] = "step" /\ Calls(t, sql[t])
      /\ qpc'[t] = "finalize" /\ results' = results
  BY DEF Step, StepWrite, StepDone, IInv, TypeOK, DbTypeOK, StatementMatches
<1>2. sql[t] \in Statements /\ sql[t].key = host_path[t]
  BY <1>1, CallsFacts
<1>3. \A u \in Threads : NotYet(u)' => NotYet(u) /\ u # t
  BY <1>1, CallsFacts
  DEF NotYet, Step, StepWrite, StepDone, IInv, TypeOK, DbTypeOK, localVars, flagVars
<1>4. CASE sql[t].op = "insert"
  <2>1. NoRowBy(t)
    BY <1>1, <1>4, CallsFacts DEF InsertInv, NotYet, Calls
  <2> DEFINE new == rows'
  <2>2. /\ new \in Seq(Rows) /\ Len(new) = Len(rows) + 1
        /\ \A n \in DOMAIN rows : new[n] = rows[n]
        /\ new[Len(rows) + 1].key = host_path[t]
        /\ new[Len(rows) + 1].by = t
    <3>1. new = Inserted(t, sql[t])
      BY <1>4 DEF StepWrite, StepDone
    <3>2. /\ new \in Seq(Rows) /\ Len(new) = Len(rows) + 1
          /\ \A n \in DOMAIN rows : new[n] = rows[n]
          /\ new[Len(rows) + 1] =
               [key |-> sql[t].key, expire |-> sql[t].expire,
                resp |-> Literal(sql[t].resp), by |-> t]
      BY <1>1, <1>2, <1>4, <3>1, InsertedFacts
    <3> QED
      BY <1>2, <3>2
  <2>3. \A n \in DOMAIN new : n \in DOMAIN rows \/ n = Len(rows) + 1
    BY <1>1, <2>2
  <2> HIDE DEF new
  <2>4. \A i, j \in DOMAIN new :
          new[i].key = new[j].key /\ new[i].by = new[j].by => i = j
    BY <2>1, <2>2, <2>3 DEF InsertInv, OneInsertPerThread, NoRowBy
  <2>5. ASSUME NEW u \in Threads, NotYet(u)'
        PROVE  \A n \in DOMAIN new : ~(new[n].key = host_path[u] /\ new[n].by = u)
    BY <1>3, <2>2, <2>3, <2>5 DEF InsertInv, NoRowBy
  <2> QED
    BY <2>4, <2>5 DEF new, InsertInv, OneInsertPerThread, NoRowBy, localVars
<1>5. CASE sql[t].op = "update"
  <2>1. /\ DOMAIN rows' = DOMAIN rows
        /\ \A n \in DOMAIN rows :
             rows'[n].key = rows[n].key /\ rows'[n].by = rows[n].by
    BY <1>1, <1>2, <1>5, UpdatedFacts DEF StepWrite, StepDone
  <2> QED
    BY <1>3, <2>1 DEF InsertInv, OneInsertPerThread, NoRowBy, localVars
<1> QED
  BY <1>4, <1>5 DEF StepWrite

\* A count of zero means that the key has no row at all.
LEMMA CountKeeps ==
  ASSUME IInv, InsertInv, intact, NEW t \in Threads, Step(t), StepCount(t),
         UNCHANGED <<pc, localVars>>
  PROVE  InsertInv'
<1>1. /\ rows \in Seq(Rows) /\ Calls(t, sql[t]) /\ results[t] \in Seq(Values)
      /\ rows' = rows
  BY DEF Step, StepCount, StepRow, StepDone, IInv, TypeOK, DbTypeOK, StatementMatches
<1>2. sql[t].key = host_path[t] /\ pc[t] = "check"
  BY <1>1, CallsFacts DEF StepCount
<1>3. ASSUME NEW u \in Threads, NotYet(u)', u # t PROVE NotYet(u)
  BY <1>3
  DEF NotYet, Step, StepCount, StepRow, StepDone, IInv, TypeOK, DbTypeOK,
      localVars, flagVars
<1>4. ASSUME NotYet(t)' PROVE NotYet(t) \/ NoRowBy(t)'
  <2>1. CASE UNCHANGED results
    BY <1>2, <1>4, <2>1 DEF NotYet
  <2>2. CASE results[t] # << >> /\ ~UNCHANGED results
    <3> DEFINE v == [count |-> Cardinality(RowsOf(sql[t].key))]
    <3>1. results'[t] = Append(results[t], v)
      BY <2>2 DEF StepCount, StepRow, StepDone, IInv, TypeOK, DbTypeOK
    <3> HIDE DEF v
    <3>2. results'[t][1] = results[t][1]
      BY <1>1, <2>2, <3>1
    <3> QED
      BY <1>2, <1>4, <2>2, <3>2 DEF NotYet
  <2>3. CASE results[t] = << >> /\ ~UNCHANGED results
    <3>1. results'[t] = Append(results[t], [count |-> Cardinality(RowsOf(sql[t].key))])
      BY <2>3 DEF StepCount, StepRow, StepDone, IInv, TypeOK, DbTypeOK
    <3>2. results'[t][1].count = Cardinality(RowsOf(sql[t].key))
      BY <2>3, <3>1
    <3>3. RowsOf(sql[t].key) = {}
      BY <1>1, <1>2, <1>4, <3>2, RowsOfFinite DEF NotYet
    <3> QED
      BY <1>1, <1>2, <3>3 DEF RowsOf, NoRowBy, localVars
  <2> QED
    BY <2>1, <2>2, <2>3
<1> QED
  BY <1>1, <1>3, <1>4, NotYetFrame DEF localVars

\* Rows of one key come from different threads, for any number of threads and
\* restarts: the cache never holds more copies of a key than there were threads.
THEOREM DuplicatesBounded == Spec => []OneInsertPerThread
<1>1. Init => InsertInv
  BY DEF Init, ThreadsInit, InsertInv, OneInsertPerThread, NotYet
<1>2. IInv /\ FlagsOK /\ InsertInv /\ [Next]_vars => InsertInv'
  <2> SUFFICES ASSUME IInv, FlagsOK, InsertInv, [Next]_vars, intact' PROVE InsertInv'
    BY DEF InsertInv, OneInsertPerThread
  <2>1. TypeOK
    BY DEF IInv
  <2>0. intact
    BY <2>1, NextIntact
  <2> USE <2>0
  <2>2. CASE UNCHANGED vars \/ Tick
    <3>1. UNCHANGED <<dbVars, pc, localVars>>
      BY <2>2 DEF vars, Tick
    <3>2. \A u \in Threads : NotYet(u)' => NotYet(u)
      BY <3>1 DEF dbVars, localVars, flagVars, NotYet
    <3> QED
      BY <3>1, <3>2, NotYetFrame DEF dbVars, localVars
  <2>3. CASE Restart
    BY <2>3, NotYetFrame DEF Restart, NotYet
  <2>4. ASSUME NEW t \in Threads, NoSqlite(t) PROVE InsertInv'
    <3>1. UNCHANGED dbVars /\ qpc[t] = "idle" /\ results[t] = << >>
      BY <2>1, <2>4, NoSqliteFrame
      DEF IInv, StatementMatches, Calls, ResultsMatch, ResultsFor
    <3>2. ASSUME NEW u \in Threads, u # t, NotYet(u)'
          PROVE  NotYet(u) /\ host_path'[u] = host_path[u]
      BY <2>1, <2>4, <3>1, <3>2, NoSqliteFrame DEF NotYet, dbVars
    <3>3. ASSUME NotYet(t)' PROVE NotYet(t) /\ host_path'[t] = host_path[t]
      <4>1. pc'[t] \in {"fetch", "store"}
        BY <3>1, <3>3 DEF NotYet, dbVars
      <4> USE DEF TypeOK, Goto, Die, CatchException, LeaveTryBlock, LoopEnd,
                  localVars, flagVars, NotYet
      <4>2. CASE Client(t)
        BY <2>1, <3>3, <4>1, <4>2
        DEF Client, Connect, GotRequest, BadRequest, BadPort, ReadFails, ReadEof
      <4>3. CASE Remote(t)
        BY <2>1, <3>3, <4>1, <4>3
        DEF Remote, FetchOk, FetchFails, FetchTimeout, FetchEof, FetchSigpipe
      <4>4. CASE \/ Send(t) \/ SendFails(t) \/ SendError(t) \/ SendErrorFails(t)
                 \/ SendSigpipe(t) \/ Close(t)
        BY <2>1, <3>3, <4>1, <4>4
        DEF Send, SendFails, SendError, SendErrorFails, SendSigpipe, Close
      <4> QED
        BY <2>4, <4>2, <4>3, <4>4 DEF NoSqlite
    <3> QED
      BY <3>1, <3>2, <3>3, NotYetFrame DEF dbVars
  <2>5. ASSUME NEW t \in Threads, Check(t) \/ Get(t) \/ Store(t) PROVE InsertInv'
    <3>1. PICK s : Prepare(t, s)
      BY <2>5
      DEF Check, Get, Store, containsHostPathCache, getCache, insertCache, updateCache
    <3>2. UNCHANGED <<pc, localVars>>
      BY <2>5 DEF Check, Get, Store
    <3> QED
      BY <2>1, <3>1, <3>2, NotYetFrame
      DEF Prepare, NotYet, TypeOK, DbTypeOK, localVars, flagVars
  <2>6. ASSUME NEW t \in Threads, Sqlite(t) PROVE InsertInv'
    <3>1. UNCHANGED <<pc, localVars>>
      BY <2>6 DEF Sqlite
    <3>2. CASE Step(t) /\ (StepWrite(t) \/ StepCount(t))
      BY <3>1, <3>2, InsertKeeps, CountKeeps
    <3>3. CASE Step(t) /\ StepSelect(t)
      <4>1. pc[t] = "get" /\ rows' = rows
        BY <3>3, CallsFacts
        DEF Step, StepSelect, StepRow, StepDone, IInv, StatementMatches
      <4>2. \A u \in Threads \ {t} : qpc'[u] = qpc[u] /\ results'[u] = results[u]
        BY <2>1, <3>3 DEF StepSelect, StepRow, StepDone, TypeOK, DbTypeOK
      <4> QED
        BY <3>1, <4>1, <4>2, NotYetFrame DEF NotYet, localVars, flagVars
    <3>4. CASE StepFault(t) \/ Finalize(t)
      <4>1. \A u \in Threads : NotYet(u)' => NotYet(u)
        BY <2>1, <3>1, <3>4
        DEF StepFault, Finalize, NotYet, TypeOK, DbTypeOK, localVars, flagVars
      <4> QED
        BY <3>1, <3>4, <4>1, NotYetFrame DEF StepFault, Finalize, localVars
    <3> QED
      BY <2>6, <3>2, <3>3, <3>4, StepMeant DEF Sqlite
  <2>7. ASSUME NEW t \in Threads, QueryEnds(t) PROVE InsertInv'
    <3>1. UNCHANGED <<rows, host_path>>
      BY <2>1, <2>7, QueryEndsFrame
    <3>2. ASSUME NEW u \in Threads, u # t, NotYet(u)' PROVE NotYet(u)
      BY <2>1, <2>7, <3>2, QueryEndsFrame DEF NotYet
    <3>3. ASSUME NotYet(t)' PROVE NotYet(t)
      <4> USE DEF NotYet, TypeOK, DbTypeOK, Goto, Die, QueryReturn, QueryThrow,
                  localVars, flagVars
      <4>1. CASE Checked(t)
        BY <2>1, <3>3, <4>1 DEF Checked
      <4>2. CASE Got(t)
        BY <2>1, <3>3, <4>2 DEF Got, FlagsOK, FlagsFor
      <4>3. CASE Stored(t) \/ AtEmptyResult(t)
        BY <2>1, <3>3, <4>3 DEF Stored, AtEmptyResult
      <4>4. CASE Threw(t)
        BY <2>1, <3>3, <4>4 DEF Threw
      <4> QED
        BY <2>7, <4>1, <4>2, <4>3, <4>4 DEF QueryEnds
    <3> QED
      BY <3>1, <3>2, <3>3, NotYetFrame
  <2> QED
    BY <2>2, <2>3, <2>4, <2>5, <2>6, <2>7, NextKinds DEF NullColumn
<1>3. InsertInv => OneInsertPerThread
  BY DEF InsertInv
<1> QED
  BY <1>1, <1>2, <1>3, Invariance, FlagsInvariance, PTL DEF Spec
=============================================================================
