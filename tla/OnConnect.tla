----------------------------- MODULE OnConnect -----------------------------
(***************************************************************************)
(* The connection threads: ProxyServer::onConnect of                       *)
(* src/src/proxy-server.cc with the functions it calls, getHttpRequest,    *)
(* sendHttpResponse and the use it makes of ProxyServerClient and of the   *)
(* shared Database (module CacheDb, whose actions interleave freely).      *)
(*                                                                         *)
(* Sockets are seen by their outcomes: what a thread reads from its client *)
(* or gets from the origin server is any member of a small set, and every  *)
(* way the code says recv, send, connect or parsing can end is one action. *)
(* Any exception that leaves a thread function ends the whole process;     *)
(* proc records the cause.  The database file outlives the process.        *)
(***************************************************************************)
EXTENDS CacheDb

CONSTANTS
  MaxTime,   \* the clock stops here (a bound of the model)
  NoDate,    \* an EXPIRE text that strptime does not parse, "" included
  Closing,   \* may a request say "Connection: close"?  a subset of BOOLEAN
  Faults     \* the environment faults that may happen, a subset of AllFaults

AllFaults == {"recv", "eof", "parse", "port", "remote", "timeout", "reuse", "send",
              "sigpipe"}

ASSUME OnConnectAssumption ==
  /\ MaxTime \in Nat
  /\ Expires \subseteq Nat \cup {NoDate}
  /\ NoDate \notin Nat
  /\ Closing \subseteq BOOLEAN
  /\ Faults \subseteq AllFaults

VARIABLES
  proc,                   \* "up", or what ended the process
  now,                    \* the wall clock
  pc,                     \* where in onConnect each thread is
  persistent,             \* local variables of onConnect
  host_path,
  request_remote_server,
  update_cache,
  insert_cache,
  current_time,
  resp,
  client                  \* the pointer: "uninit", "live" or "deleted"

flagVars == <<request_remote_server, update_cache, insert_cache>>
localVars == <<persistent, host_path, flagVars, current_time, resp, client>>
vars == <<dbVars, proc, now, pc, localVars>>

\* What resp.entire holds before the response is known.
NoResp == [key |-> "none"]

Deaths == {"SqliteException", "out_of_range", "bad_lexical_cast",
           "throw_in_handler", "bad_delete", "logic_error", "SIGPIPE"}

PCs == {"none", "read", "check", "get", "fetch", "store", "send", "error",
        "close", "spin"}

TypeOK ==
  /\ DbTypeOK
  /\ proc \in {"up"} \cup Deaths
  /\ now \in 0..MaxTime
  /\ pc \in [Threads -> PCs]
  /\ persistent \in [Threads -> BOOLEAN]
  /\ host_path \in [Threads -> Keys \cup {"none"}]
  /\ request_remote_server \in [Threads -> BOOLEAN]
  /\ update_cache \in [Threads -> BOOLEAN]
  /\ insert_cache \in [Threads -> BOOLEAN]
  /\ current_time \in [Threads -> 0..MaxTime]
  /\ resp \in [Threads -> Resps \cup {NoResp}]
  /\ client \in [Threads -> {"uninit", "live", "deleted"}]

ThreadsInit ==
  /\ pc = [t \in Threads |-> "none"]
  /\ persistent = [t \in Threads |-> TRUE]
  /\ host_path = [t \in Threads |-> "none"]
  /\ request_remote_server = [t \in Threads |-> TRUE]
  /\ update_cache = [t \in Threads |-> FALSE]
  /\ insert_cache = [t \in Threads |-> TRUE]
  /\ current_time = [t \in Threads |-> 0]
  /\ resp = [t \in Threads |-> NoResp]
  /\ client = [t \in Threads |-> "uninit"]

Init ==
  /\ rows = << >>
  /\ DbOpened
  /\ ThreadsInit
  /\ proc = "up"
  /\ now = 0
  /\ intact = TRUE

----------------------------------------------------------------------------
(* Steps every part of the thread uses. *)

Goto(t, from, to) ==
  /\ proc = "up"
  /\ pc[t] = from
  /\ pc' = [pc EXCEPT ![t] = to]
  /\ UNCHANGED <<proc, now>>

\* An exception or a signal nobody handles at this point ends the process.
Die(t, from, cause) ==
  /\ proc = "up"
  /\ pc[t] = from
  /\ proc' = cause
  /\ UNCHANGED <<now, pc, localVars>>

\* The try block is left: the variables declared in it are gone.
LeaveTryBlock(t) ==
  /\ host_path' = [host_path EXCEPT ![t] = "none"]
  /\ request_remote_server' = [request_remote_server EXCEPT ![t] = TRUE]
  /\ update_cache' = [update_cache EXCEPT ![t] = FALSE]
  /\ insert_cache' = [insert_cache EXCEPT ![t] = TRUE]
  /\ current_time' = [current_time EXCEPT ![t] = 0]
  /\ resp' = [resp EXCEPT ![t] = NoResp]

\* catch (ProxyServerException&): delete client, whose value is c here, and
\* break out of the loop.  Deleting a pointer that was never set or was deleted
\* before is undefined: the process aborts, or the thread gets away with it.
CatchException(t, from, c) ==
  \/ /\ Goto(t, from, "close")
     /\ LeaveTryBlock(t)
     /\ client' = [client EXCEPT ![t] = "deleted"]
     /\ UNCHANGED persistent
  \/ c # "live" /\ Die(t, from, "bad_delete")

\* Mutant: while (true).
LoopEndNever(t) == "read"

\* while (persistent): the next request, or out of the loop.
LoopEnd(t) == IF persistent[t] THEN "read" ELSE "close"

----------------------------------------------------------------------------
(* A new connection, and getHttpRequest. *)

\* The accept loop started a thread for a new connection.
Connect(t) ==
  /\ Goto(t, "none", "read")
  /\ UNCHANGED <<dbVars, localVars>>

\* A GET request arrived and parsed; close: it has "Connection: close".  (Only
\* rows that a different statement added can make the table as long as MaxRows.)
GotRequest(t, k, close) ==
  /\ intact \/ Len(rows) < MaxRows
  /\ Goto(t, "read", "check")
  /\ persistent' = [persistent EXCEPT ![t] = ~close]
  /\ host_path' = [host_path EXCEPT ![t] = k]
  /\ request_remote_server' = [request_remote_server EXCEPT ![t] = TRUE]
  /\ update_cache' = [update_cache EXCEPT ![t] = FALSE]
  /\ insert_cache' = [insert_cache EXCEPT ![t] = TRUE]
  /\ UNCHANGED <<dbVars, current_time, resp, client>>

\* ParseException: the handler will answer 400 or 501.
BadRequest(t) ==
  /\ "parse" \in Faults
  /\ Goto(t, "read", "error")
  /\ UNCHANGED <<dbVars, localVars>>

\* A port that is no number: bad_lexical_cast is not a ParseException.
BadPort(t) ==
  /\ "port" \in Faults
  /\ Die(t, "read", "bad_lexical_cast")
  /\ UNCHANGED dbVars

\* recv failed or its SO_RCVTIMEO passed: ProxyServerException.
ReadFails(t) ==
  /\ "recv" \in Faults
  /\ CatchException(t, "read", client[t])
  /\ UNCHANGED dbVars

\* The client closed: recv returns 0 for ever and recv_until keeps calling it.
ReadEof(t) ==
  /\ "eof" \in Faults
  /\ Goto(t, "read", "spin")
  /\ UNCHANGED <<dbVars, localVars>>

----------------------------------------------------------------------------
(* The cache lookup. *)

Check(t) ==
  /\ proc = "up" /\ pc[t] = "check"
  /\ containsHostPathCache(t, host_path[t])
  /\ UNCHANGED <<proc, now, pc, localVars>>

\* Mutant: insert_cache = false is missing.
CheckedKeepsInsert(t) ==
  /\ pc[t] = "check"
  /\ QueryReturn(t)
  /\ results[t] # << >>
  /\ \/ results[t][1].count = 0 /\ Goto(t, "check", "fetch")
     \/ results[t][1].count > 0 /\ Goto(t, "check", "get")
  /\ UNCHANGED localVars

\* containsHostPathCache returns: miss or hit.
Checked(t) ==
  /\ pc[t] = "check"
  /\ QueryReturn(t)
  /\ results[t] # << >>
  /\ \/ /\ results[t][1].count = 0
        /\ Goto(t, "check", "fetch")
        /\ UNCHANGED insert_cache
     \/ /\ results[t][1].count > 0
        /\ Goto(t, "check", "get")
        /\ insert_cache' = [insert_cache EXCEPT ![t] = FALSE]
  /\ UNCHANGED <<persistent, host_path, request_remote_server, update_cache,
                 current_time, resp, client>>

Get(t) ==
  /\ proc = "up" /\ pc[t] = "get"
  /\ getCache(t, host_path[t])
  /\ UNCHANGED <<proc, now, pc, localVars>>

\* The cached text e is older than time n.  For a text strptime cannot parse,
\* timegm reads a struct tm nobody initialised: either answer.
MayBeExpired(e, n) == e # NoDate => e < n

MayBeFresh(e, n) == e # NoDate => e >= n

\* getCache returns: compare the first row's EXPIRE with the clock.
Got(t) ==
  LET entry == results[t][1]
  IN /\ pc[t] = "get"
     /\ QueryReturn(t)
     /\ results[t] # << >>
     /\ current_time' = [current_time EXCEPT ![t] = now]
     /\ \/ /\ MayBeExpired(entry.expire, now)
           /\ Goto(t, "get", "fetch")
           /\ request_remote_server' = [request_remote_server EXCEPT ![t] = TRUE]
           /\ update_cache' = [update_cache EXCEPT ![t] = TRUE]
           /\ UNCHANGED resp
        \/ /\ MayBeFresh(entry.expire, now)
           /\ Goto(t, "get", "send")
           /\ request_remote_server' = [request_remote_server EXCEPT ![t] = FALSE]
           /\ update_cache' = [update_cache EXCEPT ![t] = FALSE]
           /\ resp' = [resp EXCEPT ![t] = entry.resp]
     /\ UNCHANGED <<persistent, host_path, insert_cache, client>>

\* Mutant: an empty result is asked for again.
AtEmptyResultRetries(t) ==
  /\ results[t] = << >>
  /\ QueryReturn(t)
  /\ proc = "up" /\ pc[t] \in {"check", "get"}
  /\ UNCHANGED <<proc, now, pc, localVars>>

\* result.at(0) on an empty result: std::out_of_range leaves the thread.
AtEmptyResult(t) ==
  /\ results[t] = << >>
  /\ QueryReturn(t)
  /\ Die(t, "check", "out_of_range") \/ Die(t, "get", "out_of_range")

----------------------------------------------------------------------------
(* The origin server, through ProxyServerClient. *)

\* new, sendHttpRequest, getHttpResponse, delete.  The response is the origin's
\* answer to this request when the number is the thread's own socket.  After a
\* failure of connectServer, which the constructor swallows, it may be anybody's
\* (module ProxyServerClient), and what is read there was not asked for.
FetchOk(t, r) ==
  /\ r.key = host_path[t] \/ ("reuse" \in Faults /\ r.key = Foreign)
  /\ Goto(t, "fetch", "store")
  /\ resp' = [resp EXCEPT ![t] = r]
  /\ client' = [client EXCEPT ![t] = "deleted"]
  /\ UNCHANGED <<dbVars, persistent, host_path, flagVars, current_time>>

\* connect, send or recv failed, or the response has no usable header.
FetchFails(t) ==
  /\ "remote" \in Faults
  /\ CatchException(t, "fetch", "live")
  /\ UNCHANGED dbVars

\* A read of the response came back as EAGAIN: answer 408; client stays.
FetchTimeout(t) ==
  /\ "timeout" \in Faults
  /\ Goto(t, "fetch", "error")
  /\ LeaveTryBlock(t)
  /\ client' = [client EXCEPT ![t] = "live"]
  /\ UNCHANGED <<dbVars, persistent>>

\* The origin closed before recv_nth had counted Content-Length bytes, which it
\* never does when some of them came with the header (module HttpExchange): the
\* read loop spins.
FetchEof(t) ==
  /\ "eof" \in Faults
  /\ Goto(t, "fetch", "spin")
  /\ client' = [client EXCEPT ![t] = "live"]
  /\ UNCHANGED <<dbVars, persistent, host_path, flagVars, current_time, resp>>

\* The origin reset the connection before the request was sent.
FetchSigpipe(t) ==
  /\ "sigpipe" \in Faults
  /\ Die(t, "fetch", "SIGPIPE")
  /\ UNCHANGED dbVars

----------------------------------------------------------------------------
(* Saving the response, and answering. *)

\* Mutant: a refreshed response is inserted beside the expired one.
StoreInserts(t) ==
  /\ proc = "up" /\ pc[t] = "store"
  /\ insertCache(t, host_path[t], resp[t].expires, resp[t])
  /\ UNCHANGED <<proc, now, pc, localVars>>

Store(t) ==
  /\ proc = "up" /\ pc[t] = "store"
  /\ \/ update_cache[t] /\ updateCache(t, host_path[t], resp[t].expires, resp[t])
     \/ insert_cache[t] /\ insertCache(t, host_path[t], resp[t].expires, resp[t])
  /\ UNCHANGED <<proc, now, pc, localVars>>

Stored(t) ==
  /\ QueryReturn(t)
  /\ Goto(t, "store", "send")
  /\ UNCHANGED localVars

\* sendHttpResponse(client_id, resp.entire).
Send(t) ==
  /\ Goto(t, "send", LoopEnd(t))
  /\ LeaveTryBlock(t)
  /\ UNCHANGED <<dbVars, persistent, client>>

SendFails(t) ==
  /\ "send" \in Faults
  /\ CatchException(t, "send", client[t])
  /\ UNCHANGED dbVars

\* The handler of ProxyServerErrorResponseException answers 400, 501 or 408.
SendError(t) ==
  /\ Goto(t, "error", LoopEnd(t))
  /\ UNCHANGED <<dbVars, localVars>>

\* An exception thrown inside that handler is not caught by its siblings.
SendErrorFails(t) ==
  /\ "send" \in Faults
  /\ Die(t, "error", "throw_in_handler")
  /\ UNCHANGED dbVars

\* The client reset the connection: nobody ignores SIGPIPE.
SendSigpipe(t) ==
  /\ "sigpipe" \in Faults
  /\ Die(t, "send", "SIGPIPE") \/ Die(t, "error", "SIGPIPE")
  /\ UNCHANGED dbVars

\* close(client_id), and the thread returns.
Close(t) ==
  /\ Goto(t, "close", "none")
  /\ persistent' = [persistent EXCEPT ![t] = TRUE]
  /\ client' = [client EXCEPT ![t] = "uninit"]
  /\ UNCHANGED <<dbVars, host_path, flagVars, current_time, resp>>

----------------------------------------------------------------------------
(* The calls into sqlite3, the clock, and the process. *)

\* No handler of onConnect catches SqliteException.
Threw(t) ==
  /\ QueryThrow(t)
  /\ \E from \in {"check", "get", "store"} : Die(t, from, "SqliteException")

\* A column that is NULL, which only a different statement can have stored or
\* selected: std::string(NULL) throws logic_error.
NullColumn(t) ==
  /\ qpc[t] = "step" /\ sql[t].op \in {"count", "select"}
  /\ ~intact \/ Spliced(sql[t])
  /\ intact' = FALSE
  /\ Die(t, "check", "logic_error") \/ Die(t, "get", "logic_error")
  /\ UNCHANGED <<rows, errCode, qpc, sql, stmtRc, cursor, results>>

Sqlite(t) ==
  /\ proc = "up"
  /\ Step(t) \/ StepFault(t) \/ Finalize(t)
  /\ UNCHANGED <<proc, now, pc, localVars>>

Tick ==
  /\ now < MaxTime
  /\ now' = now + 1
  /\ UNCHANGED <<dbVars, proc, pc, localVars>>

\* The process is started again on the same database file.
Restart ==
  /\ proc # "up"
  /\ proc' = "up"
  /\ errCode' = "OK"
  /\ qpc' = [t \in Threads |-> "idle"]
  /\ sql' = [t \in Threads |-> NoStatement]
  /\ stmtRc' = [t \in Threads |-> "OK"]
  /\ cursor' = [t \in Threads |-> 0]
  /\ results' = [t \in Threads |-> << >>]
  /\ pc' = [t \in Threads |-> "none"]
  /\ persistent' = [t \in Threads |-> TRUE]
  /\ host_path' = [t \in Threads |-> "none"]
  /\ request_remote_server' = [t \in Threads |-> TRUE]
  /\ update_cache' = [t \in Threads |-> FALSE]
  /\ insert_cache' = [t \in Threads |-> TRUE]
  /\ current_time' = [t \in Threads |-> 0]
  /\ resp' = [t \in Threads |-> NoResp]
  /\ client' = [t \in Threads |-> "uninit"]
  /\ UNCHANGED <<rows, now, intact>>

Client(t) ==
  \/ Connect(t)
  \/ \E k \in Keys, close \in Closing : GotRequest(t, k, close)
  \/ BadRequest(t)
  \/ BadPort(t)
  \/ ReadFails(t)
  \/ ReadEof(t)

Remote(t) ==
  \/ \E r \in Resps : FetchOk(t, r)
  \/ FetchFails(t)
  \/ FetchTimeout(t)
  \/ FetchEof(t)
  \/ FetchSigpipe(t)

Handler(t) ==
  \/ Check(t)
  \/ Checked(t)
  \/ Get(t)
  \/ Got(t)
  \/ AtEmptyResult(t)
  \/ Store(t)
  \/ Stored(t)
  \/ Threw(t)
  \/ Sqlite(t)
  \/ NullColumn(t)
  \/ Send(t)
  \/ SendFails(t)
  \/ SendError(t)
  \/ SendErrorFails(t)
  \/ SendSigpipe(t)
  \/ Close(t)

Next ==
  \/ \E t \in Threads : Client(t) \/ Remote(t) \/ Handler(t)
  \/ Tick
  \/ Restart

Spec == Init /\ [][Next]_vars

\* Threads the kernel schedules.  Nothing is assumed of clients and origins: the
\* origin's socket has no receive timeout.
FairSpec == Spec /\ \A t \in Threads : WF_vars(Handler(t))

----------------------------------------------------------------------------
(* Safety.  Once a quote in a request, an Expires header or a body has made  *)
(* a different statement of one of the four, the table may hold anything;    *)
(* the promises below are for the time before (intact).                      *)

\* A response served from the cache, without asking the origin, had not
\* expired when onConnect read the clock, unless its EXPIRE text is no date:
\* also when another thread rewrites the entry between lookup and comparison.
FreshOnHit ==
  \A t \in Threads :
    intact /\ pc[t] = "send" /\ ~request_remote_server[t] /\ resp[t].expires # NoDate
    => resp[t].expires >= current_time[t]

\* Whatever the other threads cached, fetched or updated meanwhile, a client is
\* sent a response that was produced for the host_path it asked for, or what
\* was read from a socket that was not the thread's own, now or by the request
\* that filled the entry: the cache itself mixes no host_paths up.
OwnResponse ==
  \A t \in Threads :
    intact /\ pc[t] = "send" => resp[t].key \in {host_path[t], Foreign}

\* Between containsHostPathCache and getCache no entry can vanish: at(0) never
\* throws std::out_of_range.  (For steps that do not fail: an error that another
\* thread's call hides leaves the result empty.)
NeverOutOfRange == intact => proc # "out_of_range"

\* Rows of one key come from different threads.  The README speaks of one entry
\* per key, but lookup and insert are separate: concurrent misses may insert
\* a key once each, also across restarts of the process on the same file, but
\* a thread never adds a second row, so duplicates are bounded.
OneInsertPerThread ==
  intact =>
    \A i, j \in DOMAIN rows :
      rows[i].key = rows[j].key /\ rows[i].by = rows[j].by => i = j

\* A response that came from the origin is only sent to the client when the
\* table has an entry for its host_path.
SavedBeforeReturned ==
  \A t \in Threads :
    intact /\ pc[t] = "send" /\ request_remote_server[t] => RowsOf(host_path[t]) # {}

----------------------------------------------------------------------------
(* Liveness, under FairSpec. *)

\* Nobody but the origin, silent or short of what recv_nth waits for, keeps
\* thread t from going on.
HeldByOrigin(t) == [](pc[t] \in {"fetch", "spin"})

\* A request that was read is concluded, whatever the other threads do on the
\* shared connection: the thread gets back to reading or to closing the
\* connection, or the process ends, or the origin server holds the thread.
RequestConcludes ==
  \A t \in Threads :
    pc[t] = "check" ~> pc[t] \in {"read", "close"} \/ proc # "up" \/ HeldByOrigin(t)

\* A request with "Connection: close" ends its thread, also when it is answered
\* with an error, unless the origin server holds it.
CloseHonoured ==
  \A t \in Threads :
    pc[t] = "check" /\ ~persistent[t] ~> pc[t] = "none" \/ proc # "up" \/ HeldByOrigin(t)
=============================================================================
