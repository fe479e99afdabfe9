------------------------- MODULE OnConnectRefines --------------------------
(***************************************************************************)
(* The connection threads implement the abstract CachingProxy.  A request  *)
(* takes its effect where sqlite3_step does: the count that finds no row   *)
(* is the miss, the first row of the select is the look, the step of the   *)
(* insert or update is the save.                                           *)
(***************************************************************************)
EXTENDS OnConnect

\* The write of thread t has been carried out.
Written(t) ==
  /\ qpc[t] \in {"finalize", "errmsg", "threw"}
  /\ WellFormed(sql[t])
  /\ stmtRc[t] = "OK"

EntryAt(i) == [expire |-> rows[i].expire, resp |-> rows[i].resp]

AbsCache == [k \in Keys |-> {EntryAt(i) : i \in RowsOf(k)}]

AbsPhase(t) ==
  CASE pc[t] = "check" ->
         IF results[t] # << >> /\ results[t][1].count = 0 THEN "fill" ELSE "asked"
    [] pc[t] = "get" -> IF results[t] # << >> THEN "shown" ELSE "asked"
    [] pc[t] = "fetch" -> IF update_cache[t] THEN "refresh" ELSE "fill"
    [] pc[t] = "store" ->
         IF Written(t) THEN "reply"
         ELSE IF update_cache[t] THEN "refetched" ELSE "fetched"
    [] pc[t] = "send" -> "reply"
    [] OTHER -> "idle"

AbsWant(t) == IF AbsPhase(t) = "idle" THEN "none" ELSE host_path[t]

AbsShown(t) ==
  IF AbsPhase(t) = "shown"
  THEN [expire |-> results[t][1].expire, resp |-> results[t][1].resp]
  ELSE [expire |-> "none"]

AbsPhases == [t \in Threads |-> AbsPhase(t)]
AbsWants == [t \in Threads |-> AbsWant(t)]
AbsShowns == [t \in Threads |-> AbsShown(t)]

\* A save can fail unnoticed only when a statement can fail and another thread
\* is there to overwrite the connection's error code.
MayLoseSave ==
  /\ StepFaults \/ BadStatements # {}
  /\ \E t, u \in Threads : t # u

Cache == INSTANCE CachingProxy WITH
  cache <- AbsCache,
  phase <- AbsPhases,
  want <- AbsWants,
  shown <- AbsShowns,
  reply <- resp,
  MayLose <- MayLoseSave

\* Two queries to look, one to save, and other threads in between: onConnect
\* still behaves as if each request looked at the cache once and saved in one
\* step.  What it serves from the cache was in the cache for that key and fresh,
\* what it fetched is saved before it is sent, and a crash loses no entry.  Only
\* a failure that another thread's call hides makes it send what was not saved,
\* and only a text whose quotes make a different statement damages the table.
RefinesCachingProxy == Cache!Spec
=============================================================================
