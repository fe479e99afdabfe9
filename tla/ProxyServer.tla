---------------------------- MODULE ProxyServer ----------------------------
(***************************************************************************)
(* The server object's life: main of src/http-proxy.cc, the constructor,   *)
(* start, connectSqlite, setup, loop and the destructor of                 *)
(* src/src/proxy-server.cc.  The main thread accepts connections and       *)
(* starts a thread for each.  A connection thread is seen here only by the *)
(* descriptors it closes: its own at its end, and others' before, when it  *)
(* deletes a ProxyServerClient whose number is not its own (why it may do  *)
(* so is in module ProxyServerClient; the rest of it in OnConnect).        *)
(*                                                                         *)
(* loop() keeps in thread_ids, a vector<pthread_t>, the number client_id   *)
(* of the socket and not the id pthread_create returned.  What             *)
(* pthread_kill makes of such a number is undefined; KillOutcomes are the  *)
(* outcomes considered.                                                    *)
(***************************************************************************)
EXTENDS Integers, Sequences, FiniteSets

CONSTANTS
  Fds,                 \* descriptors accept may return
  m_max_connections,   \* third argument of the constructor
  ThreadLimit,         \* threads the system lets the process keep
  KillOutcomes         \* of pthread_kill(client_id, 0): see AllOutcomes

\* "ESRCH": no such thread.  "alive": the number happens to name a thread.
\* "SEGV": the library follows it as a pointer (pthread_t of glibc).
AllOutcomes == {"ESRCH", "alive", "SEGV"}

ASSUME ServerAssumption ==
  /\ m_max_connections \in Nat
  /\ ThreadLimit \in Nat
  /\ KillOutcomes \subseteq AllOutcomes

VARIABLES
  mpc,           \* where the main thread is, or how the process ended
  m_db,
  m_listen_fd,
  thread_ids,
  i,             \* the index of the reaping loop
  client_id,     \* the local variable of loop()
  open,          \* the connection descriptors that are open
  running,       \* the threads that have not returned, and the number each serves
  started,       \* how many were started: none is joined or detached
  clean          \* history: no thread has closed a number that is not its own

vars == <<mpc, m_db, m_listen_fd, thread_ids, i, client_id, open, running, started,
          clean>>
connVars == <<thread_ids, i, client_id, open, running, started, clean>>

Thread == [fd : Fds, id : Nat]

NoFd == -1

Ended == {"exited", "SEGV", "NULL", "terminated"}

InLoop == mpc \in {"accept", "reap", "push"}

TypeOK ==
  /\ mpc \in {"connectSqlite", "setup", "accept", "reap", "push", "dtor", "return"} \cup Ended
  /\ m_db \in {"NULL", "open", "closed"}
  /\ m_listen_fd \in {"uninit", "invalid", "open", "closed"}
  /\ thread_ids \in Seq(Fds)
  /\ i \in Nat \ {0}
  /\ client_id \in Fds \cup {NoFd}
  /\ open \subseteq Fds
  /\ running \subseteq Thread
  /\ started \in Nat
  /\ clean \in BOOLEAN

Init ==
  /\ mpc = "connectSqlite"
  /\ m_db = "NULL"
  /\ m_listen_fd = "uninit"
  /\ thread_ids = << >>
  /\ i = 1
  /\ client_id = NoFd
  /\ open = {}
  /\ running = {}
  /\ started = 0
  /\ clean = TRUE

----------------------------------------------------------------------------
(* start(): an exception ends it, and main goes on to the destructor. *)

\* new Database and CREATE TABLE IF NOT EXISTS.
ConnectSqlite ==
  /\ mpc = "connectSqlite"
  /\ mpc' = "setup"
  /\ m_db' = "open"
  /\ UNCHANGED <<m_listen_fd, connVars>>

\* The constructor of Database throws before m_db is assigned.
OpenFails ==
  /\ mpc = "connectSqlite"
  /\ mpc' = "dtor"
  /\ UNCHANGED <<m_db, m_listen_fd, connVars>>

CreateTableFails ==
  /\ mpc = "connectSqlite"
  /\ mpc' = "dtor"
  /\ m_db' = "open"
  /\ UNCHANGED <<m_listen_fd, connVars>>

\* createSocket bound one of the addresses, and listen succeeded.
Setup ==
  /\ mpc = "setup"
  /\ mpc' = "accept"
  /\ m_listen_fd' = "open"
  /\ UNCHANGED <<m_db, connVars>>

\* createSocket returned -1 or -2, or listen failed on its socket.
SetupFails ==
  /\ mpc = "setup"
  /\ mpc' = "dtor"
  /\ m_listen_fd' \in {"invalid", "open"}
  /\ UNCHANGED <<m_db, connVars>>

----------------------------------------------------------------------------
(* loop() *)

\* Mutant: the result of accept is not compared with -1.
AcceptUnchecked(f) ==
  /\ mpc = "accept"
  /\ mpc' = "reap"
  /\ client_id' = NoFd
  /\ open' = open \cup {NoFd}
  /\ i' = 1
  /\ UNCHANGED <<m_db, m_listen_fd, thread_ids, running, started, clean>>

\* accept and setsockopt.  (A failed accept changes nothing: a stutter.)
Accept(f) ==
  /\ mpc = "accept"
  /\ m_listen_fd = "open"
  /\ f \notin open
  /\ mpc' = "reap"
  /\ client_id' = f
  /\ open' = open \cup {f}
  /\ i' = 1
  /\ UNCHANGED <<m_db, m_listen_fd, thread_ids, running, started, clean>>

\* setsockopt failed: the exception leaves the connection open.
SetsockoptFails(f) ==
  /\ mpc = "accept"
  /\ m_listen_fd = "open"
  /\ f \notin open
  /\ mpc' = "dtor"
  /\ client_id' = f
  /\ open' = open \cup {f}
  /\ UNCHANGED <<m_db, m_listen_fd, thread_ids, i, running, started, clean>>

Reaping == mpc = "reap" /\ i <= Len(thread_ids)

\* Mutant: the scan stops before the last entry.
ReapedEarly == mpc = "reap" /\ i >= Len(thread_ids)

Reaped == mpc = "reap" /\ i > Len(thread_ids)

Erase(s, n) == SubSeq(s, 1, n - 1) \o SubSeq(s, n + 1, Len(s))

\* Mutant: nothing is erased and the scan starts again.
ReapDeadForgets ==
  /\ "ESRCH" \in KillOutcomes
  /\ Reaping
  /\ i' = 1
  /\ UNCHANGED <<mpc, m_db, m_listen_fd, thread_ids, client_id, open, running, started,
                 clean>>

\* pthread_kill said "dead": erase the entry and look at the same index again.
ReapDead ==
  /\ "ESRCH" \in KillOutcomes
  /\ Reaping
  /\ thread_ids' = Erase(thread_ids, i)
  /\ UNCHANGED <<mpc, m_db, m_listen_fd, i, client_id, open, running, started,
                 clean>>

ReapAlive ==
  /\ "alive" \in KillOutcomes
  /\ Reaping
  /\ i' = i + 1
  /\ UNCHANGED <<mpc, m_db, m_listen_fd, thread_ids, client_id, open, running, started,
                 clean>>

ReapCrash ==
  /\ "SEGV" \in KillOutcomes
  /\ Reaping
  /\ mpc' = "SEGV"
  /\ UNCHANGED <<m_db, m_listen_fd, connVars>>

\* Mutant: one too many.
AtLimitLate == Len(thread_ids) = m_max_connections + 1

AtLimit == Len(thread_ids) = m_max_connections

\* Mutant: the dropped connection is not closed.
DropLeaks ==
  /\ Reaped
  /\ AtLimit
  /\ mpc' = "accept"
  /\ UNCHANGED <<m_db, m_listen_fd, thread_ids, i, client_id, open, running, started,
                 clean>>

Drop ==
  /\ Reaped
  /\ AtLimit
  /\ open' = open \ {client_id}
  /\ mpc' = "accept"
  /\ UNCHANGED <<m_db, m_listen_fd, thread_ids, i, client_id, running, started, clean>>

\* A thread that returned keeps its place until it is joined, and none is.
CanCreate == started < ThreadLimit

Spawn ==
  /\ Reaped
  /\ ~AtLimit
  /\ CanCreate
  /\ running' = running \cup {[fd |-> client_id, id |-> started]}
  /\ started' = started + 1
  /\ mpc' = "push"
  /\ UNCHANGED <<m_db, m_listen_fd, thread_ids, i, client_id, open, clean>>

SpawnFails ==
  /\ Reaped
  /\ ~AtLimit
  /\ ~CanCreate
  /\ open' = open \ {client_id}
  /\ mpc' = "dtor"
  /\ UNCHANGED <<m_db, m_listen_fd, thread_ids, i, client_id, running, started, clean>>

\* The new thread may be through before its entry is pushed.
Push ==
  /\ mpc = "push"
  /\ thread_ids' = Append(thread_ids, client_id)
  /\ mpc' = "accept"
  /\ UNCHANGED <<m_db, m_listen_fd, i, client_id, open, running, started, clean>>

----------------------------------------------------------------------------
(* The end, and the connection threads. *)

\* ~ProxyServer closes the socket and calls m_db->close(), also on NULL.
Destruct ==
  /\ mpc = "dtor"
  /\ m_listen_fd' = "closed"
  /\ \/ m_db # "NULL" /\ m_db' = "closed" /\ mpc' = "return"
     \/ m_db = "NULL" /\ mpc' = "NULL" /\ UNCHANGED m_db
  /\ UNCHANGED connVars

\* main returns: exit() ends the threads that still run.
Return ==
  /\ mpc = "return"
  /\ mpc' = "exited"
  /\ UNCHANGED <<m_db, m_listen_fd, connVars>>

\* delete client: the destructor closes m_remote_fd, which may be the number of
\* a connection by then, or that of the listening socket.
StrayClose(r) ==
  /\ mpc \notin Ended
  /\ r \in running
  /\ \/ \E f \in open : open' = open \ {f} /\ UNCHANGED m_listen_fd
     \/ m_listen_fd = "open" /\ m_listen_fd' = "closed" /\ UNCHANGED open
  /\ clean' = FALSE
  /\ UNCHANGED <<mpc, m_db, thread_ids, i, client_id, running, started>>

\* onConnect closes its number, whoever has it now, and returns.
ThreadReturns(r) ==
  /\ mpc \notin Ended
  /\ r \in running
  /\ running' = running \ {r}
  /\ open' = open \ {r.fd}
  /\ UNCHANGED <<mpc, m_db, m_listen_fd, thread_ids, i, client_id, started, clean>>

\* An exception leaves onConnect: std::terminate.
ThreadThrows(r) ==
  /\ mpc \notin Ended
  /\ r \in running
  /\ mpc' = "terminated"
  /\ UNCHANGED <<m_db, m_listen_fd, connVars>>

start == ConnectSqlite \/ OpenFails \/ CreateTableFails \/ Setup \/ SetupFails

loop ==
  \/ ReapDead \/ ReapAlive \/ ReapCrash
  \/ Drop \/ Spawn \/ SpawnFails \/ Push

Next ==
  \/ start
  \/ \E f \in Fds : Accept(f) \/ SetsockoptFails(f)
  \/ loop
  \/ Destruct
  \/ Return
  \/ \E r \in running : StrayClose(r) \/ ThreadReturns(r) \/ ThreadThrows(r)

Spec == Init /\ [][Next]_vars

\* The main thread is scheduled; nobody has to connect.
FairSpec == Spec /\ WF_vars(start \/ loop \/ Destruct \/ Return)

----------------------------------------------------------------------------
\* The limit is tested with ==, so it only works while the list never outgrows
\* it: whatever pthread_kill answers, thread_ids has at most m_max_connections
\* entries.
IdsWithinMax == Len(thread_ids) <= m_max_connections

\* After a scan the list holds only what pthread_kill called alive in that scan
\* (i - 1 entries), and then the connection just started: so when it finds no
\* thread under any socket number there is never more than one entry, however
\* many connections are being served.
OnlyAnswered ==
  /\ mpc = "push" => Len(thread_ids) < i
  /\ mpc = "accept" => Len(thread_ids) <= i

Served == {r.fd : r \in running}
Held == IF mpc = "reap" THEN {client_id} ELSE {}

\* While the loop runs, no path leaks a connection: what is open is served by a
\* running thread or held by the main thread, even when threads close numbers that
\* are not theirs, so that a number is given out again and two threads serve it.
\* Until a thread does that, no path of loop() and no return of a thread closes a
\* connection that another thread still serves.
NoFdLeak ==
  InLoop =>
    /\ open \subseteq Served \cup Held
    /\ clean => Served \cup Held \subseteq open

\* The main thread is never stuck in one round of loop(), nor on its way out.
AcceptsAgain ==
  mpc \in {"reap", "push", "dtor", "return"} ~> mpc = "accept" \/ mpc \in Ended

----------------------------------------------------------------------------
(* What the README and the comments promise. *)

\* "drop the connection if we are already handling the maximum number".
AtMostMaxConnections == Cardinality(running) <= m_max_connections

\* Threads are detached: pthread_create fails only when that many connections
\* are being served.
CreateFailsOnlyWhenBusy ==
  [][SpawnFails => Cardinality(running) = ThreadLimit]_vars
=============================================================================
