------------------------- MODULE ProxyServerProofs -------------------------
(***************************************************************************)
(* Proofs about ProxyServer for any number of descriptors, any limit and   *)
(* any answer of pthread_kill.                                             *)
(***************************************************************************)
EXTENDS ProxyServer, FiniteSetTheorems, TLAPS

\* vector::erase of one element keeps the type and removes exactly one entry.
LEMMA EraseFacts ==
  ASSUME NEW S, NEW s \in Seq(S), NEW n \in 1..Len(s)
  PROVE  /\ Erase(s, n) \in Seq(S)
         /\ Len(Erase(s, n)) = Len(s) - 1
<1> DEFINE a == SubSeq(s, 1, n - 1)
           b == SubSeq(s, n + 1, Len(s))
<1>1. a \in Seq(S) /\ Len(a) = n - 1
  OBVIOUS
<1>2. b \in Seq(S) /\ Len(b) = Len(s) - n
  OBVIOUS
<1> HIDE DEF a, b
<1>3. a \o b \in Seq(S) /\ Len(a \o b) = Len(a) + Len(b)
  BY <1>1, <1>2
<1>4. Erase(s, n) = a \o b
  BY DEF Erase, a, b
<1>5. Len(s) \in Nat /\ n \in Int
  OBVIOUS
<1>6. Len(a \o b) = Len(s) - 1
  BY <1>1, <1>2, <1>5
<1> QED
  BY <1>3, <1>4, <1>6, Zenon

\* In loop() the main thread holds a connection.
HeldConnection == mpc \in {"reap", "push"} => client_id \in Fds

\* Until a thread closes another's number, every thread has one of its own, and
\* nobody serves the connection that the main thread holds.
OwnNumbers ==
  clean => /\ \A r, s \in running : r.fd = s.fd => r = s
           /\ mpc = "reap" => \A r \in running : r.fd # client_id

\* Before loop() nothing is connected.
NoneBeforeLoop ==
  mpc \in {"connectSqlite", "setup"} => open = {} /\ running = {} /\ thread_ids = << >>

\* An entry is pushed only after the limit was tested.
RoomToPush == mpc = "push" => Len(thread_ids) < m_max_connections

\* Without "alive" the index never moves, so a finished reaping leaves nothing.
ReapedAll ==
  "alive" \notin KillOutcomes =>
    /\ i = 1
    /\ Len(thread_ids) <= 1
    /\ mpc = "push" => Len(thread_ids) = 0

\* The inductive invariant.
IInv ==
  /\ TypeOK
  /\ HeldConnection
  /\ OwnNumbers
  /\ NoneBeforeLoop
  /\ NoFdLeak
  /\ RoomToPush
  /\ IdsWithinMax
  /\ OnlyAnswered
  /\ ReapedAll

\* The initial state satisfies the inductive invariant.
LEMMA InitIInv == Init => IInv
  BY ServerAssumption
  DEF Init, IInv, TypeOK, HeldConnection, OwnNumbers, NoneBeforeLoop,
      NoFdLeak, Served, Held, InLoop,
      RoomToPush, IdsWithinMax, OnlyAnswered, ReapedAll, NoFd, Ended

\* start() and the way out do not touch the connections.
LEMMA StartPreserves ==
  ASSUME IInv, start \/ Destruct \/ Return
  PROVE  IInv'
  BY DEF start, ConnectSqlite, OpenFails, CreateTableFails, Setup, SetupFails,
         Destruct, Return, connVars, IInv, TypeOK, HeldConnection, OwnNumbers,
         NoneBeforeLoop, NoFdLeak, Served, Held, InLoop, RoomToPush, IdsWithinMax,
         OnlyAnswered, ReapedAll, Ended

\* A new connection gets a descriptor that nobody uses.
LEMMA AcceptPreserves ==
  ASSUME IInv, NEW f \in Fds, Accept(f) \/ SetsockoptFails(f)
  PROVE  IInv'
  BY DEF Accept, SetsockoptFails, IInv, TypeOK, HeldConnection, OwnNumbers,
         NoneBeforeLoop, NoFdLeak, Served, Held, InLoop, RoomToPush, IdsWithinMax,
         OnlyAnswered, ReapedAll, Ended

\* The reaping loop only shortens thread_ids.
LEMMA ReapPreserves ==
  ASSUME IInv, ReapDead \/ ReapAlive \/ ReapCrash
  PROVE  IInv'
<1>1. i \in 1..Len(thread_ids)
  BY DEF ReapDead, ReapAlive, ReapCrash, Reaping, IInv, TypeOK
<1>2. CASE ReapDead
  <2>1. thread_ids' \in Seq(Fds) /\ Len(thread_ids') = Len(thread_ids) - 1
    BY <1>1, <1>2, EraseFacts DEF ReapDead, IInv, TypeOK
  <2>2. Len(thread_ids) \in Nat
    BY DEF IInv, TypeOK
  <2>3. NoFdLeak' /\ OwnNumbers'
    BY <1>2 DEF ReapDead, IInv, NoFdLeak, OwnNumbers, Served, Held, InLoop
  <2>4. TypeOK' /\ HeldConnection' /\ NoneBeforeLoop'
    BY <1>2, <2>1 DEF ReapDead, Reaping, IInv, TypeOK, HeldConnection, NoneBeforeLoop
  <2>5. RoomToPush' /\ IdsWithinMax' /\ OnlyAnswered' /\ ReapedAll'
    BY <1>2, <2>1, <2>2, ServerAssumption
    DEF ReapDead, Reaping, IInv, TypeOK, RoomToPush, IdsWithinMax, OnlyAnswered, ReapedAll
  <2> QED
    BY <2>3, <2>4, <2>5 DEF IInv
<1>3. CASE ReapAlive \/ ReapCrash
  BY <1>3
  DEF ReapAlive, ReapCrash, Reaping, connVars, IInv, TypeOK, HeldConnection, OwnNumbers,
      NoneBeforeLoop, NoFdLeak, Served, Held, InLoop, RoomToPush, IdsWithinMax,
      OnlyAnswered, ReapedAll, Ended
<1> QED
  BY <1>2, <1>3

\* Dropping, starting a thread and recording it.
LEMMA SpawnPreserves ==
  ASSUME IInv, Drop \/ Spawn \/ SpawnFails \/ Push
  PROVE  IInv'
<1> USE ServerAssumption
    DEF IInv, TypeOK, HeldConnection, OwnNumbers, NoneBeforeLoop,
        NoFdLeak, Served, Held, InLoop,
        RoomToPush, IdsWithinMax, OnlyAnswered, ReapedAll, Ended
<1>1. Len(thread_ids) \in Nat
  OBVIOUS
<1>2. CASE Drop \/ SpawnFails
  BY <1>1, <1>2 DEF Drop, SpawnFails, Reaped
<1>3. CASE Spawn
  <2> DEFINE r == [fd |-> client_id, id |-> started]
  <2>1. /\ running' = running \cup {r} /\ r \in Thread /\ r.fd = client_id
        /\ mpc = "reap" /\ mpc' = "push"
        /\ UNCHANGED <<client_id, open, clean>>
    BY <1>3 DEF Spawn, Reaped, Thread
  <2> HIDE DEF r
  <2>2. NoFdLeak'
    BY <2>1
  <2>3. OwnNumbers'
    BY <2>1
  <2> QED
    BY <1>1, <1>3, <2>1, <2>2, <2>3 DEF Spawn, Reaped, AtLimit
<1>4. CASE Push
  BY <1>1, <1>4 DEF Push
<1> QED
  BY <1>2, <1>3, <1>4

\* A thread closes its number, or another one.
LEMMA ThreadPreserves ==
  ASSUME IInv, NEW r \in running, StrayClose(r) \/ ThreadReturns(r) \/ ThreadThrows(r)
  PROVE  IInv'
<1> USE DEF IInv, TypeOK, HeldConnection, OwnNumbers, NoneBeforeLoop, InLoop,
            RoomToPush, IdsWithinMax, OnlyAnswered, ReapedAll, Ended, Thread
<1>1. CASE StrayClose(r)
  BY <1>1 DEF StrayClose, NoFdLeak, Served, Held
<1>2. CASE ThreadReturns(r)
  <2>1. /\ running' = running \ {r} /\ open' = open \ {r.fd}
        /\ UNCHANGED <<mpc, m_db, m_listen_fd, thread_ids, i, client_id, started, clean>>
        /\ mpc \notin Ended
    BY <1>2 DEF ThreadReturns
  <2>2. Held' = Held
    BY <2>1 DEF Held
  <2>3. Served \subseteq Served' \cup {r.fd}
    BY <2>1 DEF Served
  <2>4. open' \subseteq Served' \cup Held' \/ ~InLoop
    BY <2>1, <2>2, <2>3 DEF NoFdLeak
  <2>5. InLoop /\ clean => Served' \cup Held' \subseteq open'
    BY <2>1, <2>2 DEF NoFdLeak, Served, Held
  <2>6. NoFdLeak'
    BY <2>1, <2>4, <2>5 DEF NoFdLeak
  <2> QED
    BY <2>1, <2>6
<1>3. CASE ThreadThrows(r)
  BY <1>3 DEF ThreadThrows, connVars, NoFdLeak, Served, Held
<1> QED
  BY <1>1, <1>2, <1>3

\* Every reachable state satisfies the inductive invariant.
LEMMA Invariance == Spec => []IInv
<1>1. IInv /\ [Next]_vars => IInv'
  <2> SUFFICES ASSUME IInv, [Next]_vars PROVE IInv'
    OBVIOUS
  <2>1. CASE UNCHANGED vars
    BY <2>1
    DEF vars, IInv, TypeOK, HeldConnection, OwnNumbers, NoneBeforeLoop,
        NoFdLeak, Served, Held, InLoop,
        RoomToPush, IdsWithinMax, OnlyAnswered, ReapedAll
  <2>2. CASE Next
    BY <2>2, StartPreserves, AcceptPreserves, ReapPreserves, SpawnPreserves,
       ThreadPreserves DEF Next, loop
  <2> QED
    BY <2>1, <2>2
<1> QED
  BY <1>1, InitIInv, PTL DEF Spec

\* The variables of ProxyServer keep their types, whatever fails in start()
\* or loop().
THEOREM TypeCorrect == Spec => []TypeOK
  BY Invariance, PTL DEF IInv

\* The == test of loop() is never overshot: thread_ids never has more than
\* m_max_connections entries, whatever pthread_kill answers.
THEOREM ListBounded == Spec => []IdsWithinMax
  BY Invariance, PTL DEF IInv

\* After every scan thread_ids holds only what pthread_kill called alive in that
\* scan, and then the connection just started.
THEOREM ListAnswered == Spec => []OnlyAnswered
  BY Invariance, PTL DEF IInv

\* When pthread_kill never mistakes a socket number for a thread, thread_ids
\* holds one entry at most: loop() forgets the threads it started.
THEOREM ListForgets == Spec => []("alive" \notin KillOutcomes => Len(thread_ids) <= 1)
<1>1. IInv => ("alive" \notin KillOutcomes => Len(thread_ids) <= 1)
  BY DEF IInv, ReapedAll
<1> QED
  BY <1>1, Invariance, PTL

\* What is open is served by a running thread or held by the main thread, also
\* when threads close numbers that are not theirs; until one does, no path of
\* loop() and no return of a thread closes a connection another thread serves.
THEOREM DescriptorsAccounted == Spec => []NoFdLeak
  BY Invariance, PTL DEF IInv

----------------------------------------------------------------------------
(* How many threads the server ever starts. *)

\* If no entry is ever erased, every thread started has its entry in
\* thread_ids, but for the one that is about to be pushed.
AllListed ==
  "ESRCH" \notin KillOutcomes =>
    /\ started <= m_max_connections
    /\ mpc \notin {"push", "terminated"} => started <= Len(thread_ids)
    /\ mpc = "push" => started <= Len(thread_ids) + 1

\* The inductive invariant about the threads.
StartedInv ==
  /\ IsFiniteSet(running)
  /\ Cardinality(running) <= started
  /\ AllListed

\* Spawn starts a thread, and no other step changes how many were started; the
\* running ones are among them.
LEMMA StartedMoves ==
  ASSUME IInv, IsFiniteSet(running), Cardinality(running) <= started, Next
  PROVE  /\ IsFiniteSet(running')
         /\ Cardinality(running') <= started'
         /\ Spawn => started' = started + 1
         /\ ~Spawn => started' = started
<1>1. Cardinality(running) \in Nat /\ started \in Nat
  BY FS_CardinalityType DEF IInv, TypeOK
<1>2. CASE running' = running /\ started' = started /\ ~Spawn
  BY <1>1, <1>2
<1>3. CASE Spawn
  <2> DEFINE r == [fd |-> client_id, id |-> started]
  <2>1. running' = running \cup {r} /\ started' = started + 1
    BY <1>3 DEF Spawn
  <2> HIDE DEF r
  <2>2. /\ IsFiniteSet(running')
        /\ \/ Cardinality(running') = Cardinality(running)
           \/ Cardinality(running') = Cardinality(running) + 1
    BY <2>1, FS_AddElement
  <2> QED
    BY <1>1, <1>3, <2>1, <2>2
<1>4. ASSUME NEW r \in running, ThreadReturns(r)
      PROVE  /\ IsFiniteSet(running')
             /\ Cardinality(running') <= started'
             /\ started' = started
             /\ ~Spawn
  <2>1. running' = running \ {r} /\ started' = started
    BY <1>4 DEF ThreadReturns
  <2>2. IsFiniteSet(running') /\ Cardinality(running') = Cardinality(running) - 1
    BY <2>1, FS_RemoveElement
  <2>3. ~Spawn
    BY <1>1, <2>1 DEF Spawn
  <2> QED
    BY <1>1, <2>1, <2>2, <2>3
<1>5. \/ Spawn
      \/ \E r \in running : ThreadReturns(r)
      \/ running' = running /\ started' = started
  BY DEF Next, start, ConnectSqlite, OpenFails, CreateTableFails, Setup, SetupFails,
         Accept, SetsockoptFails, loop, ReapDead, ReapAlive, ReapCrash, Drop,
         SpawnFails, Push, Destruct, Return, ThreadThrows, StrayClose, connVars
<1> QED
  BY <1>1, <1>2, <1>3, <1>4, <1>5

\* Without "ESRCH" no entry leaves thread_ids: the list only grows, by Push.
LEMMA ListGrows ==
  ASSUME IInv, Next, "ESRCH" \notin KillOutcomes
  PROVE  /\ Len(thread_ids) \in Nat
         /\ \/ thread_ids' = thread_ids
            \/ mpc = "push" /\ mpc' = "accept" /\ Len(thread_ids') = Len(thread_ids) + 1
         /\ mpc = "push" => \/ mpc' = "push"
                            \/ mpc' = "terminated"
                            \/ Len(thread_ids') = Len(thread_ids) + 1
         /\ mpc' = "push" /\ mpc # "push" => Spawn
         /\ mpc = "terminated" => mpc' = "terminated"
         /\ Spawn => /\ mpc = "reap" /\ mpc' = "push" /\ thread_ids' = thread_ids
                     /\ Len(thread_ids) < m_max_connections
<1>1. Len(thread_ids) \in Nat
  BY DEF IInv, TypeOK
<1>2. CASE Push
  BY <1>1, <1>2 DEF Push, Spawn, Reaped, IInv, TypeOK, HeldConnection
<1>3. CASE Spawn
  BY <1>1, <1>3, ServerAssumption DEF Spawn, Reaped, AtLimit, IInv, IdsWithinMax
<1>4. CASE start \/ Destruct \/ Return
  BY <1>1, <1>4
  DEF start, ConnectSqlite, OpenFails, CreateTableFails, Setup, SetupFails,
      Destruct, Return, connVars, Spawn, Reaped
<1>5. CASE \E f \in Fds : Accept(f) \/ SetsockoptFails(f)
  BY <1>1, <1>5 DEF Accept, SetsockoptFails, Spawn, Reaped
<1>6. CASE ReapAlive \/ ReapCrash
  BY <1>1, <1>6 DEF ReapAlive, ReapCrash, Reaping, connVars, Spawn, Reaped
<1>7. CASE (Drop \/ SpawnFails) /\ ~Spawn
  BY <1>1, <1>7 DEF Drop, SpawnFails, Reaped
<1>8. CASE \E r \in running : StrayClose(r) \/ ThreadReturns(r) \/ ThreadThrows(r)
  BY <1>1, <1>8 DEF StrayClose, ThreadReturns, ThreadThrows, connVars, Spawn, Reaped, Ended
<1>9. ~ReapDead
  BY DEF ReapDead
<1> QED
  BY <1>2, <1>3, <1>4, <1>5, <1>6, <1>7, <1>8, <1>9 DEF Next, loop

\* Every reachable state satisfies the invariant about the threads.
LEMMA StartedInvariance == Spec => []StartedInv
<1>1. Init => StartedInv
  BY FS_EmptySet, ServerAssumption DEF Init, StartedInv, AllListed
<1>2. IInv /\ StartedInv /\ [Next]_vars => StartedInv'
  <2> SUFFICES ASSUME IInv, StartedInv, [Next]_vars PROVE StartedInv'
    OBVIOUS
  <2>1. CASE UNCHANGED vars
    BY <2>1 DEF vars, StartedInv, AllListed
  <2>2. CASE Next
    <3>1. /\ IsFiniteSet(running')
          /\ Cardinality(running') <= started'
          /\ started \in Nat
          /\ Spawn => started' = started + 1
          /\ ~Spawn => started' = started
      BY <2>2, StartedMoves DEF StartedInv, IInv, TypeOK
    <3>2. ASSUME "ESRCH" \notin KillOutcomes
          PROVE  /\ started' <= m_max_connections
                 /\ mpc' \notin {"push", "terminated"} => started' <= Len(thread_ids')
                 /\ mpc' = "push" => started' <= Len(thread_ids') + 1
      BY <2>2, <3>1, <3>2, ListGrows, ServerAssumption DEF StartedInv, AllListed
    <3> QED
      BY <3>1, <3>2 DEF StartedInv, AllListed
  <2> QED
    BY <2>1, <2>2
<1> QED
  BY <1>1, <1>2, Invariance, PTL DEF Spec

\* When pthread_kill never says "dead" the promised limit holds: at most
\* m_max_connections connections are served at a time.
THEOREM LimitHeldIfNeverDead ==
  ASSUME "ESRCH" \notin KillOutcomes
  PROVE  Spec => []AtMostMaxConnections
<1>1. IInv /\ StartedInv => AtMostMaxConnections
  <2> SUFFICES ASSUME IInv, StartedInv PROVE AtMostMaxConnections
    OBVIOUS
  <2>1. Cardinality(running) \in Nat /\ started \in Nat
    BY FS_CardinalityType DEF IInv, TypeOK, StartedInv
  <2> QED
    BY <2>1, ServerAssumption DEF StartedInv, AllListed, AtMostMaxConnections
<1> QED
  BY <1>1, Invariance, StartedInvariance, PTL

\* But then the server is used up: it never starts more than m_max_connections
\* threads, because no entry of a finished one leaves thread_ids.
LifetimeWithinMax == started <= m_max_connections

\* The price of the limit: without "dead" answers the server serves at most
\* m_max_connections connections in its whole life.
THEOREM UsedUpIfNeverDead ==
  ASSUME "ESRCH" \notin KillOutcomes
  PROVE  Spec => []LifetimeWithinMax
<1>1. StartedInv => LifetimeWithinMax
  BY DEF StartedInv, AllListed, LifetimeWithinMax
<1> QED
  BY <1>1, StartedInvariance, PTL
=============================================================================
