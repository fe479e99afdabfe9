---------------------- MODULE ProxyServerClientProofs ----------------------
(***************************************************************************)
(* Proofs about ProxyServerClient for any number of threads, any size of   *)
(* the descriptor table and any content of uninitialised memory.           *)
(***************************************************************************)
EXTENDS ProxyServerClient, TLAPS

\* A table entry tells what it is, and whose.
LEMMA EntriesDiffer ==
  ASSUME NEW t, NEW u
  PROVE  /\ Conn(t) # Free /\ Origin(t) # Free /\ Forgotten(t) # Free
         /\ Conn(t) # Listen /\ Origin(t) # Listen /\ Forgotten(t) # Listen
         /\ Conn(t) # Origin(u) /\ Conn(t) # Forgotten(u) /\ Origin(t) # Forgotten(u)
         /\ Conn(t) = Conn(u) => t = u
         /\ Origin(t) = Origin(u) => t = u
         /\ Forgotten(t) = Forgotten(u) => t = u
         /\ Free # Listen
<1>1. Conn(t).kind = "conn" /\ Origin(t).kind = "origin" /\ Forgotten(t).kind = "forgotten"
  BY DEF Conn, Origin, Forgotten
<1>2. Origin(u).kind = "origin" /\ Forgotten(u).kind = "forgotten"
  BY DEF Origin, Forgotten
<1>3. Free.kind = "free" /\ Listen.kind = "listen"
  BY DEF Free, Listen
<1>4. /\ Conn(t).by = t /\ Origin(t).by = t /\ Forgotten(t).by = t
      /\ Conn(u).by = u /\ Origin(u).by = u /\ Forgotten(u).by = u
  BY DEF Conn, Origin, Forgotten
<1> QED
  BY <1>1, <1>2, <1>3, <1>4

\* The kinds of entries are entries.
LEMMA EntriesType ==
  ASSUME NEW t \in Threads
  PROVE  /\ Free \in Entries /\ Listen \in Entries
         /\ Conn(t) \in Entries /\ Origin(t) \in Entries /\ Forgotten(t) \in Entries
  BY DEF Entries, Free, Listen, Conn, Origin, Forgotten

\* close keeps the type of the table.
LEMMA ClosedType ==
  ASSUME TypeOK, NEW f
  PROVE  /\ Closed(f) \in [Fds -> Entries]
         /\ \A g \in Fds : Closed(f)[g] = IF g = f THEN Free ELSE table[g]
  BY DEF Closed, TypeOK, Entries

\* The steps of one thread that end in catch (ProxyServerException&).
Catches(t) == ReadFails(t) \/ AnswerFails(t) \/ CloseAgain(t) \/ RecvFails(t)

\* All the steps of one thread.
Steps(t) ==
  \/ \E f \in Fds : Accept(t, f)
  \/ NoOrigin(t)
  \/ \E port \in Ports, f \in Fds : OpenSocket(t, port, f)
  \/ \E port \in Ports : OpenFails(t, port)
  \/ LookupFails(t)
  \/ ConnectOk(t)
  \/ ConnectFails(t)
  \/ Send(t)
  \/ SendFails(t)
  \/ Recv(t)
  \/ RecvTimeout(t)
  \/ Answer(t)
  \/ AnswerErrorFails(t)
  \/ Close(t)
  \/ Catches(t)

\* A step of the system is a step of one thread.
LEMMA NextSteps == Next => \E t \in Threads : Steps(t)
  BY DEF Next, Steps, Catches

----------------------------------------------------------------------------
(* Type correctness. *)

\* The initial state has the type.
LEMMA InitType == Init => TypeOK
  BY ProxyServerClientAssumption, EntriesType DEF Init, TypeOK, Numbers, Entries

\* The handler, with its delete of any pointer, keeps the type.
LEMMA CatchType ==
  ASSUME TypeOK, NEW t \in Threads, Catches(t)
  PROVE  TypeOK'
<1>1. PICK from \in {"loop", "answer", "throw", "recv"} : Catch(t, from)
  BY DEF Catches, ReadFails, AnswerFails, CloseAgain, RecvFails
<1>2. \A f : Closed(f) \in [Fds -> Entries]
  BY ClosedType
<1>3. NoFd \in Numbers
  BY DEF Numbers
<1>4. CASE Goto(t, from, "close") /\ DeleteClient(t) /\ UNCHANGED <<client_id, clean>>
  BY <1>2, <1>3, <1>4 DEF Goto, DeleteClient, TypeOK
<1>5. CASE /\ Goto(t, from, "close")
           /\ \E f \in Garbage : table' = Closed(f)
           /\ clean' = FALSE
           /\ UNCHANGED <<client_id, client, m_remote_fd>>
  <2>1. table' \in [Fds -> Entries]
    BY <1>2, <1>5
  <2> QED
    BY <1>5, <2>1 DEF Goto, TypeOK
<1>6. CASE proc' = "abort" /\ UNCHANGED <<table, tpc, client_id, client, m_remote_fd, clean>>
  BY <1>6 DEF TypeOK
<1> QED
  BY <1>1, <1>4, <1>5, <1>6 DEF Catch

\* Every step of a thread keeps the type.
LEMMA StepType ==
  ASSUME TypeOK, NEW t \in Threads, Steps(t)
  PROVE  TypeOK'
<1>1. \A f : Closed(f) \in [Fds -> Entries]
  BY ClosedType
<1>2. NoFd \in Numbers /\ Fds \subseteq Numbers /\ Garbage \subseteq Numbers
  BY ProxyServerClientAssumption DEF Numbers
<1>3. ASSUME NEW f \in Fds, Accept(t, f) PROVE TypeOK'
  <2>1. table' \in [Fds -> Entries]
    BY <1>3, EntriesType DEF Accept, TypeOK
  <2>2. client_id' \in [Threads -> Numbers] /\ m_remote_fd' \in [Threads -> Numbers]
    BY <1>2, <1>3 DEF Accept, TypeOK
  <2> QED
    BY <1>3, <2>1, <2>2 DEF Accept, Goto, TypeOK
<1>4. CASE NoOrigin(t) \/ ConnectOk(t) \/ Send(t) \/ Answer(t) \/ AnswerErrorFails(t)
  BY <1>4 DEF NoOrigin, ConnectOk, Send, Answer, AnswerErrorFails, Goto, TypeOK
<1>5. ASSUME NEW port \in Ports, NEW f \in Fds, OpenSocket(t, port, f) PROVE TypeOK'
  BY <1>2, <1>5, EntriesType DEF OpenSocket, Goto, TypeOK
<1>6. ASSUME NEW port \in Ports, OpenFails(t, port) PROVE TypeOK'
  BY <1>2, <1>6 DEF OpenFails, Goto, TypeOK
<1>7. CASE LookupFails(t)
  BY <1>2, <1>7 DEF LookupFails, Goto, TypeOK
<1>8. CASE ConnectFails(t) \/ SendFails(t)
  BY <1>1, <1>8 DEF ConnectFails, SendFails, Goto, TypeOK
<1>9. CASE Recv(t)
  BY <1>1, <1>2, <1>9 DEF Recv, DeleteClient, Goto, TypeOK
<1>10. CASE RecvTimeout(t)
  BY <1>10, EntriesType DEF RecvTimeout, Goto, TypeOK
<1>11. CASE Close(t)
  BY <1>1, <1>2, <1>11 DEF Close, Goto, TypeOK
<1>12. CASE Catches(t)
  BY <1>12, CatchType
<1> QED
  BY <1>3, <1>4, <1>5, <1>6, <1>7, <1>8, <1>9, <1>10, <1>11, <1>12 DEF Steps

\* The descriptor table and the threads keep their types, whatever memory that
\* nobody initialised holds and whatever is closed twice.
THEOREM TypeCorrect == Spec => []TypeOK
<1>1. TypeOK /\ [Next]_vars => TypeOK'
  <2>1. ASSUME TypeOK, UNCHANGED vars PROVE TypeOK'
    BY <2>1 DEF TypeOK, vars
  <2> QED
    BY <2>1, NextSteps, StepType
<1> QED
  BY InitType, <1>1, PTL DEF Spec

----------------------------------------------------------------------------
(* No descriptor is lost. *)

\* What Accounted says of one thread.
AccountedFor(t) ==
  \A f \in Fds :
    /\ table[f] = Conn(t) => client_id[t] = f /\ tpc[t] # "none"
    /\ table[f] = Origin(t) =>
         /\ m_remote_fd[t] = f /\ client[t] = "live"
         /\ tpc[t] \in {"connect", "send", "recv"}

\* Accounted is about one thread at a time.
LEMMA AccountedSplit == Accounted <=> \A t \in Threads : AccountedFor(t)
  BY DEF Accounted, AccountedFor

\* What is no thread's business: the other threads keep their places, and an
\* entry of theirs is only ever closed.
Leaves(t) ==
  \A u \in Threads \ {t} :
    /\ tpc'[u] = tpc[u] /\ client_id'[u] = client_id[u]
    /\ client'[u] = client[u] /\ m_remote_fd'[u] = m_remote_fd[u]
    /\ \A f \in Fds : /\ table'[f] = Conn(u) => table[f] = Conn(u)
                      /\ table'[f] = Origin(u) => table[f] = Origin(u)

\* The handler closes the origin socket of a live object, and no object that is
\* not live has one.
LEMMA CatchAccounted ==
  ASSUME TypeOK, Accounted, NEW t \in Threads, Catches(t)
  PROVE  Leaves(t) /\ AccountedFor(t)'
<1>1. PICK from \in {"loop", "answer", "throw", "recv"} : Catch(t, from)
  BY DEF Catches, ReadFails, AnswerFails, CloseAgain, RecvFails
<1>2. \A f : \A g \in Fds : Closed(f)[g] = IF g = f THEN Free ELSE table[g]
  BY ClosedType
<1>3. AccountedFor(t)
  BY AccountedSplit
<1>4. CASE /\ client[t] = "live"
           /\ Goto(t, from, "close") /\ DeleteClient(t) /\ UNCHANGED <<client_id, clean>>
  <2>1. Leaves(t)
    BY <1>2, <1>4, EntriesDiffer DEF Goto, DeleteClient, Leaves, TypeOK
  <2>2. AccountedFor(t)'
    BY <1>2, <1>3, <1>4, EntriesDiffer DEF Goto, DeleteClient, AccountedFor, TypeOK
  <2> QED
    BY <2>1, <2>2
<1>5. CASE /\ client[t] # "live"
           /\ Goto(t, from, "close")
           /\ \E f \in Garbage : table' = Closed(f)
           /\ clean' = FALSE
           /\ UNCHANGED <<client_id, client, m_remote_fd>>
  <2>1. PICK f \in Garbage : table' = Closed(f)
    BY <1>5
  <2>2. Leaves(t)
    BY <1>2, <1>5, <2>1, EntriesDiffer DEF Goto, Leaves, TypeOK
  <2>3. AccountedFor(t)'
    BY <1>2, <1>3, <1>5, <2>1, EntriesDiffer DEF Goto, AccountedFor, TypeOK
  <2> QED
    BY <2>2, <2>3
<1>6. CASE proc' = "abort" /\ UNCHANGED <<table, tpc, client_id, client, m_remote_fd, clean>>
  BY <1>3, <1>6 DEF Leaves, AccountedFor
<1> QED
  BY <1>1, <1>4, <1>5, <1>6 DEF Catch

\* A thread leaves a place where it holds a descriptor only by closing it, or
\* by forgetting it on the 408 path.
LEMMA StepAccounted ==
  ASSUME TypeOK, Accounted, NEW t \in Threads, Steps(t)
  PROVE  Leaves(t) /\ AccountedFor(t)'
<1>1. \A f : \A g \in Fds : Closed(f)[g] = IF g = f THEN Free ELSE table[g]
  BY ClosedType
<1>2. AccountedFor(t)
  BY AccountedSplit
<1>3. ASSUME NEW f \in Fds, Accept(t, f) PROVE Leaves(t) /\ AccountedFor(t)'
  <2>1. Leaves(t)
    BY <1>3, EntriesDiffer DEF Accept, Goto, Leaves, TypeOK
  <2>2. AccountedFor(t)'
    BY <1>2, <1>3, EntriesDiffer DEF Accept, Goto, AccountedFor, TypeOK
  <2> QED
    BY <2>1, <2>2
<1>4. CASE NoOrigin(t) \/ ConnectOk(t) \/ Send(t) \/ Answer(t) \/ AnswerErrorFails(t)
  <2>1. Leaves(t)
    BY <1>4 DEF NoOrigin, ConnectOk, Send, Answer, AnswerErrorFails, Goto, Leaves, TypeOK
  <2>2. AccountedFor(t)'
    BY <1>2, <1>4
    DEF NoOrigin, ConnectOk, Send, Answer, AnswerErrorFails, Goto, AccountedFor, TypeOK
  <2> QED
    BY <2>1, <2>2
<1>5. ASSUME NEW port \in Ports, NEW f \in Fds, OpenSocket(t, port, f)
      PROVE  Leaves(t) /\ AccountedFor(t)'
  <2>1. Leaves(t)
    BY <1>5, EntriesDiffer DEF OpenSocket, Goto, Leaves, TypeOK
  <2>2. AccountedFor(t)'
    BY <1>2, <1>5, EntriesDiffer DEF OpenSocket, Goto, AccountedFor, TypeOK
  <2> QED
    BY <2>1, <2>2
<1>6. ASSUME NEW port \in Ports, OpenFails(t, port) PROVE Leaves(t) /\ AccountedFor(t)'
  BY <1>2, <1>6 DEF OpenFails, Goto, Leaves, AccountedFor, TypeOK
<1>7. CASE LookupFails(t)
  BY <1>2, <1>7 DEF LookupFails, Goto, Leaves, AccountedFor, TypeOK
<1>8. CASE ConnectFails(t) \/ SendFails(t)
  <2>1. Leaves(t)
    BY <1>1, <1>8, EntriesDiffer DEF ConnectFails, SendFails, Goto, Leaves, TypeOK
  <2>2. AccountedFor(t)'
    BY <1>1, <1>2, <1>8, EntriesDiffer DEF ConnectFails, SendFails, Goto, AccountedFor, TypeOK
  <2> QED
    BY <2>1, <2>2
<1>9. CASE Recv(t)
  <2>1. Leaves(t)
    BY <1>1, <1>9, EntriesDiffer DEF Recv, DeleteClient, Goto, Leaves, TypeOK
  <2>2. AccountedFor(t)'
    BY <1>1, <1>2, <1>9, EntriesDiffer DEF Recv, DeleteClient, Goto, AccountedFor, TypeOK
  <2> QED
    BY <2>1, <2>2
<1>10. CASE RecvTimeout(t)
  <2>1. Leaves(t)
    BY <1>10, EntriesDiffer DEF RecvTimeout, Goto, Leaves, TypeOK
  <2>2. AccountedFor(t)'
    BY <1>2, <1>10, EntriesDiffer DEF RecvTimeout, Goto, AccountedFor, TypeOK
  <2> QED
    BY <2>1, <2>2
<1>11. CASE Close(t)
  <2>1. Leaves(t)
    BY <1>1, <1>11, EntriesDiffer DEF Close, Goto, Leaves, TypeOK
  <2>2. AccountedFor(t)'
    BY <1>1, <1>2, <1>11, EntriesDiffer DEF Close, Goto, AccountedFor, TypeOK
  <2> QED
    BY <2>1, <2>2
<1>12. CASE Catches(t)
  BY <1>12, CatchAccounted
<1> QED
  BY <1>3, <1>4, <1>5, <1>6, <1>7, <1>8, <1>9, <1>10, <1>11, <1>12 DEF Steps

\* Every open descriptor but the ones the 408 path forgets is held by a thread
\* that will close it, whatever fails and whatever is closed twice.
THEOREM DescriptorsHeld == Spec => []Accounted
<1>1. Init => Accounted
  BY EntriesDiffer DEF Init, Accounted
<1>2. TypeOK /\ Accounted /\ [Next]_vars => Accounted'
  <2> SUFFICES ASSUME TypeOK, Accounted, [Next]_vars PROVE Accounted'
    OBVIOUS
  <2>1. CASE UNCHANGED vars
    BY <2>1 DEF Accounted, vars
  <2>2. CASE Next
    <3>1. PICK t \in Threads : Steps(t)
      BY <2>2, NextSteps
    <3>2. Leaves(t) /\ AccountedFor(t)'
      BY <3>1, StepAccounted
    <3> QED
      BY <3>2 DEF Accounted, AccountedFor, Leaves
  <2> QED
    BY <2>1, <2>2
<1> QED
  BY <1>1, <1>2, TypeCorrect, PTL DEF Spec

----------------------------------------------------------------------------
(* The threads are independent until something fails. *)

\* What Isolated says of one thread, and what it leaves out: the pointer is live
\* while the object is used, no send has failed, and a live pointer outside a
\* fetch is one that the 408 path forgot.
Owns(t) ==
  /\ tpc[t] # "throw"
  /\ tpc[t] \in {"connect", "send", "recv"} =>
       /\ client[t] = "live"
       /\ m_remote_fd[t] \in Fds /\ table[m_remote_fd[t]] = Origin(t)
  /\ tpc[t] # "none" => client_id[t] \in Fds /\ table[client_id[t]] = Conn(t)
  /\ client[t] = "live" /\ tpc[t] \notin {"connect", "send", "recv"} =>
       m_remote_fd[t] \in Fds /\ table[m_remote_fd[t]] = Forgotten(t)

OwnsInv == clean => \A t \in Threads : Owns(t)

\* The other threads keep their places and their descriptors.
Spares(t) ==
  \A u \in Threads \ {t} :
    /\ tpc'[u] = tpc[u] /\ client_id'[u] = client_id[u]
    /\ client'[u] = client[u] /\ m_remote_fd'[u] = m_remote_fd[u]
    /\ \A f \in Fds : table[f] \in {Conn(u), Origin(u), Forgotten(u)} => table'[f] = table[f]

\* As long as nothing failed before, the handler closes a socket of its own.
LEMMA CatchOwns ==
  ASSUME TypeOK, NEW t \in Threads, Owns(t), Catches(t), clean'
  PROVE  Spares(t) /\ Owns(t)'
<1>1. PICK from \in {"loop", "answer", "throw", "recv"} : Catch(t, from)
  BY DEF Catches, ReadFails, AnswerFails, CloseAgain, RecvFails
<1>2. \A f : \A g \in Fds : Closed(f)[g] = IF g = f THEN Free ELSE table[g]
  BY ClosedType
<1>3. CASE /\ client[t] = "live"
           /\ Goto(t, from, "close") /\ DeleteClient(t) /\ UNCHANGED <<client_id, clean>>
  <2>1. m_remote_fd[t] \in Fds /\ table[m_remote_fd[t]] \in {Origin(t), Forgotten(t)}
    BY <1>3 DEF Goto, Owns
  <2>2. Spares(t)
    BY <1>2, <1>3, <2>1, EntriesDiffer DEF Goto, DeleteClient, Spares, TypeOK
  <2>3. Owns(t)'
    BY <1>2, <1>3, <2>1, EntriesDiffer DEF Goto, DeleteClient, Owns, TypeOK
  <2> QED
    BY <2>2, <2>3
<1>4. CASE proc' = "abort" /\ UNCHANGED <<table, tpc, client_id, client, m_remote_fd, clean>>
  BY <1>4 DEF Spares, Owns
<1>5. CASE clean' = FALSE
  BY <1>5
<1> QED
  BY <1>1, <1>3, <1>4, <1>5 DEF Catch

\* As long as nothing failed before, every step of a thread stays with its own
\* descriptors and leaves those of the others alone.
LEMMA StepOwns ==
  ASSUME TypeOK, NEW t \in Threads, Owns(t), Steps(t), clean'
  PROVE  Spares(t) /\ Owns(t)'
<1>1. \A f : \A g \in Fds : Closed(f)[g] = IF g = f THEN Free ELSE table[g]
  BY ClosedType
<1>2. ASSUME NEW f \in Fds, Accept(t, f) PROVE Spares(t) /\ Owns(t)'
  <2>1. table[f] = Free
    BY <1>2 DEF Accept, IsLowest, FreeFds
  <2>2. Spares(t)
    BY <1>2, <2>1, EntriesDiffer DEF Accept, Goto, Spares, TypeOK
  <2>3. Owns(t)'
    BY <1>2 DEF Accept, Goto, Owns, TypeOK
  <2> QED
    BY <2>2, <2>3
<1>3. CASE NoOrigin(t) \/ ConnectOk(t) \/ Send(t) \/ Answer(t) \/ AnswerErrorFails(t)
  <2>1. Spares(t)
    BY <1>3 DEF NoOrigin, ConnectOk, Send, Answer, AnswerErrorFails, Goto, Spares, TypeOK
  <2>2. Owns(t)'
    BY <1>3 DEF NoOrigin, ConnectOk, Send, Answer, AnswerErrorFails, Goto, Owns, TypeOK
  <2> QED
    BY <2>1, <2>2
<1>4. ASSUME NEW port \in Ports, NEW f \in Fds, OpenSocket(t, port, f)
      PROVE  Spares(t) /\ Owns(t)'
  <2>1. table[f] = Free
    BY <1>4 DEF OpenSocket, IsLowest, FreeFds
  <2>2. Spares(t)
    BY <1>4, <2>1, EntriesDiffer DEF OpenSocket, Goto, Spares, TypeOK
  <2>3. Owns(t)'
    BY <1>4, <2>1, EntriesDiffer DEF OpenSocket, Goto, Owns, TypeOK
  <2> QED
    BY <2>2, <2>3
<1>5. ASSUME NEW port \in Ports, OpenFails(t, port) PROVE FALSE
  BY <1>5 DEF OpenFails
<1>6. CASE LookupFails(t) \/ ConnectFails(t) \/ SendFails(t)
  BY <1>6 DEF LookupFails, ConnectFails, SendFails
<1>7. CASE Recv(t)
  <2>1. m_remote_fd[t] \in Fds /\ table[m_remote_fd[t]] = Origin(t)
    BY <1>7 DEF Recv, Goto, Owns
  <2>2. Spares(t)
    BY <1>1, <1>7, <2>1, EntriesDiffer DEF Recv, DeleteClient, Goto, Spares, TypeOK
  <2>3. Owns(t)'
    BY <1>1, <1>7, <2>1, EntriesDiffer DEF Recv, DeleteClient, Goto, Owns, TypeOK
  <2> QED
    BY <2>2, <2>3
<1>8. CASE RecvTimeout(t)
  <2>1. Spares(t)
    BY <1>8, EntriesDiffer DEF RecvTimeout, Goto, Spares, TypeOK
  <2>2. Owns(t)'
    BY <1>8, EntriesDiffer DEF RecvTimeout, Goto, Owns, TypeOK
  <2> QED
    BY <2>1, <2>2
<1>9. CASE Close(t)
  <2>1. client_id[t] \in Fds /\ table[client_id[t]] = Conn(t)
    BY <1>9 DEF Close, Goto, Owns
  <2>2. Spares(t)
    BY <1>1, <1>9, <2>1, EntriesDiffer DEF Close, Goto, Spares, TypeOK
  <2>3. Owns(t)'
    BY <1>1, <1>9, <2>1, EntriesDiffer DEF Close, Goto, Owns, TypeOK
  <2> QED
    BY <2>2, <2>3
<1>10. CASE Catches(t)
  BY <1>10, CatchOwns
<1> QED
  BY <1>2, <1>3, <1>4, <1>5, <1>6, <1>7, <1>8, <1>9, <1>10 DEF Steps

\* clean is history: once lost, it does not come back.
LEMMA CleanOnce ==
  ASSUME NEW t \in Threads, Steps(t), clean'
  PROVE  clean
  BY DEF Steps, Accept, NoOrigin, OpenSocket, OpenFails, LookupFails, ConnectOk,
         ConnectFails, Send, SendFails, Recv, RecvTimeout, Answer, AnswerErrorFails,
         Close, Catches, ReadFails, AnswerFails, CloseAgain, RecvFails, Catch

\* Until something fails every thread owns what its numbers name.
LEMMA OwnsInvariance == Spec => []OwnsInv
<1>1. Init => OwnsInv
  BY DEF Init, OwnsInv, Owns
<1>2. TypeOK /\ OwnsInv /\ [Next]_vars => OwnsInv'
  <2> SUFFICES ASSUME TypeOK, OwnsInv, [Next]_vars, clean', NEW u \in Threads
               PROVE  Owns(u)'
    BY DEF OwnsInv
  <2>1. CASE UNCHANGED vars
    BY <2>1 DEF OwnsInv, Owns, vars
  <2>2. CASE Next
    <3>1. PICK t \in Threads : Steps(t)
      BY <2>2, NextSteps
    <3>2. Owns(t) /\ Owns(u)
      BY <3>1, CleanOnce DEF OwnsInv
    <3>3. Spares(t) /\ Owns(t)'
      BY <3>1, <3>2, StepOwns
    <3> QED
      BY <3>2, <3>3 DEF Owns, Spares
  <2> QED
    BY <2>1, <2>2
<1> QED
  BY <1>1, <1>2, TypeCorrect, PTL DEF Spec

\* Until a lookup, a connect or a send fails, or a stale pointer is deleted, a
\* thread's two numbers are its own sockets, for any number of threads.
THEOREM ThreadsIsolated == Spec => []Isolated
<1>1. OwnsInv => Isolated
  BY DEF OwnsInv, Owns, Isolated
<1> QED
  BY <1>1, OwnsInvariance, PTL

\* A thread that closes anything moves on.
LEMMA ClosingMoves ==
  ASSUME TypeOK, NEW t \in Threads, Steps(t)
  PROVE  tpc'[t] # tpc[t] \/ table' = table
<1>1. CASE Catches(t)
  BY <1>1
  DEF Catches, ReadFails, AnswerFails, CloseAgain, RecvFails, Catch, Goto, TypeOK
<1>2. CASE ~Catches(t)
  BY <1>2
  DEF Steps, Accept, NoOrigin, OpenSocket, OpenFails, LookupFails, ConnectOk,
      ConnectFails, Send, SendFails, Recv, RecvTimeout, Answer, AnswerErrorFails,
      Close, Goto, TypeOK
<1> QED
  BY <1>1, <1>2

\* No lookup, connect or send has failed and no stale pointer was deleted.
Unharmed == clean

\* The README's "thread independent" is true as long as no lookup, connect or
\* send fails and no stale pointer is deleted: a connection or an origin socket
\* is closed only by a step of the thread it belongs to.
THEOREM IndependentUnharmed == Spec /\ []Unharmed => OwnDescriptors
<1>1. TypeOK /\ OwnsInv /\ Unharmed /\ Unharmed' /\ [Next]_vars =>
        [\A f \in Fds, t \in Threads :
           table[f] \in {Conn(t), Origin(t)} /\ table'[f] = Free => tpc'[t] # tpc[t]]_vars
  <2> SUFFICES ASSUME TypeOK, OwnsInv, Unharmed, Unharmed', Next,
                      NEW f \in Fds, NEW t \in Threads,
                      table[f] \in {Conn(t), Origin(t)}, table'[f] = Free
               PROVE  tpc'[t] # tpc[t]
    OBVIOUS
  <2>1. PICK u \in Threads : Steps(u)
    BY NextSteps
  <2>2. Spares(u)
    BY <2>1, StepOwns DEF OwnsInv, Unharmed
  <2>3. table'[f] # table[f]
    BY EntriesDiffer
  <2>4. t = u
    BY <2>2, <2>3 DEF Spares
  <2> QED
    BY <2>1, <2>3, <2>4, ClosingMoves
<1> QED
  BY <1>1, TypeCorrect, OwnsInvariance, PTL DEF Spec, OwnDescriptors
=============================================================================
