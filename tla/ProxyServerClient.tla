------------------------- MODULE ProxyServerClient -------------------------
(***************************************************************************)
(* Socket descriptors: class ProxyServerClient of                          *)
(* src/src/proxy-server-client.cc as the connection threads of             *)
(* src/src/proxy-server.cc use it.  All threads share the descriptor table *)
(* of the process, and the kernel gives out the lowest free number, so a   *)
(* number closed twice may belong to another thread the second time.       *)
(*                                                                         *)
(* The constructor swallows the exceptions of connectServer: the thread    *)
(* goes on with an object whose m_remote_fd was never set, or is closed.   *)
(* Uninitialised and freed memory may hold any number.  What the sockets   *)
(* carry is in module HttpExchange, the cache in OnConnect; here a request *)
(* is answered from the cache or by the origin.                            *)
(***************************************************************************)
EXTENDS Integers, FiniteSetsExt

CONSTANTS
  Threads,
  Fds,        \* the numbers the table has room for (RLIMIT_NOFILE)
  ListenFd,   \* the server's own descriptor, m_listen_fd
  NoFd,       \* what socket returns when the table is full: -1
  Garbage,    \* the numbers that memory nobody initialised, or freed, may hold
  Ports       \* what GetPort may return: an unsigned short

ASSUME ProxyServerClientAssumption ==
  /\ Fds \subseteq Nat
  /\ ListenFd \in Fds
  /\ NoFd \in Int \ Nat
  /\ Garbage \subseteq Fds \cup {NoFd}

ASSUME PortsAssumption == Ports \subseteq 0..65535

VARIABLES
  proc,         \* "up", or "abort" after a bad delete or an uncaught exception
  table,        \* the descriptor table of the process
  tpc,
  client_id,    \* the connection a thread serves
  client,       \* its pointer: "uninit", "live" or "deleted"
  m_remote_fd,  \* the member of the object, if it is live
  clean         \* history: no connect, send or delete has gone wrong so far

vars == <<proc, table, tpc, client_id, client, m_remote_fd, clean>>

Numbers == Fds \cup {NoFd}
Free == [kind |-> "free"]
Listen == [kind |-> "listen"]
Conn(t) == [kind |-> "conn", by |-> t]
Origin(t) == [kind |-> "origin", by |-> t]
Forgotten(t) == [kind |-> "forgotten", by |-> t]   \* an origin socket after a 408

Entries == {Free, Listen} \cup [kind : {"conn", "origin", "forgotten"}, by : Threads]

TypeOK ==
  /\ proc \in {"up", "abort"}
  /\ table \in [Fds -> Entries]
  /\ tpc \in [Threads -> {"none", "loop", "connect", "send", "throw", "recv",
                         "answer", "error", "close"}]
  /\ client_id \in [Threads -> Numbers]
  /\ client \in [Threads -> {"uninit", "live", "deleted"}]
  /\ m_remote_fd \in [Threads -> Numbers]
  /\ clean \in BOOLEAN

Init ==
  /\ proc = "up"
  /\ table = [f \in Fds |-> IF f = ListenFd THEN Listen ELSE Free]
  /\ tpc = [t \in Threads |-> "none"]
  /\ client_id = [t \in Threads |-> NoFd]
  /\ client = [t \in Threads |-> "uninit"]
  /\ m_remote_fd = [t \in Threads |-> NoFd]
  /\ clean = TRUE

Goto(t, from, to) ==
  /\ proc = "up"
  /\ tpc[t] = from
  /\ tpc' = [tpc EXCEPT ![t] = to]
  /\ UNCHANGED proc

FreeFds == {f \in Fds : table[f] = Free}
IsLowest(f) == f \in FreeFds /\ \A g \in FreeFds : f <= g

\* The table after close(f): EBADF for a number that is not open.
Closed(f) == [g \in Fds |-> IF g = f THEN Free ELSE table[g]]

\* Mutant: the destructor does not close.
DeleteClientLeaks(t) ==
  /\ UNCHANGED table
  /\ client' = [client EXCEPT ![t] = "deleted"]
  /\ m_remote_fd' = [m_remote_fd EXCEPT ![t] = NoFd]

\* delete client, for an object there is: the destructor closes its number.
DeleteClient(t) ==
  /\ table' = Closed(m_remote_fd[t])
  /\ client' = [client EXCEPT ![t] = "deleted"]
  /\ m_remote_fd' = [m_remote_fd EXCEPT ![t] = NoFd]

----------------------------------------------------------------------------
(* The connection. *)

\* Mutant: the result of accept is not compared with -1.
AcceptUnchecked(t, f) ==
  /\ Goto(t, "none", "loop")
  /\ table' = [g \in Fds \cup {NoFd} |-> IF g = NoFd THEN Conn(t) ELSE table[g]]
  /\ client_id' = [client_id EXCEPT ![t] = NoFd]
  /\ UNCHANGED <<client, m_remote_fd, clean>>

\* accept gives the thread its connection; as long as the server can accept.
Accept(t, f) ==
  /\ table[ListenFd] = Listen
  /\ IsLowest(f)
  /\ Goto(t, "none", "loop")
  /\ table' = [table EXCEPT ![f] = Conn(t)]
  /\ client_id' = [client_id EXCEPT ![t] = f]
  /\ client' = [client EXCEPT ![t] = "uninit"]
  /\ m_remote_fd' = [m_remote_fd EXCEPT ![t] = NoFd]
  /\ UNCHANGED clean

\* The request is answered from the cache, or with 400 or 501.
NoOrigin(t) ==
  /\ Goto(t, "loop", "answer") \/ Goto(t, "loop", "error")
  /\ UNCHANGED <<table, client_id, client, m_remote_fd, clean>>

\* catch (ProxyServerException&): delete client.  The destructor closes
\* m_remote_fd; of an object that never was or is gone, some number, unless the
\* allocator notices and aborts.
Catch(t, from) ==
  \/ /\ client[t] = "live"
     /\ Goto(t, from, "close")
     /\ DeleteClient(t)
     /\ UNCHANGED <<client_id, clean>>
  \/ /\ client[t] # "live"
     /\ Goto(t, from, "close")
     /\ \E f \in Garbage : table' = Closed(f)
     /\ clean' = FALSE
     /\ UNCHANGED <<client_id, client, m_remote_fd>>
  \/ /\ client[t] # "live"
     /\ proc = "up" /\ tpc[t] = from
     /\ proc' = "abort"
     /\ UNCHANGED <<table, tpc, client_id, client, m_remote_fd, clean>>

ReadFails(t) == Catch(t, "loop")

\* The response, or the error response, is sent; the request was, or was not,
\* the last one.
Answer(t) ==
  /\ \E from \in {"answer", "error"}, to \in {"loop", "close"} : Goto(t, from, to)
  /\ UNCHANGED <<table, client_id, client, m_remote_fd, clean>>

AnswerFails(t) == Catch(t, "answer")

\* Nothing catches what sendHttpResponse throws in the second handler.
AnswerErrorFails(t) ==
  /\ proc = "up" /\ tpc[t] = "error"
  /\ proc' = "abort"
  /\ UNCHANGED <<table, tpc, client_id, client, m_remote_fd, clean>>

\* close(client_id), whatever that number is by now.
Close(t) ==
  /\ Goto(t, "close", "none")
  /\ table' = Closed(client_id[t])
  /\ client_id' = [client_id EXCEPT ![t] = NoFd]
  /\ UNCHANGED <<client, m_remote_fd, clean>>

----------------------------------------------------------------------------
(* new ProxyServerClient: connectServer. *)

\* The constructor's parameter is a signed short.
Narrow(port) == IF port < 2^15 THEN port ELSE port - 2^16

\* getaddrinfo knows neither every host nor a negative port.  The new object's
\* m_remote_fd keeps what was in its memory.
LookupFails(t) ==
  /\ Goto(t, "loop", "send")
  /\ client' = [client EXCEPT ![t] = "live"]
  /\ \E f \in Garbage : m_remote_fd' = [m_remote_fd EXCEPT ![t] = f]
  /\ clean' = FALSE
  /\ UNCHANGED <<table, client_id>>

OpenSocket(t, port, f) ==
  /\ Narrow(port) >= 0
  /\ IsLowest(f)
  /\ Goto(t, "loop", "connect")
  /\ table' = [table EXCEPT ![f] = Origin(t)]
  /\ client' = [client EXCEPT ![t] = "live"]
  /\ m_remote_fd' = [m_remote_fd EXCEPT ![t] = f]
  /\ UNCHANGED <<client_id, clean>>

\* The table is full: m_remote_fd is -1.
OpenFails(t, port) ==
  /\ Narrow(port) >= 0
  /\ FreeFds = {}
  /\ Goto(t, "loop", "send")
  /\ client' = [client EXCEPT ![t] = "live"]
  /\ m_remote_fd' = [m_remote_fd EXCEPT ![t] = NoFd]
  /\ clean' = FALSE
  /\ UNCHANGED <<table, client_id>>

ConnectOk(t) ==
  /\ Goto(t, "connect", "send")
  /\ UNCHANGED <<table, client_id, client, m_remote_fd, clean>>

\* The socket is closed, and the constructor returns all the same.
ConnectFails(t) ==
  /\ Goto(t, "connect", "send")
  /\ table' = Closed(m_remote_fd[t])
  /\ clean' = FALSE
  /\ UNCHANGED <<client_id, client, m_remote_fd>>

----------------------------------------------------------------------------
(* sendHttpRequest, getHttpResponse, delete. *)

\* A connected socket, whosever it is.
Usable(f) == f \in Fds /\ table[f] \notin {Free, Listen}

\* send to whatever socket has the number.
Send(t) ==
  /\ Usable(m_remote_fd[t])
  /\ Goto(t, "send", "recv")
  /\ UNCHANGED <<table, client_id, client, m_remote_fd, clean>>

\* The number is closed before the exception is thrown ...
SendFails(t) ==
  /\ Goto(t, "send", "throw")
  /\ table' = Closed(m_remote_fd[t])
  /\ clean' = FALSE
  /\ UNCHANGED <<client_id, client, m_remote_fd>>

\* ... and once more by the handler's delete client.
CloseAgain(t) == Catch(t, "throw")

\* The response was read, and the client is deleted.
Recv(t) ==
  /\ Usable(m_remote_fd[t])
  /\ Goto(t, "recv", "answer")
  /\ DeleteClient(t)
  /\ UNCHANGED <<client_id, clean>>

\* recv or a parser failed.
RecvFails(t) == Catch(t, "recv")

\* Mutant: the 408 path closes the descriptor and keeps the object.
RecvTimeoutCloses(t) ==
  /\ Goto(t, "recv", "error")
  /\ table' = Closed(m_remote_fd[t])
  /\ UNCHANGED <<client_id, client, m_remote_fd, clean>>

\* The chunk of EAGAIN characters: 408 is answered, and nobody deletes client.
\* The socket stays open until a later exception of this thread, if any.
RecvTimeout(t) ==
  /\ Usable(m_remote_fd[t])
  /\ Goto(t, "recv", "error")
  /\ table' = [f \in Fds |-> IF f = m_remote_fd[t] /\ table[f] = Origin(t)
                             THEN Forgotten(t) ELSE table[f]]
  /\ UNCHANGED <<client_id, client, m_remote_fd, clean>>

Next ==
  \E t \in Threads :
    \/ \E f \in Fds : Accept(t, f)
    \/ NoOrigin(t)
    \/ ReadFails(t)
    \/ \E port \in Ports, f \in Fds : OpenSocket(t, port, f)
    \/ \E port \in Ports : OpenFails(t, port)
    \/ LookupFails(t)
    \/ ConnectOk(t)
    \/ ConnectFails(t)
    \/ Send(t)
    \/ SendFails(t)
    \/ CloseAgain(t)
    \/ Recv(t)
    \/ RecvFails(t)
    \/ RecvTimeout(t)
    \/ Answer(t)
    \/ AnswerFails(t)
    \/ AnswerErrorFails(t)
    \/ Close(t)

Spec == Init /\ [][Next]_vars

----------------------------------------------------------------------------

\* No descriptor is lost, whatever goes wrong: an open connection is the one of
\* a thread that still serves it, and an open origin socket is held by the
\* client object of a thread that is using it, except the ones the 408 path
\* forgets.
Accounted ==
  \A f \in Fds, t \in Threads :
    /\ table[f] = Conn(t) => client_id[t] = f /\ tpc[t] # "none"
    /\ table[f] = Origin(t) =>
         /\ m_remote_fd[t] = f /\ client[t] = "live"
         /\ tpc[t] \in {"connect", "send", "recv"}

\* Until a lookup, a connect or a send fails, or a stale pointer is deleted, the
\* threads are independent: the number a thread sends its request to, or reads
\* its response from, is its own origin socket, and the number it answers on is
\* its own connection.
Isolated ==
  clean => \A t \in Threads :
    /\ tpc[t] \in {"connect", "send", "recv"} =>
         m_remote_fd[t] \in Fds /\ table[m_remote_fd[t]] = Origin(t)
    /\ tpc[t] # "none" => client_id[t] \in Fds /\ table[client_id[t]] = Conn(t)

\* README, "Connection handling (thread independent)": a descriptor is closed by
\* a step of the thread it belongs to.
OwnDescriptors ==
  [][\A f \in Fds, t \in Threads :
       table[f] \in {Conn(t), Origin(t)} /\ table'[f] = Free => tpc'[t] # tpc[t]]_vars
=============================================================================
