------------------------ MODULE MCProxyServerClient ------------------------
(***************************************************************************)
(* TLC runs of ProxyServerClient: two threads, and a descriptor table that *)
(* is full when each has a connection and one of them two origin sockets.  *)
(***************************************************************************)
EXTENDS ProxyServerClient, TLC

MCNoFd == -1

\* The best case: a number nobody has.
Harmless == {MCNoFd}

Symmetry == Permutations(Threads)
=============================================================================
