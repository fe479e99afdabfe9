--------------------------- MODULE CacheDbCallers ---------------------------
(***************************************************************************)
(* The Database object on its own: threads call its four methods in any    *)
(* order.  OnConnect calls them in one order only; what CacheDb says of    *)
(* query() is asked here without relying on it.                            *)
(***************************************************************************)
EXTENDS CacheDb

Init ==
  /\ rows = << >>
  /\ DbOpened
  /\ intact = TRUE

Call(t) ==
  \E k \in Keys :
    \/ containsHostPathCache(t, k)
    \/ getCache(t, k)
    \/ \E r \in Resps : /\ r.key = k
                        /\ \/ /\ Len(rows) < MaxRows
                              /\ insertCache(t, k, r.expires, r)
                           \/ updateCache(t, k, r.expires, r)

Next ==
  \E t \in Threads :
    \/ Call(t)
    \/ Step(t)
    \/ StepFault(t)
    \/ Finalize(t)
    \/ QueryReturn(t)
    \/ QueryThrow(t)

Spec == Init /\ [][Next]_dbVars
=============================================================================
